--------------------------- MODULE Scheduler_proofs ---------------------------
(***************************************************************************)
(* The safety of the scheduler, for any keys, calls, delays and clients.   *)
(***************************************************************************)
EXTENDS Scheduler, TLAPS

Pending(c) == pc[c] \in {"newExpireTime", "setRequest"}

\* What a client waits with: a call it has made, or a key.
ArgsOK ==
    \A c \in Clients : /\ Pending(c) => arg[c] \in Called
                       /\ pc[c] \in {"containsRequest", "containsResponse"} => arg[c] \in Keys

\* expiresHandler delivers something.
NextOK == expirer = "delete" => next # None

TypeInv == TypeOK /\ ArgsOK /\ NextOK

LEMMA InitTypeInv == Init => TypeInv
<1> SUFFICES ASSUME Init PROVE TypeInv
  OBVIOUS
<1>1. ArgsOK /\ NextOK
  BY DEF Init, ArgsOK, NextOK, Pending
<1>2. /\ now \in 0 .. MaxTime /\ armed \in 0 .. Never /\ tick \in BOOLEAN /\ answer \in BOOLEAN
      /\ heap \subseteq Called
  <2>1. MaxTime \in Nat
    BY SchedulerAssumption
  <2>2. now \in 0 .. MaxTime /\ armed \in 0 .. Never
    BY <2>1 DEF Init, Never
  <2>3. heap \subseteq Called /\ tick \in BOOLEAN /\ answer \in BOOLEAN
    BY DEF Init
  <2>4. QED  BY <2>2, <2>3
<1>3. /\ callbacks \in [Keys -> Events \cup {None}]
      /\ arg \in [Clients -> Events \cup Keys \cup {None}]
      /\ expiresAt \in [Events -> 0 .. MaxTime \cup {NotCalled}]
      /\ next \in Events \cup {None}
  BY DEF Init
<1>4. ran \in Seq([event : Events, at : 0 .. MaxTime \cup {NotBegun}])
  BY DEF Init
<1>5. /\ storage \in {"select", "respond", "stopped"}
      /\ expirer \in {"reset", "select", "delete", "stopped"}
      /\ closed \in {"no", "stop", "all"}
  BY DEF Init
<1>6. pc \in [Clients -> {"idle", "newExpireTime", "setRequest",
                 "containsRequest", "containsResponse", "cleanupRequest",
                 "cleanupExpiresRequest", "wait", "destroyed", "panicked"}]
  BY DEF Init
<1>7. QED  BY <1>1, <1>2, <1>3, <1>4, <1>5, <1>6 DEF TypeInv, TypeOK

\* A call is made once, and its time does not change after that.
LEMMA CallsStay ==
    ASSUME TypeInv, [Next]_vars
    PROVE  Called \subseteq Called' /\ \A e \in Called : expiresAt'[e] = expiresAt[e]
<1>1. ASSUME NEW c \in Clients, NEW e \in Events, AddEvent(c, e)
      PROVE  Called \subseteq Called' /\ \A f \in Called : expiresAt'[f] = expiresAt[f]
  BY <1>1 DEF AddEvent, Called, TypeInv, TypeOK
<1>2. CASE UNCHANGED expiresAt
  BY <1>2 DEF Called
<1>3. QED
  BY <1>1, <1>2 DEF Next, Calls, Serve, Contains, Cleanup, Destroy, Destroyed, SendOnClosed, Set,
     CleanupCallbacks, ReceiveContains, Respond, StopStorage, ResetTimer, PushExpire,
     CleanupExpires, ReceiveTick, Deliver, StopExpirer, TimerFires, Tick, Execute, vars

\* Execute sets the time of one goroutine.
LEMMA ExecuteBegins ==
    ASSUME TypeInv, NEW i \in DOMAIN ran, Execute(i)
    PROVE  /\ ran' \in Seq([event : Events, at : 0 .. MaxTime \cup {NotBegun}])
           /\ DOMAIN ran' = DOMAIN ran /\ \A j \in DOMAIN ran : ran'[j].event = ran[j].event
<1> DEFINE R == [event : Events, at : 0 .. MaxTime \cup {NotBegun}]
<1>1. ran \in Seq(R) /\ now \in 0 .. MaxTime
  BY DEF TypeInv, TypeOK
<1>2. \A j \in DOMAIN ran : ran[j] \in R
  <2> HIDE DEF R
  <2>1. QED  BY <1>1
<1>3. ran' = [ran EXCEPT ![i] = [ran[i] EXCEPT !.at = now]]
  BY DEF Execute
<1>4. [ran[i] EXCEPT !.at = now] \in R /\ [ran[i] EXCEPT !.at = now].event = ran[i].event
  BY <1>1, <1>2
<1> HIDE DEF R
<1>5. ran' \in Seq(R)
  BY <1>1, <1>3, <1>4
<1>6. DOMAIN ran' = DOMAIN ran /\ \A j \in DOMAIN ran : ran'[j].event = ran[j].event
  BY <1>3, <1>4
<1>7. QED  BY <1>5, <1>6 DEF R

LEMMA NextTypeInv ==
    ASSUME TypeInv, [Next]_vars
    PROVE  TypeInv'
<1> USE SchedulerAssumption DEF TypeInv, TypeOK, ArgsOK, NextOK, Pending, Called, Never, NotCalled,
        NotBegun, clientVars, storageVars, expirerVars, Goto, Return
<1>1. ASSUME NEW c \in Clients, NEW e \in Events, AddEvent(c, e) PROVE TypeInv'
  BY <1>1 DEF AddEvent
<1>2. ASSUME NEW c \in Clients, NEW k \in Keys, Contains(c, k) PROVE TypeInv'
  BY <1>2 DEF Contains
<1>3. ASSUME NEW c \in Clients, Cleanup(c) PROVE TypeInv'
  BY <1>3 DEF Cleanup
<1>4. ASSUME NEW c \in Clients, Destroy(c) PROVE TypeInv'
  BY <1>4 DEF Destroy
<1>5. ASSUME NEW c \in Clients, Destroyed(c) PROVE TypeInv'
  BY <1>5 DEF Destroyed
<1>6. ASSUME NEW c \in Clients, SendOnClosed(c) PROVE TypeInv'
  BY <1>6 DEF SendOnClosed
<1>7. ASSUME NEW c \in Clients, Set(c) PROVE TypeInv'
  BY <1>7 DEF Set
<1>8. ASSUME NEW c \in Clients, CleanupCallbacks(c) PROVE TypeInv'
  BY <1>8 DEF CleanupCallbacks
<1>9. ASSUME NEW c \in Clients, ReceiveContains(c) PROVE TypeInv'
  BY <1>9 DEF ReceiveContains, AfterRequest
<1>10. ASSUME NEW c \in Clients, Respond(c) PROVE TypeInv'
  BY <1>10 DEF Respond
<1>11. ASSUME NEW c \in Clients, PushExpire(c) PROVE TypeInv'
  BY <1>11 DEF PushExpire, AfterPush
<1>12. ASSUME NEW c \in Clients, CleanupExpires(c) PROVE TypeInv'
  BY <1>12 DEF CleanupExpires
<1>13. CASE StopStorage
  BY <1>13 DEF StopStorage
<1>14. CASE ResetTimer
  BY <1>14 DEF ResetTimer, Roots, Deadline
<1>15. CASE ReceiveTick
  BY <1>15 DEF ReceiveTick
<1>16. CASE Deliver
  <2>1. next \in Events /\ KeyOf[next] \in Keys
    BY <1>16 DEF Deliver
  <2>2. callbacks' \in [Keys -> Events \cup {None}]
    BY <1>16, <2>1 DEF Deliver, Forgotten
  <2>3. ran' \in Seq([event : Events, at : 0 .. MaxTime \cup {NotBegun}])
    <3>1. CASE callbacks[KeyOf[next]] = None
      BY <1>16, <3>1 DEF Deliver
    <3>2. CASE callbacks[KeyOf[next]] # None
      <4>1. [event |-> callbacks[KeyOf[next]], at |-> NotBegun] \in [event : Events, at : 0 .. MaxTime \cup {NotBegun}]
        BY <2>1, <3>2
      <4>2. QED  BY <1>16, <3>2, <4>1 DEF Deliver
    <3>3. QED  BY <3>1, <3>2
  <2>4. QED  BY <1>16, <2>2, <2>3 DEF Deliver
<1>17. CASE StopExpirer
  BY <1>17 DEF StopExpirer
<1>18. CASE TimerFires
  BY <1>18 DEF TimerFires
<1>19. CASE Tick
  BY <1>19 DEF Tick
<1>20. CASE UNCHANGED vars
  BY <1>20 DEF vars
<1>21. ASSUME NEW i \in DOMAIN ran, Execute(i) PROVE TypeInv'
  <2>1. ran' \in Seq([event : Events, at : 0 .. MaxTime \cup {NotBegun}])
    BY <1>21, ExecuteBegins
  <2>2. QED  BY <1>21, <2>1 DEF Execute
<1>22. QED
  BY <1>1, <1>2, <1>3, <1>4, <1>5, <1>6, <1>7, <1>8, <1>9, <1>10, <1>11, <1>12, <1>13, <1>14,
     <1>15, <1>16, <1>17, <1>18, <1>19, <1>20, <1>21 DEF Next, Calls, Serve

LEMMA TypeInvHolds == Spec => []TypeInv
BY InitTypeInv, NextTypeInv, PTL DEF Spec

\* Every variable keeps its type; what waits in the heap was called.
THEOREM SchedulerTypeOK == Spec => []TypeOK
<1>1. TypeInv => TypeOK
  BY DEF TypeInv
<1>2. QED  BY <1>1, TypeInvHolds, PTL

-----------------------------------------------------------------------------
(* The timer and the heap *)

\* The steps of expiresHandler and the timer; every other step leaves them alone.
LEMMA ExpirerSteps ==
    ASSUME TypeInv, [Next]_vars
    PROVE  \/ ResetTimer \/ ReceiveTick \/ Deliver \/ StopExpirer \/ TimerFires
           \/ \E c \in Clients : PushExpire(c) \/ CleanupExpires(c)
           \/ UNCHANGED expirerVars
BY DEF Next, Calls, Serve, AddEvent, Contains, Cleanup, Destroy, Destroyed, SendOnClosed, Set,
   CleanupCallbacks, ReceiveContains, Respond, StopStorage, Tick, Execute, vars

\* The event whose time the timer was set to is still first in the heap.
NextIsRoot == expirer \in {"select", "delete"} /\ next # None => next \in Roots

LEMMA NextNextIsRoot ==
    ASSUME TypeInv, NextIsRoot, [Next]_vars
    PROVE  NextIsRoot'
<1>1. Called \subseteq Called' /\ \A e \in Called : expiresAt'[e] = expiresAt[e]
  BY CallsStay
<1>2. heap \subseteq Called
  BY DEF TypeInv, TypeOK
<1>3. heap' = heap => Roots' = Roots
  BY <1>1, <1>2 DEF Roots
<1>4. CASE ResetTimer
  BY <1>3, <1>4 DEF ResetTimer, NextIsRoot
<1>5. CASE ReceiveTick \/ StopExpirer \/ TimerFires \/ UNCHANGED expirerVars
  BY <1>3, <1>5 DEF ReceiveTick, StopExpirer, TimerFires, expirerVars, NextIsRoot
<1>6. CASE Deliver \/ \E c \in Clients : PushExpire(c) \/ CleanupExpires(c)
  BY <1>6 DEF Deliver, PushExpire, AfterPush, CleanupExpires, NextIsRoot
<1>7. QED  BY <1>4, <1>5, <1>6, ExpirerSteps

\* The entry that heap.Remove takes out after a delivery is the one that was
\* delivered (scheduler.go:162).
THEOREM SchedulerDeliversTheRoot == Spec => []DeliversTheRoot
<1>1. Init => NextIsRoot
  BY DEF Init, NextIsRoot
<1>2. TypeInv /\ NextIsRoot /\ [Next]_vars => NextIsRoot'
  BY NextNextIsRoot
<1>3. TypeInv /\ NextIsRoot => DeliversTheRoot
  BY DEF TypeInv, NextOK, NextIsRoot, DeliversTheRoot
<1>4. QED  BY <1>1, <1>2, <1>3, TypeInvHolds, PTL DEF Spec

\* expiresHandler never sleeps past the first expiry of its heap: whatever was pushed,
\* cleaned up or delivered, and though Reset leaves an old tick in the channel.
THEOREM SchedulerNoMissedWakeup == Spec => []NoMissedWakeup
<1>1. Init => NoMissedWakeup
  BY DEF Init, NoMissedWakeup
<1>2. ASSUME TypeInv, NoMissedWakeup, [Next]_vars
      PROVE  NoMissedWakeup'
  <2>1. Called \subseteq Called' /\ \A e \in Called : expiresAt'[e] = expiresAt[e]
    BY <1>2, CallsStay
  <2>2. heap \subseteq Called
    BY <1>2 DEF TypeInv, TypeOK
  <2>3. CASE ResetTimer
    <3>1. CASE heap = {}
      BY <2>3, <3>1 DEF ResetTimer, NoMissedWakeup
    <3>2. ASSUME NEW e \in Roots, armed' = Deadline(e) PROVE NoMissedWakeup'
      BY <2>3, <3>2 DEF ResetTimer, Roots, Deadline, NoMissedWakeup
    <3>3. QED  BY <2>3, <3>1, <3>2 DEF ResetTimer
  <2>4. CASE ReceiveTick \/ Deliver \/ StopExpirer \/ \E c \in Clients : PushExpire(c) \/ CleanupExpires(c)
    BY <2>4 DEF ReceiveTick, Deliver, StopExpirer, PushExpire, AfterPush, CleanupExpires,
                NoMissedWakeup
  <2>5. CASE TimerFires
    BY <2>5 DEF TimerFires, NoMissedWakeup
  <2>6. CASE UNCHANGED expirerVars
    BY <1>2, <2>1, <2>2, <2>6 DEF expirerVars, NoMissedWakeup
  <2>7. QED  BY <1>2, <2>3, <2>4, <2>5, <2>6, ExpirerSteps
<1>3. QED  BY <1>1, <1>2, TypeInvHolds, PTL DEF Spec

-----------------------------------------------------------------------------
(* Answers, and the end *)

\* The steps of storageHandler; every other step leaves it, and the clients that wait
\* for an answer, alone.
LEMMA StorageSteps ==
    ASSUME TypeInv, [Next]_vars
    PROVE  \/ StopStorage \/ Deliver
           \/ \E c \in Clients : Set(c) \/ CleanupCallbacks(c) \/ ReceiveContains(c) \/ Respond(c)
           \/ /\ UNCHANGED storageVars /\ Len(ran') = Len(ran)
              /\ \/ UNCHANGED pc
                 \/ \E c \in Clients, p \in {"newExpireTime", "containsRequest", "cleanupRequest",
                                            "wait", "destroyed", "panicked", "setRequest", "idle"} :
                       pc[c] # "containsResponse" /\ pc' = [pc EXCEPT ![c] = p]
<1>1. ASSUME NEW i \in DOMAIN ran, Execute(i) PROVE UNCHANGED <<storageVars, pc>> /\ Len(ran') = Len(ran)
  BY <1>1 DEF Execute, clientVars, TypeInv, TypeOK
<1>2. QED
  BY <1>1 DEF Next, Calls, Serve, AddEvent, Contains, Cleanup, Destroy, Destroyed, SendOnClosed,
     PushExpire, CleanupExpires, ResetTimer, ReceiveTick, StopExpirer, TimerFires, Tick, vars,
     Goto, Return, clientVars

Readers == {c \in Clients : pc[c] = "containsResponse"}

\* An answer goes to the client that asked, who is the only one to wait for one.
THEOREM SchedulerAnswerHasOneReader == Spec => []AnswerHasOneReader
<1>1. AnswerHasOneReader <=> IF storage = "respond" THEN \E c \in Clients : Readers = {c}
                             ELSE Readers = {}
  BY DEF AnswerHasOneReader, Readers
<1>2. AnswerHasOneReader' <=> IF storage' = "respond" THEN \E c \in Clients : Readers' = {c}
                              ELSE Readers' = {}
  BY DEF AnswerHasOneReader, Readers
<1>3. Init => AnswerHasOneReader
  BY DEF Init, AnswerHasOneReader
<1>4. ASSUME TypeInv, AnswerHasOneReader, [Next]_vars
      PROVE  AnswerHasOneReader'
  <2> USE DEF TypeInv, TypeOK
  <2>1. CASE StopStorage
    <3>1. storage = "select" /\ storage' = "stopped" /\ Readers' = Readers
      BY <2>1 DEF StopStorage, MayStop, Readers, clientVars
    <3>2. QED  BY <1>1, <1>2, <1>4, <3>1
  <2>2. CASE Deliver
    <3>1. storage' = storage /\ Readers' = Readers
      BY <2>2 DEF Deliver, Readers, clientVars
    <3>2. QED  BY <1>1, <1>2, <1>4, <3>1
  <2>3. ASSUME NEW c \in Clients, Set(c) \/ CleanupCallbacks(c) PROVE AnswerHasOneReader'
    <3>1. storage' = storage /\ Readers' = Readers
      BY <1>4, <2>3 DEF Set, CleanupCallbacks, Readers, Goto, Return
    <3>2. QED  BY <1>1, <1>2, <1>4, <3>1
  <2>4. ASSUME NEW c \in Clients, ReceiveContains(c) PROVE AnswerHasOneReader'
    <3>1. storage = "select" /\ storage' = "respond" /\ Readers' = Readers \cup {c}
      BY <1>4, <2>4 DEF ReceiveContains, AfterRequest, Readers, Goto
    <3>2. QED  BY <1>1, <1>2, <1>4, <3>1
  <2>5. ASSUME NEW c \in Clients, Respond(c) PROVE AnswerHasOneReader'
    <3>1. storage = "respond" /\ storage' = "select" /\ c \in Readers /\ Readers' = Readers \ {c}
      BY <1>4, <2>5 DEF Respond, Readers, Goto, Return
    <3>2. QED  BY <1>1, <1>2, <1>4, <3>1
  <2>6. CASE /\ UNCHANGED storageVars
             /\ \/ UNCHANGED pc
                \/ \E c \in Clients, p \in {"newExpireTime", "containsRequest", "cleanupRequest",
                                           "wait", "destroyed", "panicked", "setRequest", "idle"} :
                      pc[c] # "containsResponse" /\ pc' = [pc EXCEPT ![c] = p]
    <3>1. storage' = storage /\ Readers' = Readers
      BY <1>4, <2>6 DEF storageVars, Readers
    <3>2. QED  BY <1>1, <1>2, <1>4, <3>1
  <2>7. QED  BY <1>4, <2>1, <2>2, <2>3, <2>4, <2>5, <2>6, StorageSteps
<1>5. QED  BY <1>3, <1>4, TypeInvHolds, PTL DEF Spec

\* When Destroy has returned, storageHandler has stopped for good.
DestroyedInv == closed = "all" => storage = "stopped"

\* Once Destroy has returned no goroutine is started for a callback any more.
THEOREM SchedulerQuietOnceDestroyed == Spec => QuietOnceDestroyed
<1>1. Init => DestroyedInv
  BY DEF Init, DestroyedInv
<1>2. ASSUME TypeInv, DestroyedInv, [Next]_vars
      PROVE  DestroyedInv'
  <2>1. CASE \E c \in Clients : Destroyed(c)
    BY <2>1 DEF Destroyed, HandlersDone, storageVars, DestroyedInv
  <2>2. CASE \E c \in Clients : Destroy(c)
    BY <2>2 DEF Destroy, DestroyedInv
  <2>3. CASE UNCHANGED closed
    <3>1. storage = "stopped" => storage' = "stopped"
      BY <1>2, StorageSteps DEF StopStorage, MayStop, Deliver, Set, CleanupCallbacks,
         ReceiveContains, Respond, storageVars
    <3>2. QED  BY <1>2, <2>3, <3>1 DEF DestroyedInv
  <2>4. QED
    BY <1>2, <2>1, <2>2, <2>3 DEF Next, Calls, Serve, AddEvent, Contains, Cleanup, SendOnClosed,
       Set, CleanupCallbacks, ReceiveContains, Respond, StopStorage, ResetTimer, PushExpire,
       CleanupExpires, ReceiveTick, Deliver, StopExpirer, TimerFires, Tick, Execute, vars
<1>3. ASSUME TypeInv, DestroyedInv, [Next]_vars
      PROVE  [closed = "all" => Len(ran') = Len(ran)]_vars
  BY <1>3, StorageSteps DEF DestroyedInv, StopStorage, MayStop, Deliver, Set, CleanupCallbacks,
     ReceiveContains, Respond
<1>4. QED  BY <1>1, <1>2, <1>3, TypeInvHolds, PTL DEF Spec, QuietOnceDestroyed

-----------------------------------------------------------------------------
(* A call is in one place *)

HasRun(e) == \E i \in DOMAIN ran : ran[i].event = e

\* A call is with the client that made it, or in the map under its key, or has run.
OnePlace ==
    /\ \A c, d \in Clients : Pending(c) /\ Pending(d) /\ arg[c] = arg[d] => c = d
    /\ \A c \in Clients : Pending(c) =>
          /\ \A k \in Keys : callbacks[k] # arg[c]
          /\ ~HasRun(arg[c])
    /\ \A k \in Keys : callbacks[k] # None =>
          callbacks[k] \in Called /\ KeyOf[callbacks[k]] = k /\ ~HasRun(callbacks[k])
    /\ \A i \in DOMAIN ran : ran[i].event \in Called
    /\ AtMostOnce

\* A step that starts no callback, and at most takes a call away.
LEMMA NothingDelivered ==
    ASSUME TypeInv, OnePlace, [Next]_vars,
           DOMAIN ran' = DOMAIN ran, \A i \in DOMAIN ran : ran'[i].event = ran[i].event,
           \A k \in Keys : callbacks'[k] \in {callbacks[k], None},
           \A c \in Clients : Pending(c)' => Pending(c) /\ arg'[c] = arg[c]
    PROVE  OnePlace'
<1>1. \A e : HasRun(e)' <=> HasRun(e)
  BY DEF HasRun
<1>2. Called \subseteq Called'
  BY CallsStay
<1>3. AtMostOnce'
  BY DEF OnePlace, AtMostOnce
<1>4. \A c, d \in Clients : Pending(c)' /\ Pending(d)' /\ arg'[c] = arg'[d] => c = d
  BY DEF OnePlace
<1>5. \A c \in Clients : Pending(c)' =>
         (\A k \in Keys : callbacks'[k] # arg'[c]) /\ ~HasRun(arg[c])'
  BY <1>1, SchedulerAssumption DEF OnePlace, TypeInv, ArgsOK, Called
<1>6. \A k \in Keys : callbacks'[k] # None =>
         callbacks'[k] \in Called' /\ KeyOf[callbacks'[k]] = k /\ ~HasRun(callbacks[k])'
  BY <1>1, <1>2 DEF OnePlace
<1>7. \A i \in DOMAIN ran' : ran'[i].event \in Called'
  BY <1>2 DEF OnePlace
<1>8. QED  BY <1>3, <1>4, <1>5, <1>6, <1>7 DEF OnePlace

LEMMA NextOnePlace ==
    ASSUME TypeInv, OnePlace, [Next]_vars
    PROVE  OnePlace'
<1> USE DEF TypeInv, TypeOK
<1>1. Called \subseteq Called'
  BY CallsStay
<1>2. ASSUME NEW c \in Clients, NEW e \in Events, AddEvent(c, e) PROVE OnePlace'
  <2>1. /\ UNCHANGED <<callbacks, ran>> /\ e \notin Called
        /\ Pending(c)' /\ arg'[c] = e
        /\ \A d \in Clients \ {c} : pc'[d] = pc[d] /\ arg'[d] = arg[d]
    BY <1>2 DEF AddEvent, Goto, Pending, storageVars
  <2>2. \A d \in Clients \ {c} : Pending(d)' => Pending(d) /\ arg[d] \in Called
    BY <2>1 DEF Pending, ArgsOK
  <2>3. \A x : HasRun(x)' <=> HasRun(x)
    BY <2>1 DEF HasRun
  <2>4. ~HasRun(e)
    BY <2>1 DEF OnePlace, HasRun
  <2>5. \A k \in Keys : callbacks[k] # e
    BY <2>1, SchedulerAssumption DEF OnePlace
  <2>6. \A c1, c2 \in Clients : Pending(c1)' /\ Pending(c2)' /\ arg'[c1] = arg'[c2] => c1 = c2
    BY <2>1, <2>2 DEF OnePlace
  <2>7. \A d \in Clients : Pending(d)' =>
           (\A k \in Keys : callbacks'[k] # arg'[d]) /\ ~HasRun(arg[d])'
    BY <2>1, <2>2, <2>3, <2>4, <2>5 DEF OnePlace
  <2>8. AtMostOnce' /\ \A i \in DOMAIN ran' : ran'[i].event \in Called'
    BY <1>1, <2>1 DEF OnePlace, AtMostOnce
  <2>9. \A k \in Keys : callbacks'[k] # None =>
           callbacks'[k] \in Called' /\ KeyOf[callbacks'[k]] = k /\ ~HasRun(callbacks[k])'
    BY <1>1, <2>1, <2>3 DEF OnePlace
  <2>10. QED  BY <2>6, <2>7, <2>8, <2>9 DEF OnePlace
<1>3. ASSUME NEW c \in Clients, Set(c) PROVE OnePlace'
  <2> DEFINE e == arg[c]
  <2>1. /\ Pending(c) /\ e \in Called /\ KeyOf[e] \in Keys
        /\ callbacks' = [callbacks EXCEPT ![KeyOf[e]] = e]
        /\ ran' = ran /\ ~Pending(c)'
        /\ \A d \in Clients \ {c} : pc'[d] = pc[d] /\ arg'[d] = arg[d]
    BY <1>3, SchedulerAssumption DEF Set, Return, Goto, Pending, ArgsOK, Called
  <2>2. \A d \in Clients : Pending(d)' => d # c /\ Pending(d) /\ arg'[d] = arg[d] /\ arg[d] # e
    BY <2>1 DEF Pending, OnePlace
  <2>3. \A x : HasRun(x)' <=> HasRun(x)
    BY <2>1 DEF HasRun
  <2>4. \A d \in Clients : Pending(d)' =>
           (\A k \in Keys : callbacks'[k] # arg'[d]) /\ ~HasRun(arg[d])'
    BY <2>1, <2>2, <2>3 DEF OnePlace
  <2>5. \A k \in Keys : callbacks'[k] # None =>
           callbacks'[k] \in Called' /\ KeyOf[callbacks'[k]] = k /\ ~HasRun(callbacks[k])'
    <3>1. ~HasRun(e)
      BY <2>1 DEF OnePlace
    <3>2. QED  BY <1>1, <2>1, <2>3, <3>1 DEF OnePlace
  <2>6. \A c1, c2 \in Clients : Pending(c1)' /\ Pending(c2)' /\ arg'[c1] = arg'[c2] => c1 = c2
    BY <2>2 DEF OnePlace
  <2>7. AtMostOnce' /\ \A i \in DOMAIN ran' : ran'[i].event \in Called'
    BY <1>1, <2>1 DEF OnePlace, AtMostOnce
  <2>8. QED  BY <2>4, <2>5, <2>6, <2>7 DEF OnePlace
<1>4. CASE Deliver
  <2> DEFINE k == KeyOf[next]
             e == callbacks[k]
  <2>1. /\ k \in Keys /\ callbacks' = [callbacks EXCEPT ![k] = None]
        /\ ran' = IF e = None THEN ran ELSE Append(ran, [event |-> e, at |-> NotBegun])
        /\ pc' = pc /\ arg' = arg
    BY <1>4, SchedulerAssumption DEF Deliver, Forgotten, NextOK, clientVars
  <2>2. CASE e = None
    BY <2>1, <2>2, NothingDelivered DEF Pending
  <2>3. CASE e # None
    <3>1. /\ Len(ran) \in Nat /\ DOMAIN ran = 1 .. Len(ran)
          /\ DOMAIN ran' = 1 .. Len(ran) + 1
          /\ \A i \in 1 .. Len(ran) : ran'[i] = ran[i]
          /\ ran'[Len(ran) + 1].event = e
      BY <2>1, <2>3
    <3>2. e \in Called /\ ~HasRun(e)
      BY <2>1, <2>3 DEF OnePlace
    <3>3. \A x : HasRun(x)' => HasRun(x) \/ x = e
      BY <3>1 DEF HasRun
    <3>4. AtMostOnce'
      BY <3>1, <3>2 DEF OnePlace, AtMostOnce, HasRun
    <3>5. \A i \in DOMAIN ran' : ran'[i].event \in Called'
      BY <1>1, <3>1, <3>2 DEF OnePlace
    <3>6. \A j \in Keys : callbacks'[j] # None =>
             callbacks'[j] \in Called' /\ KeyOf[callbacks'[j]] = j /\ ~HasRun(callbacks[j])'
      BY <1>1, <2>1, <2>3, <3>3 DEF OnePlace
    <3>7. \A c \in Clients : Pending(c)' =>
             (\A j \in Keys : callbacks'[j] # arg'[c]) /\ ~HasRun(arg[c])'
      BY <2>1, <3>3, SchedulerAssumption DEF OnePlace, Pending, ArgsOK, Called
    <3>8. \A c1, c2 \in Clients : Pending(c1)' /\ Pending(c2)' /\ arg'[c1] = arg'[c2] => c1 = c2
      BY <2>1 DEF OnePlace, Pending
    <3>9. QED  BY <3>4, <3>5, <3>6, <3>7, <3>8 DEF OnePlace
  <2>4. QED  BY <2>2, <2>3
<1>5. CASE \/ StopStorage \/ ResetTimer \/ ReceiveTick \/ StopExpirer \/ TimerFires \/ Tick
           \/ UNCHANGED vars
  <2>1. UNCHANGED <<callbacks, ran, pc, arg>>
    BY <1>5 DEF StopStorage, ResetTimer, ReceiveTick, StopExpirer, TimerFires, Tick, vars,
       clientVars, storageVars
  <2>2. QED  BY <2>1, NothingDelivered DEF Pending
<1>6. ASSUME NEW c \in Clients, PushExpire(c) PROVE OnePlace'
  BY <1>6, NothingDelivered DEF PushExpire, Goto, Pending, storageVars
<1>7. ASSUME NEW c \in Clients,
             \/ \E k \in Keys : Contains(c, k)
             \/ Cleanup(c) \/ Destroy(c) \/ Destroyed(c) \/ SendOnClosed(c)
             \/ ReceiveContains(c) \/ Respond(c) \/ CleanupExpires(c)
      PROVE  OnePlace'
  <2>1. /\ UNCHANGED <<callbacks, ran>> /\ ~Pending(c)'
        /\ \A d \in Clients \ {c} : pc'[d] = pc[d] /\ arg'[d] = arg[d]
    BY <1>7 DEF Contains, Cleanup, Destroy, Destroyed, SendOnClosed, ReceiveContains, Respond,
       CleanupExpires, Goto, Return, Pending, storageVars
  <2>2. QED  BY <2>1, NothingDelivered DEF Pending
<1>8. ASSUME NEW c \in Clients, CleanupCallbacks(c) PROVE OnePlace'
  <2>1. /\ ran' = ran /\ ~Pending(c)' /\ \A k \in Keys : callbacks'[k] = None
        /\ \A d \in Clients \ {c} : pc'[d] = pc[d] /\ arg'[d] = arg[d]
    BY <1>8 DEF CleanupCallbacks, Goto, Pending
  <2>2. QED  BY <2>1, NothingDelivered DEF Pending
<1>9. ASSUME NEW i \in DOMAIN ran, Execute(i) PROVE OnePlace'
  <2>1. UNCHANGED <<callbacks, pc, arg>>
    BY <1>9 DEF Execute, storageVars, clientVars
  <2>2. DOMAIN ran' = DOMAIN ran /\ \A j \in DOMAIN ran : ran'[j].event = ran[j].event
    BY <1>9, ExecuteBegins
  <2>3. QED  BY <2>1, <2>2, NothingDelivered DEF Pending
<1>10. QED  BY <1>2, <1>3, <1>4, <1>5, <1>6, <1>7, <1>8, <1>9 DEF Next, Calls, Serve

\* A callback is started at most once, whatever its key is shared with and however its
\* two sends, the timer, other calls and Cleanup interleave.
THEOREM SchedulerAtMostOnce == Spec => []AtMostOnce
<1>1. Init => OnePlace
  BY DEF Init, OnePlace, Pending, HasRun, AtMostOnce
<1>2. TypeInv /\ OnePlace /\ [Next]_vars => OnePlace'
  BY NextOnePlace
<1>3. OnePlace => AtMostOnce
  BY DEF OnePlace
<1>4. QED  BY <1>1, <1>2, <1>3, TypeInvHolds, PTL DEF Spec
=============================================================================
