---------------------------- MODULE TimeoutConn ----------------------------
(***************************************************************************)
(* A client's connection as the server wraps it (utils/netutils): every    *)
(* Read and every Write gets a deadline of its own, ReadFrom sends a file  *)
(* in pieces with a deadline for each, and the throttle handler puts a     *)
(* ThrottledWriter (utils/throttle) between the connection and the socket. *)
(* The connection is kept alive: requests follow one another on it.        *)
(*                                                                         *)
(* Time is counted in ticks of 1/TicksPerSecond of a second; the 10 ms that *)
(* ThrottledWriter sleeps at least are shorter than a tick.  Bytes are only *)
(* counted.  The client takes what is sent at any pace, or stops taking it. *)
(***************************************************************************)
EXTENDS Integers, FiniteSetsExt

CONSTANTS
  MaxTransfer,      \* max_io_transfer_size
  MinTransfer,      \* min_io_transfer_size
  Timeout,          \* read_timeout and write_timeout, in ticks
  Speeds,           \* speeds of the throttle handlers, in bytes a second; 0: no handler
  Sizes,            \* sizes of the answers and limits of the readers
  TicksPerSecond,
  Pieces,           \* Reads that a request takes
  Slack,            \* bound: ticks by which a timer may be late
  MaxRequests       \* bound: requests on the connection

ASSUME ConnAssumption ==
  /\ {MaxTransfer, MinTransfer, Timeout, TicksPerSecond, Pieces} \subseteq Nat \ {0}
  /\ Speeds \subseteq Nat /\ Sizes \subseteq Nat \ {0}
  /\ Slack \in Nat /\ MaxRequests \in Nat

NoLimit == -1       \* the reader is not a LimitedReader
NotStarted == -1    \* the zero time

VARIABLES
  clock,
  pc,               \* what the goroutine of the connection is doing
  unread,           \* Reads the current request still needs
  deadline,         \* of the operation in progress
  wr,               \* the writer: the socket itself, or a ThrottledWriter around it
  req,              \* the call that sends the current answer
  left,             \* bytes of the answer not yet read from its source
  limit,            \* what is left of the LimitedReader around the source
  quota,            \* what CopyN lets this round of ReadFrom copy; the length for Write
  copied,           \* bytes this round has copied
  chunk,            \* bytes of the system call in progress that the client has not taken
  wake,             \* when the sleep of ThrottledWriter is over
  sent,             \* bytes of the answer that the client has taken
  tally,            \* bytes it has taken since the deadline was set
  served            \* requests begun

vars == <<clock, pc, unread, deadline, wr, req, left, limit, quota, copied, chunk,
          wake, sent, tally, served>>

Requests ==
  [throttle: Speeds, call: {"Write"}, size: Sizes, limit: {NoLimit}]
    \cup [throttle: Speeds, call: {"ReadFrom"}, size: Sizes, limit: Sizes \cup {NoLimit}]

Socket == [speed |-> 0, minWrite |-> 0, started |-> NotStarted, written |-> 0]
\* Mutant: the minimal write is not bounded by the speed.
UnboundedMinWrite(speed) ==
  [speed |-> speed, minWrite |-> MinTransfer, started |-> NotStarted, written |-> 0]

NewThrottleWriter(speed) ==
  [speed |-> speed, minWrite |-> Min({speed, MinTransfer}),
   started |-> NotStarted, written |-> 0]

Throttled == wr.speed > 0

Init ==
  /\ clock = 0 /\ deadline = Timeout
  /\ pc = "reading" /\ unread = Pieces
  /\ wr = Socket
  /\ req \in {r \in Requests : r.call = "Write"}
  /\ left = 0 /\ limit = NoLimit /\ quota = 0 /\ copied = 0 /\ chunk = 0
  /\ wake = 0 /\ sent = 0 /\ tally = 0 /\ served = 0

(***************************************************************************)
(* Deadlines.                                                              *)
(***************************************************************************)
\* Mutant: deadlines never fire.
NeverExpired == FALSE

\* readDeadline and writeDeadline, of the timeouts that net/http has set
NextDeadline == clock + Timeout
Expired == clock >= deadline

CutOff ==
  /\ Expired
  /\ pc = "reading" \/ (pc = "sending" /\ chunk > 0)
  /\ pc' = "closed"
  /\ UNCHANGED <<clock, unread, deadline, wr, req, left, limit, quota, copied, chunk,
                 wake, sent, tally, served>>

\* Read: another piece of the request
Read ==
  /\ pc = "reading" /\ unread > 1 /\ ~Expired
  /\ unread' = unread - 1
  /\ deadline' = NextDeadline
  /\ UNCHANGED <<clock, pc, wr, req, left, limit, quota, copied, chunk, wake, sent,
                 tally, served>>

\* Its last piece: the handlers run, the throttle handler (SetThrottle) among them,
\* and call Write or ReadFrom.  Nobody calls RemoveThrottling.
Serve(r) ==
  /\ pc = "reading" /\ unread = 1 /\ ~Expired
  /\ served < MaxRequests
  /\ served' = served + 1
  /\ req' = r /\ left' = r.size /\ limit' = r.limit
  /\ wr' = IF r.throttle > 0 THEN NewThrottleWriter(r.throttle) ELSE wr
  /\ sent' = 0
  /\ pc' = "round"
  /\ UNCHANGED <<clock, unread, deadline, quota, copied, chunk, wake, tally>>

(***************************************************************************)
(* One round of the loop of ReadFrom, or the only one of Write: a deadline, *)
(* and a quota.  CopyN takes the LimitedReader off when it allows more than *)
(* the quota, so that its limit is not counted down.  Its branch for a      *)
(* reader that is limited twice is left out: the only limited reader that   *)
(* reaches a connection is LimitReadCloser's, around the parts themselves.  *)
(***************************************************************************)
\* Mutant: the quota is the whole of what the reader allows.
WholeQuota == IF limit = NoLimit THEN left ELSE Min({limit, left})

Quota ==
  IF req.call = "Write" THEN left
  ELSE IF limit = NoLimit THEN MaxTransfer
  ELSE Min({limit, MaxTransfer})

Round ==
  /\ pc = "round"
  /\ deadline' = NextDeadline /\ tally' = 0
  /\ quota' = Quota /\ copied' = 0
  /\ wr' = IF Throttled /\ wr.started = NotStarted THEN [wr EXCEPT !.started = clock] ELSE wr
  /\ pc' = IF Throttled THEN "throttle" ELSE "copy"
  /\ UNCHANGED <<clock, unread, req, left, limit, chunk, wake, sent, served>>

\* Mutant: ReadFrom stops after one full piece.
StopsAfterFullPiece == req.call = "ReadFrom" /\ copied > MaxTransfer

\* the loop of ReadFrom goes on
Again == req.call = "ReadFrom" /\ copied = MaxTransfer

RoundEnds ==
  IF Again
  THEN pc' = "round" /\ UNCHANGED <<unread, deadline>>
  ELSE pc' = "reading" /\ unread' = Pieces /\ deadline' = NextDeadline

\* The socket is given n bytes in one system call.  Only a LimitedReader that is
\* handed to the socket itself is counted down: ThrottledWriter.ReadFrom takes it off.
Transfer(n) ==
  /\ chunk' = n /\ left' = left - n /\ copied' = copied + n
  /\ limit' = IF limit = NoLimit \/ limit > MaxTransfer \/ Throttled THEN limit ELSE limit - n
  /\ wr' = IF Throttled THEN [wr EXCEPT !.written = @ + n] ELSE wr
  /\ pc' = "sending"
  /\ UNCHANGED <<clock, unread, deadline, req, quota, wake, sent, tally, served>>

\* the reader is at its end
NothingToRead ==
  /\ RoundEnds
  /\ UNCHANGED <<clock, wr, req, left, limit, quota, copied, chunk, wake, sent, tally, served>>

TransferUpTo(n) == IF n = 0 THEN NothingToRead ELSE Transfer(n)

Copy == pc = "copy" /\ TransferUpTo(Min({quota, left}))

(***************************************************************************)
(* ThrottledWriter.                                                        *)
(***************************************************************************)
CanWriteRightNow == ((clock - wr.started) \div TicksPerSecond) * wr.speed - wr.written

\* ReadFrom compares with the limit it started with, at every turn of its loop
ThrottledTransfer(granted) == TransferUpTo(Min({granted, quota, left}))

HowMuchCanIWrite ==
  /\ pc = "throttle"
  /\ CanWriteRightNow >= wr.minWrite
  /\ ThrottledTransfer(CanWriteRightNow)

\* Mutant: only the minimal sleep, whatever has been written.
MinimalSleep == 0

CalculatedSleep == ((wr.minWrite - CanWriteRightNow) \div wr.speed) * TicksPerSecond

WaitAtleastMinWrite ==
  /\ pc = "throttle"
  /\ CanWriteRightNow < wr.minWrite
  /\ wake' = clock + CalculatedSleep
  /\ pc' = "sleeping"
  /\ UNCHANGED <<clock, unread, deadline, wr, req, left, limit, quota, copied, chunk,
                 sent, tally, served>>

Awake ==
  /\ pc = "sleeping" /\ clock >= wake
  /\ ThrottledTransfer(Max({CanWriteRightNow, wr.minWrite}))

(***************************************************************************)
(* The client, and time.                                                   *)
(***************************************************************************)
Take(n) ==
  /\ pc = "sending" /\ ~Expired
  /\ chunk' = chunk - n /\ sent' = sent + n /\ tally' = tally + n
  /\ UNCHANGED <<clock, pc, unread, deadline, wr, req, left, limit, quota, copied, wake, served>>

\* The system call returns: Write and ReadFrom of ThrottledWriter go on, Write until
\* it has written all, ReadFrom until nothing is read.
Sent ==
  /\ pc = "sending" /\ chunk = 0
  /\ IF Throttled /\ (req.call = "ReadFrom" \/ left > 0)
     THEN pc' = "throttle" /\ UNCHANGED <<unread, deadline>>
     ELSE RoundEnds
  /\ UNCHANGED <<clock, wr, req, left, limit, quota, copied, chunk, wake, sent, tally, served>>

Tick ==
  /\ \/ pc \in {"reading", "sending"} /\ clock <= deadline
     \/ pc = "sleeping" /\ clock < wake + Slack
  /\ clock' = clock + 1
  /\ UNCHANGED <<pc, unread, deadline, wr, req, left, limit, quota, copied, chunk, wake,
                 sent, tally, served>>

Server == \/ Round \/ Copy \/ HowMuchCanIWrite \/ WaitAtleastMinWrite \/ Awake \/ Sent
          \/ CutOff

Next ==
  \/ Server
  \/ Read
  \/ \E r \in Requests : Serve(r)
  \/ \E n \in 1..chunk : Take(n)
  \/ Tick

\* The goroutine runs, timers and deadlines fire; the client is free to stop.
Spec == Init /\ [][Next]_vars /\ WF_vars(Server) /\ WF_vars(Tick)

-----------------------------------------------------------------------------
\* Types: the sizes are numbers and a ThrottledWriter never writes less than a byte
\* at a time, though the configured minimum may exceed its speed.
TypeOK ==
  /\ {clock, left, quota, copied, chunk, wake, sent, tally, served} \subseteq Nat
  /\ pc \in {"reading", "round", "copy", "throttle", "sleeping", "sending", "closed"}
  /\ unread \in 1..Pieces /\ deadline \in Nat
  /\ req \in Requests
  /\ limit \in Nat \cup {NoLimit}
  /\ {wr.speed, wr.written, wr.minWrite} \subseteq Nat
  /\ Throttled => wr.minWrite \in 1..wr.speed

\* What a ThrottledWriter has handed to the socket stays below its speed times the
\* seconds begun since its first write, however its sleeps, its minimal writes and the
\* late timers fall (throttled_writer.go).
NeverAheadOfSpeed ==
  Throttled /\ wr.started # NotStarted =>
    wr.written < wr.speed * (((clock - wr.started) \div TicksPerSecond) + 1)

\* Without throttling, no more than max_io_transfer_size bytes of a file depend on one
\* deadline: a client that takes that much within the timeout is never cut off
\* (timeoutConn.ReadFrom).
OneDeadlinePerPiece ==
  pc = "sending" /\ req.call = "ReadFrom" /\ ~Throttled => tally + chunk <= MaxTransfer

Due == IF req.limit = NoLimit THEN req.size ELSE Min({req.limit, req.size})
\* CopyN or ThrottledWriter.ReadFrom has taken the LimitedReader off
LimitIsLost == req.limit # NoLimit /\ (Throttled \/ req.limit > MaxTransfer)

\* A call that returns without an error has sent the whole answer, and no byte more
\* unless the limit of its reader was lost on the way.
AnswerIsWhole ==
  pc = "reading" /\ served > 0 => sent >= Due /\ (LimitIsLost \/ sent = Due)

\* A client that stops taking bytes does not hold the goroutine: every call returns or
\* is cut off.
CallsEnd == pc \notin {"reading", "closed"} ~> pc \in {"reading", "closed"}

\* The timeouts are for pieces of at most max_io_transfer_size, throttled or not.
PiecesAreBounded ==
  pc = "sending" /\ req.call = "ReadFrom" => tally + chunk <= MaxTransfer
=============================================================================
