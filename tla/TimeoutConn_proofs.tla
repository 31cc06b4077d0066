-------------------------- MODULE TimeoutConn_proofs --------------------------
(***************************************************************************)
(* Connections with deadlines and throttling: for any sizes, speeds,       *)
(* timeouts and late timers.                                               *)
(***************************************************************************)
EXTENDS TimeoutConn, TLAPS

-----------------------------------------------------------------------------
(* Arithmetic *)

LEMMA MinOfTwo ==
    ASSUME NEW a \in Int, NEW b \in Int
    PROVE  Min({a, b}) = IF a <= b THEN a ELSE b
<1> DEFINE m == IF a <= b THEN a ELSE b
<1>1. m \in {a, b} /\ \A y \in {a, b} : m <= y
  OBVIOUS
<1>2. \A x \in {a, b} : (\A y \in {a, b} : x <= y) => x = m
  OBVIOUS
<1> HIDE DEF m
<1>3. (CHOOSE x \in {a, b} : \A y \in {a, b} : x <= y) = m
  BY <1>1, <1>2
<1>4. QED  BY <1>3 DEF Min, m

LEMMA MaxOfTwo ==
    ASSUME NEW a \in Int, NEW b \in Int
    PROVE  Max({a, b}) = IF a >= b THEN a ELSE b
<1> DEFINE m == IF a >= b THEN a ELSE b
<1>1. m \in {a, b} /\ \A y \in {a, b} : m >= y
  OBVIOUS
<1>2. \A x \in {a, b} : (\A y \in {a, b} : x >= y) => x = m
  OBVIOUS
<1> HIDE DEF m
<1>3. (CHOOSE x \in {a, b} : \A y \in {a, b} : x >= y) = m
  BY <1>1, <1>2
<1>4. QED  BY <1>3 DEF Max, m

LEMMA MinOfThree ==
    ASSUME NEW a \in Int, NEW b \in Int, NEW c \in Int
    PROVE  /\ Min({a, b, c}) \in {a, b, c}
           /\ Min({a, b, c}) <= a /\ Min({a, b, c}) <= b /\ Min({a, b, c}) <= c
<1> DEFINE m == IF a <= b THEN IF a <= c THEN a ELSE c ELSE IF b <= c THEN b ELSE c
<1>1. m \in {a, b, c} /\ \A y \in {a, b, c} : m <= y
  OBVIOUS
<1>2. \A x \in {a, b, c} : (\A y \in {a, b, c} : x <= y) => x = m
  OBVIOUS
<1> HIDE DEF m
<1>3. (CHOOSE x \in {a, b, c} : \A y \in {a, b, c} : x <= y) = m
  BY <1>1, <1>2
<1>4. QED  BY <1>1, <1>3 DEF Min

\* Seconds and their remainder.
LEMMA Division ==
    ASSUME NEW a \in Int, NEW d \in Nat \ {0}
    PROVE  /\ a \div d \in Int /\ a % d \in 0 .. d - 1
           /\ a = d * (a \div d) + (a % d)
OBVIOUS

LEMMA DivisionOfNat ==
    ASSUME NEW a \in Nat, NEW d \in Nat \ {0}
    PROVE  a \div d \in Nat
OBVIOUS

LEMMA DivisionGrows ==
    ASSUME NEW a \in Int, NEW b \in Int, NEW d \in Nat \ {0}, a <= b
    PROVE  a \div d <= b \div d
OBVIOUS

LEMMA DivisionShifts ==
    ASSUME NEW a \in Int, NEW k \in Int, NEW d \in Nat \ {0}
    PROVE  (a + k * d) \div d = a \div d + k
OBVIOUS

LEMMA ProductGrows ==
    ASSUME NEW a \in Int, NEW b \in Int, NEW s \in Nat, a <= b
    PROVE  a * s <= b * s
OBVIOUS

LEMMA ProductAdds ==
    ASSUME NEW s \in Int, NEW k \in Int, NEW n \in Int
    PROVE  /\ s * (k + 1) = s * k + s /\ s * k = k * s
           /\ s * (k + n + 1) = s * k + s * n + s
           /\ s * k \in Int
OBVIOUS

LEMMA SizesAreNumbers ==
  /\ MaxTransfer \in Nat \ {0} /\ MinTransfer \in Nat \ {0} /\ Timeout \in Nat \ {0}
  /\ TicksPerSecond \in Nat \ {0} /\ Pieces \in Nat \ {0}
BY ConnAssumption

LEMMA RequestsHaveLimits ==
    ASSUME NEW r \in Requests
    PROVE  /\ r.throttle \in Nat /\ r.size \in Nat \ {0}
           /\ r.call \in {"Write", "ReadFrom"}
           /\ r.limit \in (Nat \ {0}) \cup {NoLimit}
           /\ r.call = "Write" => r.limit = NoLimit
BY ConnAssumption DEF Requests, NoLimit

-----------------------------------------------------------------------------
(* The inductive invariant *)

Types ==
  /\ clock \in Nat /\ deadline \in Nat /\ unread \in 1..Pieces
  /\ left \in Nat /\ quota \in Nat /\ copied \in Nat /\ chunk \in Nat /\ wake \in Nat
  /\ sent \in Nat /\ tally \in Nat /\ served \in Nat
  /\ limit \in Nat \cup {NoLimit}
  /\ req \in Requests
  /\ pc \in {"reading", "round", "copy", "throttle", "sleeping", "sending", "closed"}

\* The ThrottledWriter has written nothing before its clock has started.
WriterOK ==
  /\ wr \in [speed: Nat, minWrite: Nat, started: Nat \cup {NotStarted}, written: Nat]
  /\ Throttled => wr.minWrite >= 1 /\ wr.minWrite <= wr.speed
  /\ wr.started # NotStarted => wr.started <= clock
  /\ wr.started = NotStarted => wr.written = 0
  /\ pc = "copy" => ~Throttled
  /\ pc \in {"throttle", "sleeping"} => Throttled
  /\ pc \in {"throttle", "sleeping", "sending"} /\ Throttled => wr.started # NotStarted

\* A copy starts a new deadline, and what it may take is the quota of the round.
RoundOK ==
  /\ req.call = "Write" => limit = NoLimit
  /\ pc = "copy" => quota = Quota /\ copied = 0 /\ tally = 0
  /\ OneDeadlinePerPiece

Seconds(t) == (t - wr.started) \div TicksPerSecond

\* The sleep ends in a second that has room for the minimal write.
PaceOK ==
  /\ NeverAheadOfSpeed
  /\ pc = "sleeping" => wr.written + wr.minWrite < wr.speed * (Seconds(wake) + 1)

\* Every byte of the answer is with the client, in the system call or still to be
\* read, and a limit that is counted down is short of its start by what was read.
AccountsOK ==
  /\ pc \notin {"sending", "closed"} => chunk = 0
  /\ pc \in {"round", "copy", "throttle", "sleeping", "sending"} =>
       /\ sent + chunk + left = req.size
       /\ limit = NoLimit <=> req.limit = NoLimit
       /\ limit = IF req.limit = NoLimit \/ LimitIsLost THEN req.limit
                  ELSE req.limit - (req.size - left)
  /\ pc \in {"throttle", "sleeping"} /\ req.call = "Write" => quota >= left
  /\ pc = "sending" /\ Throttled /\ req.call = "Write" => quota >= left
  /\ pc \in {"throttle", "sleeping", "sending"} /\ Throttled /\ req.call = "ReadFrom" =>
       quota >= 1
  /\ pc = "sending" /\ ~Throttled =>
       left = 0 \/ limit = 0 \/ (req.call = "ReadFrom" /\ copied = MaxTransfer)
  /\ AnswerIsWhole

ConnInv == Types /\ WriterOK /\ RoundOK /\ PaceOK /\ AccountsOK

LEMMA QuotaIs ==
    ASSUME Types
    PROVE  Quota = IF req.call = "Write" THEN left
                   ELSE IF limit = NoLimit \/ limit > MaxTransfer THEN MaxTransfer
                   ELSE limit
<1>1. limit # NoLimit =>
        Min({limit, MaxTransfer}) = IF limit <= MaxTransfer THEN limit ELSE MaxTransfer
  BY MinOfTwo, SizesAreNumbers DEF Types
<1>2. QED  BY <1>1, SizesAreNumbers DEF Quota, Types, NoLimit

LEMMA DueIs ==
    ASSUME Types
    PROVE  Due = IF req.limit = NoLimit \/ req.limit > req.size THEN req.size ELSE req.limit
<1>1. req.limit # NoLimit =>
        Min({req.limit, req.size}) = IF req.limit <= req.size THEN req.limit ELSE req.size
  BY MinOfTwo, RequestsHaveLimits DEF Types
<1>2. QED  BY <1>1, RequestsHaveLimits DEF Due, Types, NoLimit

\* The seconds since the first write, and the room they leave.
LEMMA SecondsAreNumbers ==
    ASSUME Types, WriterOK, wr.started # NotStarted, NEW t \in Nat, clock <= t
    PROVE  Seconds(clock) \in Nat /\ Seconds(t) \in Nat /\ Seconds(clock) <= Seconds(t)
<1>1. wr.started \in Nat /\ t - wr.started \in Nat /\ clock - wr.started \in Nat
      /\ clock - wr.started <= t - wr.started
  BY DEF Types, WriterOK, NotStarted
<1>2. QED
  BY <1>1, DivisionOfNat, DivisionGrows, SizesAreNumbers DEF Seconds

LEMMA RoomIs ==
    ASSUME Types, WriterOK, wr.started # NotStarted
    PROVE  CanWriteRightNow = wr.speed * Seconds(clock) - wr.written
           /\ CanWriteRightNow \in Int
<1>1. Seconds(clock) \in Nat
  BY SecondsAreNumbers DEF Types
<1>2. CanWriteRightNow = Seconds(clock) * wr.speed - wr.written
  BY DEF CanWriteRightNow, Seconds
<1>3. wr.speed \in Nat /\ wr.written \in Nat
  BY DEF WriterOK
<1>4. wr.speed * Seconds(clock) = Seconds(clock) * wr.speed
      /\ wr.speed * Seconds(clock) \in Int
  BY <1>1, <1>3, ProductAdds
<1> QED  BY <1>2, <1>3, <1>4

-----------------------------------------------------------------------------
(* A system call, and the end of a round *)

\* Bytes within the quota and the room keep the invariant.
LEMMA TransferIsSafe ==
    ASSUME ConnInv, NEW n \in Nat \ {0}, n <= quota, n <= left, Transfer(n),
           pc \in {"copy", "throttle", "sleeping"},
           pc = "copy" => n = quota \/ n = left,
           Throttled => wr.written + n < wr.speed * (Seconds(clock) + 1)
    PROVE  ConnInv'
<1> USE SizesAreNumbers
<1>1. Quota = IF req.call = "Write" THEN left
              ELSE IF limit = NoLimit \/ limit > MaxTransfer THEN MaxTransfer
              ELSE limit
  BY QuotaIs DEF ConnInv
<1>2. /\ req.throttle \in Nat /\ req.size \in Nat \ {0} /\ req.call \in {"Write", "ReadFrom"}
      /\ req.limit \in (Nat \ {0}) \cup {NoLimit}
      /\ req.call = "Write" => req.limit = NoLimit
  BY RequestsHaveLimits DEF ConnInv, Types
<1>3. wr'.speed = wr.speed /\ wr'.started = wr.started /\ wr'.minWrite = wr.minWrite
      /\ wr'.written = IF Throttled THEN wr.written + n ELSE wr.written
  BY DEF Transfer, ConnInv, WriterOK
<1>4. Throttled' <=> Throttled
  BY <1>3 DEF Throttled
<1>a. limit' = IF limit = NoLimit \/ limit > MaxTransfer \/ Throttled THEN limit ELSE limit - n
  BY DEF Transfer
<1>b. ~Throttled => pc = "copy" /\ quota = Quota /\ copied = 0
  BY DEF ConnInv, WriterOK, RoundOK
<1>c. /\ limit \in Nat \cup {-1} /\ left \in Nat /\ quota \in Nat /\ copied \in Nat
      /\ limit # -1 => req.call = "ReadFrom"
  BY <1>2 DEF ConnInv, Types, RoundOK, NoLimit
<1>d. ~Throttled /\ limit # -1 /\ limit <= MaxTransfer => quota = limit
  BY <1>1, <1>b, <1>c DEF NoLimit
<1>5. Types'
  <2>1. limit' \in Nat \cup {NoLimit}
    BY <1>a, <1>c, <1>d DEF NoLimit
  <2>2. QED
    BY <2>1 DEF ConnInv, Types, Transfer
<1>6. WriterOK'
  <2>1. wr' \in [speed: Nat, minWrite: Nat, started: Nat \cup {NotStarted}, written: Nat]
    BY DEF ConnInv, WriterOK, Transfer
  <2>2. QED
    BY <2>1, <1>3, <1>4 DEF ConnInv, WriterOK, Transfer
<1>7. RoundOK'
  <2>1. OneDeadlinePerPiece'
    BY <1>1, <1>4 DEF ConnInv, Types, WriterOK, RoundOK, OneDeadlinePerPiece, Transfer
  <2>2. QED
    BY <2>1 DEF ConnInv, RoundOK, Transfer, NoLimit
<1>8. PaceOK'
  <2>1. clock' = clock /\ pc' = "sending"
    BY DEF Transfer
  <2>2. ((clock - wr.started) \div TicksPerSecond)'
        = (clock - wr.started) \div TicksPerSecond
    BY <2>1, <1>3
  <2>3. QED
    BY <2>1, <2>2, <1>3, <1>4 DEF ConnInv, PaceOK, NeverAheadOfSpeed, Seconds, WriterOK
<1>9. AccountsOK'
  <2>1. req' = req /\ pc' = "sending" /\ chunk' = n /\ left' = left - n /\ sent' = sent
        /\ quota' = quota /\ copied' = copied + n
    BY DEF Transfer
  <2>2. LimitIsLost' <=> LimitIsLost
    BY <2>1, <1>4 DEF LimitIsLost
  <2>3. sent + left = req.size /\ limit = IF req.limit = NoLimit \/ LimitIsLost THEN req.limit
                                           ELSE req.limit - (req.size - left)
    BY DEF ConnInv, AccountsOK, Types
  <2>4. limit' = IF req.limit = NoLimit \/ LimitIsLost THEN req.limit
                 ELSE req.limit - (req.size - left')
    <3>1. CASE req.limit = -1 \/ LimitIsLost
      <4>1. limit = -1 \/ limit > MaxTransfer \/ Throttled
        BY <3>1, <2>3 DEF LimitIsLost, NoLimit
      <4>2. QED  BY <4>1, <3>1, <2>3, <1>a DEF NoLimit
    <3>2. CASE ~(req.limit = -1 \/ LimitIsLost)
      <4>1. ~Throttled /\ req.limit <= MaxTransfer /\ limit = req.limit - (req.size - left)
        BY <3>2, <2>3, <1>2 DEF LimitIsLost, NoLimit
      <4>2. limit <= MaxTransfer /\ limit # -1
        <5>1. req.size - left >= 0 /\ (limit = -1 <=> req.limit = -1)
          BY <2>3, <1>c, <1>2 DEF ConnInv, Types, AccountsOK, NoLimit
        <5>2. QED  BY <4>1, <5>1, <3>2, <1>2, <1>c DEF NoLimit
      <4>3. QED  BY <4>1, <4>2, <3>2, <2>1, <2>3, <1>a, <1>2, <1>c DEF NoLimit
    <3>3. QED  BY <3>1, <3>2
  <2>5. ~Throttled => left' = 0 \/ limit' = 0 \/ (req.call = "ReadFrom" /\ copied' = MaxTransfer)
    <3>1. ~Throttled => pc = "copy" /\ quota = Quota /\ copied = 0
      BY DEF ConnInv, WriterOK, RoundOK
    <3>2. CASE ~Throttled /\ n = quota
      BY <3>1, <3>2, <2>1, <1>1, <1>2, <1>a, <1>c, <1>d DEF NoLimit
    <3>3. QED
      BY <3>1, <3>2, <2>1, <1>c
  <2>6. limit' = NoLimit <=> req.limit = NoLimit
    <3>1. limit = -1 <=> req.limit = -1
      BY DEF ConnInv, AccountsOK, NoLimit
    <3>2. QED
      BY <3>1, <1>a, <1>b, <1>c, <1>d DEF NoLimit
  <2>7. left' \in Nat /\ left' <= left /\ sent' + chunk' + left' = req'.size
    BY <2>1, <2>3, <1>2, <1>c DEF ConnInv, Types
  <2>8. QED
    <3>1. quota >= 1 /\ (Throttled /\ req.call = "Write" => quota >= left)
      BY <1>c DEF ConnInv, AccountsOK, WriterOK
    <3>2. AnswerIsWhole'
      BY <2>1 DEF AnswerIsWhole
    <3>3. (pc \in {"round", "copy", "throttle", "sleeping", "sending"} =>
            /\ sent + chunk + left = req.size
            /\ limit = NoLimit <=> req.limit = NoLimit
            /\ limit = IF req.limit = NoLimit \/ LimitIsLost THEN req.limit
                       ELSE req.limit - (req.size - left))'
      BY <2>1, <2>2, <2>4, <2>6, <2>7
    <3>4. QED
      BY <2>1, <2>5, <2>7, <1>4, <1>c, <3>1, <3>2, <3>3 DEF AccountsOK
<1>10. QED  BY <1>5, <1>6, <1>7, <1>8, <1>9 DEF ConnInv

\* A round that ends goes on with the next or gives the connection back, and gives it
\* back only when the whole answer is with the client.
LEMMA RoundEndIsSafe ==
    ASSUME ConnInv, RoundEnds, chunk = 0,
           pc \in {"copy", "throttle", "sleeping", "sending"},
           \/ left = 0
           \/ ~Throttled /\ limit = 0
           \/ req.call = "ReadFrom" /\ copied = MaxTransfer,
           UNCHANGED <<clock, wr, req, left, limit, quota, copied, chunk, wake, sent,
                       tally, served>>
    PROVE  ConnInv'
<1> USE SizesAreNumbers
<1>2. /\ req.throttle \in Nat /\ req.size \in Nat \ {0} /\ req.call \in {"Write", "ReadFrom"}
      /\ req.limit \in (Nat \ {0}) \cup {NoLimit}
      /\ req.call = "Write" => req.limit = NoLimit
  BY RequestsHaveLimits DEF ConnInv, Types
<1>3. pc' \in {"round", "reading"} /\ (pc' = "reading" => ~Again)
  BY DEF RoundEnds
<1>4. Throttled' <=> Throttled
  BY DEF Throttled
<1>5. Types'
  BY DEF ConnInv, Types, RoundEnds, NextDeadline
<1>6. WriterOK'
  BY <1>3, <1>4 DEF ConnInv, WriterOK
<1>7. RoundOK'
  BY <1>3 DEF ConnInv, RoundOK, OneDeadlinePerPiece
<1>8. PaceOK'
  BY <1>3, <1>4 DEF ConnInv, PaceOK, NeverAheadOfSpeed
<1>9. AccountsOK'
  <2>1. LimitIsLost' <=> LimitIsLost
    BY <1>4 DEF LimitIsLost
  <2>2. AnswerIsWhole'
    <3>1. SUFFICES ASSUME pc' = "reading"
                   PROVE  sent >= Due /\ (LimitIsLost \/ sent = Due)
      BY <2>1 DEF AnswerIsWhole, Due
    <3>2. left = 0 \/ (~Throttled /\ limit = 0)
      BY <3>1, <1>3 DEF Again
    <3>3. sent + left = req.size
          /\ limit = IF req.limit = NoLimit \/ LimitIsLost THEN req.limit
                     ELSE req.limit - (req.size - left)
      BY DEF ConnInv, AccountsOK, Types
    <3>4. Due = IF req.limit = NoLimit \/ req.limit > req.size THEN req.size ELSE req.limit
      BY DueIs DEF ConnInv
    <3>5. /\ limit = -1 <=> req.limit = -1
          /\ left \in Nat /\ sent \in Nat
          /\ Throttled /\ req.limit # -1 => LimitIsLost
      BY DEF ConnInv, Types, AccountsOK, NoLimit, LimitIsLost
    <3>6. CASE left = 0
      <4>1. sent = req.size
        BY <3>6, <3>3, <3>5, <1>2
      <4>2. CASE req.limit = -1 \/ req.limit > req.size
        BY <4>1, <4>2, <3>4, <1>2 DEF NoLimit
      <4>3. CASE req.limit # -1 /\ req.limit <= req.size /\ ~LimitIsLost
        <5>1. limit = req.limit - req.size /\ limit \in Nat
          BY <4>3, <3>3, <3>5, <3>6, <1>2 DEF ConnInv, Types, NoLimit
        <5>2. QED  BY <5>1, <4>1, <4>3, <3>4, <1>2 DEF NoLimit
      <4>4. CASE req.limit # -1 /\ req.limit <= req.size /\ LimitIsLost
        BY <4>1, <4>4, <3>4, <1>2 DEF NoLimit
      <4>5. QED  BY <4>2, <4>3, <4>4, <1>2 DEF NoLimit
    <3>7. CASE ~Throttled /\ limit = 0
      <4>1. req.limit # -1
        BY <3>7, <3>5
      <4>2. ~LimitIsLost
        BY <3>7, <3>3, <1>2 DEF NoLimit
      <4>3. sent = req.limit /\ req.limit <= req.size
        BY <4>1, <4>2, <3>3, <3>5, <3>7, <1>2 DEF NoLimit
      <4>4. QED  BY <4>1, <4>3, <3>4, <1>2 DEF NoLimit
    <3>8. QED
      BY <3>2, <3>6, <3>7
  <2>3. QED
    BY <2>1, <2>2, <1>3, <1>4 DEF ConnInv, AccountsOK
<1>10. QED  BY <1>5, <1>6, <1>7, <1>8, <1>9 DEF ConnInv

-----------------------------------------------------------------------------
(* ThrottledWriter *)

\* A positive grant transfers something, or nothing is left.
LEMMA GrantIsSafe ==
    ASSUME ConnInv, pc \in {"throttle", "sleeping"}, NEW granted \in Nat \ {0},
           wr.written + granted < wr.speed * (Seconds(clock) + 1),
           ThrottledTransfer(granted)
    PROVE  ConnInv'
<1> DEFINE n == Min({granted, quota, left})
<1>1. quota \in Nat /\ left \in Nat /\ Throttled /\ chunk = 0
  BY DEF ConnInv, Types, WriterOK, AccountsOK
<1>2. n \in {granted, quota, left} /\ n <= granted /\ n <= quota /\ n <= left
  <2>1. granted \in Int /\ quota \in Int /\ left \in Int
    BY <1>1
  <2>2. QED  BY <2>1, MinOfThree
<1>3. CASE n = 0
  <2>1. quota = 0 => left = 0
    BY <1>1, RequestsHaveLimits DEF ConnInv, Types, AccountsOK
  <2>2. left = 0
    BY <1>2, <1>3, <2>1
  <2>3. NothingToRead
    BY <1>3 DEF ThrottledTransfer, TransferUpTo
  <2>4. QED
    BY <2>2, <2>3, <1>1, RoundEndIsSafe DEF NothingToRead
<1>4. CASE n # 0
  <2>1. Transfer(n) /\ n \in Nat \ {0}
    BY <1>1, <1>2, <1>4 DEF ThrottledTransfer, TransferUpTo
  <2>2. wr.written + n < wr.speed * (Seconds(clock) + 1)
    <3>1. wr.speed \in Nat /\ wr.written \in Nat /\ Seconds(clock) \in Nat
      BY SecondsAreNumbers DEF ConnInv, Types, WriterOK
    <3>2. wr.speed * (Seconds(clock) + 1) \in Int
      BY <3>1
    <3> HIDE DEF n
    <3>3. QED  BY <3>1, <3>2, <2>1, <1>2
  <2>3. pc # "copy"
    OBVIOUS
  <2> HIDE DEF n
  <2>4. QED
    BY <2>1, <2>2, <2>3, <1>2, TransferIsSafe
<1>5. QED  BY <1>3, <1>4

LEMMA WriteKeepsPace ==
    ASSUME ConnInv, HowMuchCanIWrite
    PROVE  ConnInv'
<1>1. pc = "throttle" /\ wr.started # NotStarted /\ Throttled
      /\ wr.speed \in Nat /\ wr.written \in Nat /\ wr.minWrite \in Nat
      /\ wr.minWrite >= 1 /\ wr.speed >= 1
  BY DEF HowMuchCanIWrite, ConnInv, WriterOK, Throttled
<1>2. CanWriteRightNow = wr.speed * Seconds(clock) - wr.written
      /\ CanWriteRightNow \in Int /\ Seconds(clock) \in Nat
  BY <1>1, RoomIs, SecondsAreNumbers DEF ConnInv, Types
<1>3. CanWriteRightNow \in Nat \ {0}
  BY <1>1, <1>2 DEF HowMuchCanIWrite
<1>4. wr.speed * (Seconds(clock) + 1) = wr.speed * Seconds(clock) + wr.speed
      /\ wr.speed * Seconds(clock) \in Int
  BY <1>1, <1>2, ProductAdds
<1>5. wr.written + CanWriteRightNow < wr.speed * (Seconds(clock) + 1)
  BY <1>1, <1>2, <1>4
<1>6. QED
  BY <1>1, <1>3, <1>5, GrantIsSafe DEF HowMuchCanIWrite

LEMMA AwakeKeepsPace ==
    ASSUME ConnInv, Awake
    PROVE  ConnInv'
<1>1. /\ pc = "sleeping" /\ wr.started # NotStarted /\ Throttled
      /\ wr.speed \in Nat /\ wr.written \in Nat /\ wr.minWrite \in Nat
      /\ wr.minWrite >= 1 /\ wr.speed >= 1
      /\ wake \in Nat /\ clock \in Nat /\ wake <= clock
  BY DEF Awake, ConnInv, Types, WriterOK, Throttled
<1>2. CanWriteRightNow = wr.speed * Seconds(clock) - wr.written
      /\ CanWriteRightNow \in Int /\ Seconds(clock) \in Nat
  BY <1>1, RoomIs, SecondsAreNumbers DEF ConnInv
<1>3. wr.speed * (Seconds(clock) + 1) = wr.speed * Seconds(clock) + wr.speed
      /\ wr.speed * Seconds(clock) \in Int
  BY <1>1, <1>2, ProductAdds
<1>4. wr.written + wr.minWrite < wr.speed * (Seconds(clock) + 1)
  <2>1. Seconds(wake) \in Int /\ Seconds(wake) <= Seconds(clock)
    <3>1. wake - wr.started \in Int /\ clock - wr.started \in Int
          /\ wake - wr.started <= clock - wr.started
      BY <1>1 DEF ConnInv, WriterOK, NotStarted
    <3>2. QED
      BY <3>1, Division, DivisionGrows, SizesAreNumbers DEF Seconds
  <2>2. wr.written + wr.minWrite < wr.speed * (Seconds(wake) + 1)
    BY <1>1 DEF ConnInv, PaceOK
  <2>3. (Seconds(wake) + 1) * wr.speed <= (Seconds(clock) + 1) * wr.speed
    BY <2>1, <1>1, <1>2, ProductGrows
  <2>4. /\ wr.speed * (Seconds(wake) + 1) = (Seconds(wake) + 1) * wr.speed
        /\ wr.speed * (Seconds(clock) + 1) = (Seconds(clock) + 1) * wr.speed
        /\ wr.speed * (Seconds(wake) + 1) \in Int /\ wr.speed * (Seconds(clock) + 1) \in Int
    <3>1. Seconds(wake) + 1 \in Int /\ Seconds(clock) + 1 \in Int /\ wr.speed \in Int
      BY <2>1, <1>1, <1>2
    <3>2. QED  BY <3>1, ProductAdds
  <2>5. QED
    BY <2>2, <2>3, <2>4, <1>1
<1>5. Max({CanWriteRightNow, wr.minWrite})
      = IF CanWriteRightNow >= wr.minWrite THEN CanWriteRightNow ELSE wr.minWrite
  BY <1>1, <1>2, MaxOfTwo
<1> DEFINE granted == Max({CanWriteRightNow, wr.minWrite})
<1>6. granted \in Nat \ {0} /\ wr.written + granted < wr.speed * (Seconds(clock) + 1)
  BY <1>1, <1>2, <1>3, <1>4, <1>5
<1>7. ThrottledTransfer(granted)
  BY DEF Awake
<1> HIDE DEF granted
<1>8. QED
  BY <1>1, <1>6, <1>7, GrantIsSafe

\* The sleep is long enough for the minimal write to fit.
LEMMA SleepKeepsPace ==
    ASSUME ConnInv, WaitAtleastMinWrite
    PROVE  ConnInv'
<1> USE SizesAreNumbers
<1> DEFINE q == (wr.minWrite - CanWriteRightNow) \div wr.speed
           S == Seconds(clock)
<1>1. /\ pc = "throttle" /\ wr.started # NotStarted /\ Throttled
      /\ wr.speed \in Nat \ {0} /\ wr.written \in Nat /\ wr.minWrite \in Nat
      /\ clock \in Nat /\ wr.started \in Nat
  BY DEF WaitAtleastMinWrite, ConnInv, Types, WriterOK, Throttled
<1>2. CanWriteRightNow = wr.speed * S - wr.written /\ CanWriteRightNow \in Int /\ S \in Nat
  BY <1>1, RoomIs, SecondsAreNumbers DEF ConnInv
<1>3. wr.minWrite - CanWriteRightNow \in Nat
  BY <1>1, <1>2 DEF WaitAtleastMinWrite
<1>4. /\ q \in Nat
      /\ wr.minWrite - CanWriteRightNow < wr.speed * q + wr.speed
  <2>1. q \in Nat
    BY <1>1, <1>3, DivisionOfNat
  <2> DEFINE x == wr.minWrite - CanWriteRightNow
             d == wr.speed
  <2>2. x \in Int /\ d \in Nat \ {0} /\ q = x \div d
    BY <1>1, <1>3
  <2> HIDE DEF x, d, q
  <2>3. x % d \in 0 .. d - 1 /\ x = d * q + (x % d)
    BY <2>2, Division
  <2>4. d * q \in Int
    BY <2>1, <2>2, ProductAdds
  <2>5. x < d * q + d
    BY <2>2, <2>3, <2>4
  <2>6. QED  BY <2>1, <2>5 DEF x, d
<1>5. wake' = clock + q * TicksPerSecond /\ wake' \in Nat
  BY <1>1, <1>4, ProductGrows DEF WaitAtleastMinWrite, CalculatedSleep
<1>6. UNCHANGED <<clock, unread, deadline, wr, req, left, limit, quota, copied, chunk, sent,
                  tally, served>> /\ pc' = "sleeping"
  BY DEF WaitAtleastMinWrite
<1>7. Throttled' <=> Throttled
  BY <1>6 DEF Throttled
<1>8. Types' /\ WriterOK'
  BY <1>1, <1>5, <1>6, <1>7 DEF ConnInv, Types, WriterOK
<1>9. RoundOK'
  BY <1>6 DEF ConnInv, RoundOK, OneDeadlinePerPiece
<1>10. PaceOK'
  <2>1. (wake' - wr.started) \div TicksPerSecond = S + q
    <3>1. wake' - wr.started = (clock - wr.started) + q * TicksPerSecond
      BY <1>1, <1>4, <1>5
    <3> HIDE DEF q
    <3>2. clock - wr.started \in Int /\ q \in Int
      BY <1>1, <1>4
    <3>3. ((clock - wr.started) + q * TicksPerSecond) \div TicksPerSecond
          = ((clock - wr.started) \div TicksPerSecond) + q
      BY <3>2, DivisionShifts
    <3>4. QED  BY <3>1, <3>3 DEF Seconds
  <2>2. wr.written + wr.minWrite < wr.speed * (S + q + 1)
    <3>1. wr.speed * (S + q + 1) = wr.speed * S + wr.speed * q + wr.speed
          /\ wr.speed * S \in Int /\ wr.speed * q \in Int
      BY <1>1, <1>2, <1>4, ProductAdds
    <3> HIDE DEF q, S
    <3>2. QED  BY <3>1, <1>1, <1>2, <1>4
  <2>3. NeverAheadOfSpeed'
    BY <1>6, <1>7 DEF ConnInv, PaceOK, NeverAheadOfSpeed
  <2>4. Seconds(wake)' = (wake' - wr.started) \div TicksPerSecond
    BY <1>6 DEF Seconds
  <2> HIDE DEF q, S
  <2>5. QED
    BY <2>1, <2>2, <2>3, <2>4, <1>6 DEF PaceOK
<1>11. AccountsOK'
  BY <1>1, <1>6, <1>7 DEF ConnInv, AccountsOK, AnswerIsWhole, LimitIsLost
<1>12. QED  BY <1>8, <1>9, <1>10, <1>11 DEF ConnInv

-----------------------------------------------------------------------------
(* The other actions *)

LEMMA RequestKeepsConn ==
    ASSUME ConnInv, NEW r \in Requests, Serve(r)
    PROVE  ConnInv'
<1> USE SizesAreNumbers
<1>1. /\ r.throttle \in Nat /\ r.size \in Nat \ {0}
      /\ r.call \in {"Write", "ReadFrom"}
      /\ r.limit \in (Nat \ {0}) \cup {NoLimit}
      /\ r.call = "Write" => r.limit = NoLimit
  BY RequestsHaveLimits
<1>2. pc = "reading" /\ pc' = "round" /\ req' = r /\ left' = r.size /\ limit' = r.limit
      /\ sent' = 0 /\ clock' = clock /\ chunk' = chunk
  BY DEF Serve
<1>3. chunk = 0
  BY <1>2 DEF ConnInv, AccountsOK
<1>4. wr' = IF r.throttle > 0 THEN NewThrottleWriter(r.throttle) ELSE wr
  BY DEF Serve
<1>5. r.throttle > 0 =>
        /\ wr' = [speed |-> r.throttle, minWrite |-> Min({r.throttle, MinTransfer}),
                  started |-> NotStarted, written |-> 0]
        /\ Min({r.throttle, MinTransfer}) \in Nat
        /\ Min({r.throttle, MinTransfer}) >= 1 /\ Min({r.throttle, MinTransfer}) <= r.throttle
  <2>1. Min({r.throttle, MinTransfer})
        = IF r.throttle <= MinTransfer THEN r.throttle ELSE MinTransfer
    BY <1>1, MinOfTwo
  <2>2. QED  BY <1>1, <1>4, <2>1 DEF NewThrottleWriter
<1>6. Types'
  BY <1>1, <1>2 DEF Serve, ConnInv, Types
<1>7. WriterOK' /\ PaceOK'
  <2>1. CASE r.throttle > 0
    <3>1. /\ wr'.speed = r.throttle /\ wr'.minWrite = Min({r.throttle, MinTransfer})
          /\ wr'.started = NotStarted /\ wr'.written = 0
          /\ wr' \in [speed: Nat, minWrite: Nat, started: Nat \cup {NotStarted}, written: Nat]
      BY <2>1, <1>1, <1>5
    <3>2. QED
      BY <2>1, <3>1, <1>1, <1>2, <1>5 DEF WriterOK, PaceOK, NeverAheadOfSpeed, Throttled
  <2>2. CASE ~(r.throttle > 0)
    BY <2>2, <1>2, <1>4 DEF ConnInv, WriterOK, PaceOK, NeverAheadOfSpeed, Throttled
  <2>3. QED  BY <2>1, <2>2
<1>8. RoundOK'
  BY <1>1, <1>2 DEF RoundOK, OneDeadlinePerPiece
<1>9. AccountsOK'
  <2>1. r.limit - (r.size - r.size) = r.limit /\ 0 + 0 + r.size = r.size
    BY <1>1 DEF NoLimit
  <2>2. QED
    BY <1>1, <1>2, <1>3, <2>1 DEF AccountsOK, AnswerIsWhole
<1>10. QED  BY <1>6, <1>7, <1>8, <1>9 DEF ConnInv

LEMMA RoundKeepsConn ==
    ASSUME ConnInv, Round
    PROVE  ConnInv'
<1> USE SizesAreNumbers
<1>1. /\ req.size \in Nat \ {0} /\ req.call \in {"Write", "ReadFrom"}
      /\ req.limit \in (Nat \ {0}) \cup {NoLimit}
      /\ req.call = "Write" => req.limit = NoLimit
  BY RequestsHaveLimits DEF ConnInv, Types
<1>2. Quota = IF req.call = "Write" THEN left
              ELSE IF limit = NoLimit \/ limit > MaxTransfer THEN MaxTransfer
              ELSE limit
  BY QuotaIs DEF ConnInv
<1>3. /\ pc = "round" /\ pc' = IF Throttled THEN "throttle" ELSE "copy"
      /\ quota' = Quota /\ copied' = 0 /\ tally' = 0
      /\ UNCHANGED <<clock, unread, req, left, limit, chunk, wake, sent, served>>
  BY DEF Round
<1>4. /\ wr'.speed = wr.speed /\ wr'.minWrite = wr.minWrite /\ wr'.written = wr.written
      /\ wr'.started = IF Throttled /\ wr.started = NotStarted THEN clock ELSE wr.started
      /\ wr' \in [speed: Nat, minWrite: Nat, started: Nat \cup {NotStarted}, written: Nat]
  BY DEF Round, ConnInv, WriterOK, Types
<1>5. Throttled' <=> Throttled
  BY <1>4 DEF Throttled
<1>6. Types'
  BY <1>1, <1>2, <1>3 DEF Round, ConnInv, Types, NextDeadline, NoLimit
<1>7. WriterOK'
  BY <1>3, <1>4, <1>5 DEF ConnInv, WriterOK, Types, NotStarted
<1>8. RoundOK'
  <2>1. Quota' = Quota
    BY <1>3 DEF Quota
  <2>2. QED
    BY <1>3, <2>1 DEF ConnInv, RoundOK, OneDeadlinePerPiece
<1>9. PaceOK'
  <2>1. pc' # "sleeping"
    BY <1>3
  <2>2. NeverAheadOfSpeed'
    <3>1. CASE Throttled /\ wr.started = NotStarted
      <4>1. clock \in Nat /\ clock - clock = 0 /\ 0 \div TicksPerSecond = 0
        BY DEF ConnInv, Types
      <4>2. wr'.started = clock /\ clock' = clock /\ wr'.written = 0 /\ wr'.speed > 0
        BY <3>1, <1>3, <1>4 DEF ConnInv, WriterOK, Throttled
      <4>3. ((clock - wr.started) \div TicksPerSecond)' = 0
        BY <4>1, <4>2
      <4>4. wr'.speed * (0 + 1) = wr'.speed /\ wr'.speed \in Nat
        BY <1>4
      <4>5. QED
        BY <4>2, <4>3, <4>4 DEF NeverAheadOfSpeed
    <3>2. CASE ~(Throttled /\ wr.started = NotStarted)
      BY <3>2, <1>3, <1>4, <1>5 DEF ConnInv, PaceOK, NeverAheadOfSpeed
    <3>3. QED  BY <3>1, <3>2
  <2>3. QED  BY <2>1, <2>2 DEF PaceOK
<1>10. AccountsOK'
  <2>1. LimitIsLost' <=> LimitIsLost
    BY <1>3, <1>5 DEF LimitIsLost
  <2>2. req.call = "Write" => quota' = left
    BY <1>2, <1>3
  <2>3. Throttled /\ req.call = "ReadFrom" => quota' \in Nat /\ quota' >= 1
    BY <1>1, <1>2, <1>3 DEF ConnInv, AccountsOK, LimitIsLost, NoLimit
  <2>4. left \in Nat
    BY DEF ConnInv, Types
  <2>5. QED
    BY <1>3, <1>5, <2>1, <2>2, <2>3, <2>4 DEF ConnInv, AccountsOK, AnswerIsWhole
<1>11. QED  BY <1>6, <1>7, <1>8, <1>9, <1>10 DEF ConnInv

LEMMA CopyKeepsConn ==
    ASSUME ConnInv, Copy
    PROVE  ConnInv'
<1> DEFINE n == Min({quota, left})
<1>1. pc = "copy" /\ ~Throttled /\ quota = Quota /\ chunk = 0 /\ copied = 0
      /\ quota \in Nat /\ left \in Nat /\ limit \in Nat \cup {NoLimit}
  BY DEF Copy, ConnInv, Types, WriterOK, RoundOK, AccountsOK
<1>2. n = IF quota <= left THEN quota ELSE left
  <2>1. quota \in Int /\ left \in Int
    BY <1>1
  <2>2. QED  BY <2>1, MinOfTwo
<1>3. CASE n = 0
  <2>1. NothingToRead
    BY <1>3 DEF Copy, TransferUpTo
  <2>2. quota = 0 => left = 0 \/ limit = 0
    BY <1>1, QuotaIs, SizesAreNumbers DEF ConnInv, NoLimit
  <2>3. left = 0 \/ limit = 0
    BY <1>1, <1>2, <1>3, <2>2
  <2>4. QED
    BY <1>1, <2>1, <2>3, RoundEndIsSafe DEF NothingToRead
<1>4. CASE n # 0
  <2>1. Transfer(n) /\ n \in Nat \ {0}
    BY <1>1, <1>2, <1>4 DEF Copy, TransferUpTo
  <2>2. n <= quota /\ n <= left /\ (n = quota \/ n = left)
    BY <1>1, <1>2
  <2> HIDE DEF n
  <2>3. QED
    BY <1>1, <2>1, <2>2, TransferIsSafe
<1>5. QED  BY <1>3, <1>4

LEMMA SentKeepsConn ==
    ASSUME ConnInv, Sent
    PROVE  ConnInv'
<1>1. pc = "sending" /\ chunk = 0
      /\ UNCHANGED <<clock, wr, req, left, limit, quota, copied, chunk, wake, sent, tally, served>>
  BY DEF Sent
<1>2. req.call \in {"Write", "ReadFrom"}
  BY RequestsHaveLimits DEF ConnInv, Types
<1>3. CASE Throttled /\ (req.call = "ReadFrom" \/ left > 0)
  <2>1. pc' = "throttle" /\ UNCHANGED <<unread, deadline>>
    BY <1>3 DEF Sent
  <2>2. (Throttled' <=> Throttled) /\ (LimitIsLost' <=> LimitIsLost)
    BY <1>1 DEF Throttled, LimitIsLost
  <2>3. Types' /\ WriterOK'
    BY <1>1, <1>3, <2>1, <2>2 DEF ConnInv, Types, WriterOK
  <2>4. RoundOK' /\ PaceOK'
    BY <1>1, <2>1, <2>2
    DEF ConnInv, RoundOK, PaceOK, OneDeadlinePerPiece, NeverAheadOfSpeed
  <2>5. AccountsOK'
    BY <1>1, <1>3, <2>1, <2>2 DEF ConnInv, AccountsOK, AnswerIsWhole
  <2>6. QED  BY <2>3, <2>4, <2>5 DEF ConnInv
<1>4. CASE ~(Throttled /\ (req.call = "ReadFrom" \/ left > 0))
  <2>1. RoundEnds
    BY <1>4 DEF Sent
  <2>2. \/ left = 0
        \/ ~Throttled /\ limit = 0
        \/ req.call = "ReadFrom" /\ copied = MaxTransfer
    BY <1>1, <1>2, <1>4 DEF ConnInv, Types, AccountsOK
  <2>3. QED
    BY <1>1, <2>1, <2>2, RoundEndIsSafe
<1>5. QED  BY <1>3, <1>4

LEMMA TakeKeepsConn ==
    ASSUME ConnInv, NEW n \in 1..chunk, Take(n)
    PROVE  ConnInv'
<1>1. /\ pc = "sending" /\ chunk' = chunk - n /\ sent' = sent + n /\ tally' = tally + n
      /\ UNCHANGED <<clock, pc, unread, deadline, wr, req, left, limit, quota, copied, wake,
                     served>>
  BY DEF Take
<1>2. chunk \in Nat /\ sent \in Nat /\ tally \in Nat /\ left \in Nat
  BY DEF ConnInv, Types
<1>3. (Throttled' <=> Throttled) /\ (LimitIsLost' <=> LimitIsLost)
  BY <1>1 DEF Throttled, LimitIsLost
<1>4. chunk' \in Nat /\ sent' \in Nat /\ tally' \in Nat
      /\ tally' + chunk' = tally + chunk /\ sent' + chunk' + left = sent + chunk + left
  BY <1>1, <1>2
<1>5. Types' /\ WriterOK'
  BY <1>1, <1>3, <1>4 DEF ConnInv, Types, WriterOK
<1>6. RoundOK' /\ PaceOK'
  BY <1>1, <1>3, <1>4
  DEF ConnInv, RoundOK, PaceOK, OneDeadlinePerPiece, NeverAheadOfSpeed
<1>7. AccountsOK'
  BY <1>1, <1>3, <1>4 DEF ConnInv, AccountsOK, AnswerIsWhole
<1>8. QED  BY <1>5, <1>6, <1>7 DEF ConnInv

\* Time gives the ThrottledWriter room.
LEMMA TickKeepsConn ==
    ASSUME ConnInv, Tick
    PROVE  ConnInv'
<1>1. /\ clock \in Nat /\ clock' = clock + 1
      /\ UNCHANGED <<pc, unread, deadline, wr, req, left, limit, quota, copied, chunk, wake,
                     sent, tally, served>>
  BY DEF Tick, ConnInv, Types
<1>2. (Throttled' <=> Throttled) /\ (LimitIsLost' <=> LimitIsLost)
  BY <1>1 DEF Throttled, LimitIsLost
<1>3. Types'
  BY <1>1 DEF ConnInv, Types
<1>4. WriterOK'
  <2>1. wr.started # NotStarted => wr.started \in Nat /\ wr.started <= clock + 1
    BY <1>1 DEF ConnInv, WriterOK
  <2>2. QED  BY <1>1, <1>2, <2>1 DEF ConnInv, WriterOK
<1>5. RoundOK'
  <2>1. Quota' = Quota
    BY <1>1 DEF Quota
  <2>2. QED  BY <1>1, <1>2, <2>1 DEF ConnInv, RoundOK, OneDeadlinePerPiece
<1>6. PaceOK'
  <2>1. Seconds(wake)' = Seconds(wake)
    BY <1>1 DEF Seconds
  <2>2. ASSUME Throttled, wr.started # NotStarted
        PROVE  wr.written < wr.speed * (Seconds(clock') + 1)
    <3>1. /\ Seconds(clock) \in Nat /\ Seconds(clock') \in Nat
          /\ Seconds(clock) <= Seconds(clock')
      <4>1. clock' \in Nat /\ clock <= clock'
        BY <1>1
      <4>2. QED
        BY <2>2, <4>1, SecondsAreNumbers DEF ConnInv
    <3>2. wr.speed \in Nat /\ wr.written \in Nat
      BY DEF ConnInv, WriterOK
    <3>3. (Seconds(clock) + 1) * wr.speed <= (Seconds(clock') + 1) * wr.speed
      BY <3>1, <3>2, ProductGrows
    <3>4. /\ wr.speed * (Seconds(clock) + 1) = (Seconds(clock) + 1) * wr.speed
          /\ wr.speed * (Seconds(clock') + 1) = (Seconds(clock') + 1) * wr.speed
          /\ wr.speed * (Seconds(clock) + 1) \in Int /\ wr.speed * (Seconds(clock') + 1) \in Int
      <4>1. Seconds(clock) + 1 \in Int /\ Seconds(clock') + 1 \in Int /\ wr.speed \in Int
        BY <3>1, <3>2
      <4>2. QED  BY <4>1, ProductAdds
    <3>5. wr.written < wr.speed * (Seconds(clock) + 1)
      BY <2>2 DEF ConnInv, PaceOK, NeverAheadOfSpeed, Seconds
    <3>6. QED
      BY <3>2, <3>3, <3>4, <3>5
  <2>3. NeverAheadOfSpeed'
    <3>1. ((clock - wr.started) \div TicksPerSecond)' = Seconds(clock')
      BY <1>1 DEF Seconds
    <3>2. QED
      BY <1>1, <1>2, <2>2, <3>1 DEF NeverAheadOfSpeed
  <2>4. QED
    BY <1>1, <2>1, <2>3 DEF ConnInv, PaceOK
<1>7. AccountsOK'
  BY <1>1, <1>2 DEF ConnInv, AccountsOK, AnswerIsWhole, Due
<1>8. QED  BY <1>3, <1>4, <1>5, <1>6, <1>7 DEF ConnInv

\* A read, or a call cut off.
LEMMA ReadKeepsConn ==
    ASSUME ConnInv, Read \/ CutOff
    PROVE  ConnInv'
<1>1. /\ pc \in {"reading", "sending"} /\ pc' \in {"reading", "closed"}
      /\ pc' = "reading" => pc = "reading"
      /\ UNCHANGED <<clock, wr, req, left, limit, quota, copied, chunk, wake, sent, tally, served>>
  BY DEF Read, CutOff
<1>2. (Throttled' <=> Throttled) /\ (LimitIsLost' <=> LimitIsLost)
  BY <1>1 DEF Throttled, LimitIsLost
<1>3. Types'
  BY SizesAreNumbers DEF Read, CutOff, ConnInv, Types, NextDeadline
<1>4. WriterOK'
  BY <1>1, <1>2 DEF ConnInv, WriterOK
<1>5. RoundOK' /\ PaceOK'
  BY <1>1, <1>2 DEF ConnInv, RoundOK, PaceOK, OneDeadlinePerPiece, NeverAheadOfSpeed
<1>6. AccountsOK'
  BY <1>1, <1>2 DEF ConnInv, AccountsOK, AnswerIsWhole, Due
<1>7. QED  BY <1>3, <1>4, <1>5, <1>6 DEF ConnInv

-----------------------------------------------------------------------------
(* The theorems *)

LEMMA ConnStarts == Init => ConnInv
<1> SUFFICES ASSUME Init
             PROVE  ConnInv
  OBVIOUS
<1> USE SizesAreNumbers
<1>1. /\ pc = "reading" /\ clock = 0 /\ chunk = 0 /\ served = 0 /\ limit = NoLimit
      /\ wr = [speed |-> 0, minWrite |-> 0, started |-> NotStarted, written |-> 0]
  BY DEF Init, Socket
<1>2. Types
  BY DEF Init, Types
<1>3. WriterOK /\ PaceOK
  BY <1>1 DEF WriterOK, PaceOK, NeverAheadOfSpeed, Throttled
<1>4. RoundOK
  BY <1>1 DEF RoundOK, OneDeadlinePerPiece
<1>5. AccountsOK
  BY <1>1 DEF AccountsOK, AnswerIsWhole
<1>6. QED  BY <1>2, <1>3, <1>4, <1>5 DEF ConnInv

LEMMA ConnStays == ConnInv /\ [Next]_vars => ConnInv'
<1> SUFFICES ASSUME ConnInv, [Next]_vars
             PROVE  ConnInv'
  OBVIOUS
<1>1. CASE Round  BY <1>1, RoundKeepsConn
<1>2. CASE Copy  BY <1>2, CopyKeepsConn
<1>3. CASE HowMuchCanIWrite  BY <1>3, WriteKeepsPace
<1>4. CASE WaitAtleastMinWrite  BY <1>4, SleepKeepsPace
<1>5. CASE Awake  BY <1>5, AwakeKeepsPace
<1>6. CASE Sent  BY <1>6, SentKeepsConn
<1>7. CASE Read \/ CutOff  BY <1>7, ReadKeepsConn
<1>8. CASE \E r \in Requests : Serve(r)  BY <1>8, RequestKeepsConn
<1>9. CASE \E n \in 1..chunk : Take(n)  BY <1>9, TakeKeepsConn
<1>10. CASE Tick  BY <1>10, TickKeepsConn
<1>11. CASE UNCHANGED vars
  <2>1. UNCHANGED <<clock, pc, unread, deadline, wr, req, left, limit, quota, copied, chunk,
                    wake, sent, tally, served>>
    BY <1>11 DEF vars
  <2>2. (Throttled' <=> Throttled) /\ (LimitIsLost' <=> LimitIsLost)
    BY <2>1 DEF Throttled, LimitIsLost
  <2>3. Types' /\ WriterOK'
    BY <2>1, <2>2 DEF ConnInv, Types, WriterOK
  <2>4. RoundOK'
    BY <2>1, <2>2 DEF ConnInv, RoundOK, OneDeadlinePerPiece, Quota
  <2>5. PaceOK'
    BY <2>1, <2>2 DEF ConnInv, PaceOK, NeverAheadOfSpeed, Seconds
  <2>6. AccountsOK'
    BY <2>1, <2>2 DEF ConnInv, AccountsOK, AnswerIsWhole, Due
  <2>7. QED  BY <2>3, <2>4, <2>5, <2>6 DEF ConnInv
<1>12. QED
  BY <1>1, <1>2, <1>3, <1>4, <1>5, <1>6, <1>7, <1>8, <1>9, <1>10, <1>11 DEF Next, Server

LEMMA ConnHolds == Spec => []ConnInv
BY ConnStarts, ConnStays, PTL DEF Spec

\* The state of a connection is of its types, and a ThrottledWriter writes at least a
\* byte at a time and no more than its speed at once (throttled_writer.go).
THEOREM ConnTypeOK == Spec => []TypeOK
<1>1. ConnInv => TypeOK
  BY DEF ConnInv, Types, WriterOK, TypeOK
<1>2. QED  BY <1>1, ConnHolds, PTL

\* Whatever the speed, the minimal transfer and the lateness of the timers, a
\* ThrottledWriter stays below its speed times the seconds begun.
THEOREM ConnNeverAheadOfSpeed == Spec => []NeverAheadOfSpeed
<1>1. ConnInv => NeverAheadOfSpeed
  BY DEF ConnInv, PaceOK
<1>2. QED  BY <1>1, ConnHolds, PTL

\* Without throttling, at most max_io_transfer_size bytes depend on one deadline.
THEOREM ConnOneDeadlinePerPiece == Spec => []OneDeadlinePerPiece
<1>1. ConnInv => OneDeadlinePerPiece
  BY DEF ConnInv, RoundOK
<1>2. QED  BY <1>1, ConnHolds, PTL

\* A call that returns has sent the whole answer, for answers and limits of any size.
THEOREM ConnAnswerIsWhole == Spec => []AnswerIsWhole
<1>1. ConnInv => AnswerIsWhole
  BY DEF ConnInv, AccountsOK
<1>2. QED  BY <1>1, ConnHolds, PTL
=============================================================================
