--------------------------- MODULE NetRetryProofs ---------------------------
(***************************************************************************)
(* Proofs about NetRetry, for any number of interfaces, whichever of them  *)
(* may fail, and any settings of ethrotate and netretry.                   *)
(***************************************************************************)
EXTENDS NetRetry, TLAPS

(* The interfaces from first_failed on, up to the current one, have been   *)
(* tried.                                                                  *)
ArcVisited ==
  /\ first_failed \in Devices
  /\ \E j \in 0..(N - 1) :
       /\ eth_current = Plus(first_failed, j)
       /\ \A i \in 0..j : Plus(first_failed, i) \in visited

(* As long as every interface has come up, net_restart_wrap is only set    *)
(* while net_start_again runs, and first_failed is where this call began   *)
(* to rotate, once it has restarted.                                       *)
RotationInv ==
  /\ net_restart_wrap = FALSE
  /\ pc # "idle" => eth_current \in visited
  /\ timer = "again" => visited = Devices
  /\ pc # "idle" /\ ethrotate /\ (net_restarted \/ net_state = "RESTART" \/ timer = "again") =>
       ArcVisited

RetryInv ==
  /\ TypeOK
  /\ OneInterface
  /\ pc # "idle" => eth_current \in Devices
  /\ pc = "idle" \/ (pc = "restart" /\ ~net_restarted) => timer = "none"
  /\ ~faulted => RotationInv

-----------------------------------------------------------------------------
(* The ring.                                                               *)

\* A number below twice N has the remainder one expects.
LEMMA ModTwice ==
  ASSUME NEW a \in 0..(2 * N - 1)
  PROVE  a % N = IF a < N THEN a ELSE a - N
<1> USE NetRetryAssumption
<1> DEFINE q == a \div N
           r == a % N
<1>1. a = N * q + r /\ q \in Int /\ r \in 0..(N - 1)  OBVIOUS
<1> HIDE DEF q, r
<1>2. CASE q >= 2
  <2>1. N * q >= N * 2  BY <1>1, <1>2
  <2> QED BY <1>1, <2>1
<1>3. CASE q <= -1
  <2>1. N * q <= N * (-1)  BY <1>1, <1>3
  <2> QED BY <1>1, <2>1
<1>4. CASE q = 0  BY <1>1, <1>4 DEF r
<1>5. CASE q = 1  BY <1>1, <1>5 DEF r
<1> QED BY <1>1, <1>2, <1>3, <1>4, <1>5

\* Going at most once round the ring: past interface N comes interface 1.
LEMMA PlusIs ==
  ASSUME NEW c \in Devices, NEW j \in 0..N
  PROVE  Plus(c, j) = IF c + j <= N THEN c + j ELSE c + j - N
<1> DEFINE a == c - 1 + j
<1>1. a \in 0..(2 * N - 1)  BY NetRetryAssumption DEF Devices
<1>2. a % N = IF a < N THEN a ELSE a - N  BY Zenon, <1>1, ModTwice
<1> QED BY <1>2, NetRetryAssumption DEF Plus, Devices

\* The ring is not left,
LEMMA PlusType ==
  ASSUME NEW c \in Devices, NEW j \in 0..N
  PROVE  Plus(c, j) \in Devices
BY PlusIs, NetRetryAssumption DEF Devices

\* no step stays,
LEMMA PlusZero ==
  ASSUME NEW c \in Devices
  PROVE  Plus(c, 0) = c
BY PlusIs, NetRetryAssumption DEF Devices

\* and after j steps one more makes j + 1.
LEMMA PlusOne ==
  ASSUME NEW c \in Devices, NEW j \in 0..(N - 1)
  PROVE  Plus(Plus(c, j), 1) = Plus(c, j + 1)
<1>1. Plus(c, j) = IF c + j <= N THEN c + j ELSE c + j - N
  BY PlusIs, NetRetryAssumption
<1>0. j + 1 \in 0..N  BY NetRetryAssumption
<1>2. Plus(c, j + 1) = IF c + (j + 1) <= N THEN c + (j + 1) ELSE c + (j + 1) - N
  BY <1>0, PlusIs, Zenon
<1> DEFINE d == Plus(c, j)
<1>3. d \in Devices  BY PlusType, NetRetryAssumption
<1> HIDE DEF d
<1>4. Plus(d, 1) = IF d + 1 <= N THEN d + 1 ELSE d + 1 - N
  BY <1>3, PlusIs, NetRetryAssumption
<1> QED BY <1>1, <1>2, <1>3, <1>4, NetRetryAssumption DEF d, Devices

\* Only N steps come back to where they started, and N steps see them all.
LEMMA FullCircle ==
  ASSUME NEW c \in Devices, NEW j \in 0..(N - 1), Plus(c, j + 1) = c,
         NEW S, \A i \in 0..j : Plus(c, i) \in S
  PROVE  Devices \subseteq S
<1>1. j = N - 1
  <2>0. j + 1 \in 0..N  BY NetRetryAssumption
  <2>1. Plus(c, j + 1) = IF c + (j + 1) <= N THEN c + (j + 1) ELSE c + (j + 1) - N
    BY <2>0, PlusIs, Zenon
  <2> QED BY <2>1, NetRetryAssumption DEF Devices
<1> SUFFICES ASSUME NEW d \in Devices PROVE d \in S  BY Zenon
<1> DEFINE i == IF d >= c THEN d - c ELSE d - c + N
<1>2. i \in 0..(N - 1)  BY NetRetryAssumption DEF Devices
<1>3. Plus(c, i) = d
  <2>1. Plus(c, i) = IF c + i <= N THEN c + i ELSE c + i - N
    BY <1>2, PlusIs, NetRetryAssumption
  <2> QED BY <2>1, NetRetryAssumption DEF Devices
<1> QED BY Zenon, <1>1, <1>2, <1>3

-----------------------------------------------------------------------------
(* eth_init.                                                               *)

\* eth_init ends on some interface; when none has failed, on the one it was
\* given, and net_restart_wrap is as it was.
LEMMA EthInit ==
  ASSUME NEW c \in Devices, NEW ff, NEW wrap \in BOOLEAN, NEW o \in eth_init(c, ff, wrap)
  PROVE  /\ o.cur \in Devices /\ o.seen \subseteq Devices
         /\ o.wrap \in BOOLEAN /\ o.fault \in BOOLEAN /\ o.ok \in BOOLEAN
         /\ ~o.fault => o.ok /\ o.cur = c /\ o.seen = {c} /\ o.wrap = wrap
<1>1. \E k \in 0..N : \E good \in BOOLEAN : o = Outcome(c, k, ff, wrap, good)
  <2>0. 0..(N - 1) \subseteq 0..N /\ 0..(1 - 1) \subseteq 0..N /\ N \in 0..N /\ 0 \in 0..N
    BY NetRetryAssumption
  <2>1. CASE ethrotate
    <3>1. \/ \E k \in 0..(N - 1) : o = Outcome(c, k, ff, wrap, TRUE)
          \/ o = Outcome(c, N, ff, wrap, FALSE)
      BY <2>1, Zenon DEF eth_init
    <3> QED BY <2>0, <3>1, Zenon
  <2>2. CASE ~ethrotate
    <3>1. \/ \E k \in 0..(1 - 1) : o = Outcome(c, k, ff, wrap, TRUE)
          \/ o = Outcome(c, 0, ff, wrap, FALSE)
      BY <2>2, Zenon DEF eth_init
    <3> QED BY <2>0, <3>1, Zenon
  <2> QED BY Zenon, <2>1, <2>2
<1>a. PICK k \in 0..N, good \in BOOLEAN : o = Outcome(c, k, ff, wrap, good)
  BY Zenon, <1>1
<1>2. /\ o.cur = Plus(c, k) /\ o.seen = {Plus(c, j) : j \in 0..k}
      /\ o.ok = good /\ o.fault = (k > 0 \/ ~good)
      /\ o.wrap = (wrap \/ \E j \in 1..k : Plus(c, j) = ff)
  BY Zenon, <1>a DEF Outcome
<1>3. o.cur \in Devices /\ o.seen \subseteq Devices
  BY <1>2, PlusType, NetRetryAssumption
<1>4. o.wrap \in BOOLEAN /\ o.fault \in BOOLEAN /\ o.ok \in BOOLEAN
  BY <1>2, Zenon
<1>5. ASSUME ~o.fault PROVE o.ok /\ o.cur = c /\ o.seen = {c} /\ o.wrap = wrap
  <2>1. ~(k > 0) /\ good  BY <1>2, <1>5, Zenon
  <2>2. k = 0  BY <2>1
  <2>3. o.cur = c /\ o.seen = {c}  BY <1>2, <2>2, PlusZero
  <2>4. ~ \E j \in 1..k : Plus(c, j) = ff  BY <2>2
  <2>5. o.wrap = wrap  BY <1>2, <2>4, Zenon
  <2> QED BY <1>2, <2>1, <2>3, <2>5, Zenon
<1> QED BY <1>3, <1>4, <1>5, Zenon

-----------------------------------------------------------------------------
(* net_start_again.                                                        *)

\* The interface that runs is the current one, so that eth_halt stops all.
LEMMA HaltsAll ==
  ASSUME OneInterface
  PROVE  eth_halt = {}
BY Zenon DEF OneInterface, eth_halt

\* The interfaces from first_failed on have been tried, also when this is
\* where the rotation begins.
LEMMA ArcBegun ==
  ASSUME RetryInv, pc # "idle", ~faulted, ethrotate
  PROVE  /\ FirstFailed \in Devices
         /\ \E j \in 0..(N - 1) :
              /\ eth_current = Plus(FirstFailed, j)
              /\ \A i \in 0..j : Plus(FirstFailed, i) \in visited
<1>0. eth_current \in Devices /\ RotationInv  BY Zenon DEF RetryInv
<1>1. CASE net_restarted
  <2>1. FirstFailed = first_failed  BY <1>1, Zenon DEF FirstFailed
  <2>2. ArcVisited  BY <1>0, <1>1, Zenon DEF RotationInv
  <2> QED BY <2>1, <2>2, Zenon DEF ArcVisited
<1>2. CASE ~net_restarted
  <2>1. FirstFailed = eth_current  BY <1>2, Zenon DEF FirstFailed
  <2>2. Plus(eth_current, 0) = eth_current /\ eth_current \in visited
    BY <1>0, PlusZero, Zenon DEF RotationInv
  <2>3. 0 \in 0..(N - 1) /\ \A i \in 0..0 : i = 0  BY NetRetryAssumption
  <2> QED BY <1>0, <2>1, <2>2, <2>3, Zenon
<1> QED BY Zenon, <1>1, <1>2

\* Going on to the next interface of the ring extends the arc of those that
\* have been tried, or closes it.
LEMMA ArcGrows ==
  ASSUME NEW ff \in Devices, NEW cur \in Devices, NEW S,
         \E j \in 0..(N - 1) :
           cur = Plus(ff, j) /\ \A i \in 0..j : Plus(ff, i) \in S
  PROVE  /\ Plus(cur, 1) = ff => Devices \subseteq S
         /\ \E j \in 0..(N - 1) :
              /\ Plus(cur, 1) = Plus(ff, j)
              /\ \A i \in 0..j : Plus(ff, i) \in S \cup {Plus(cur, 1)}
<1>1. PICK j \in 0..(N - 1) : cur = Plus(ff, j) /\ \A i \in 0..j : Plus(ff, i) \in S
  BY Zenon
<1>2. Plus(cur, 1) = Plus(ff, j + 1)  BY Zenon, <1>1, PlusOne
<1>3. CASE Plus(cur, 1) = ff
  <2>1. Devices \subseteq S  BY <1>1, <1>2, <1>3, FullCircle, Zenon
  <2>2. 0 \in 0..(N - 1) /\ \A i \in 0..0 : i = 0  BY NetRetryAssumption
  <2> QED BY <1>3, <2>1, <2>2, PlusZero, Zenon
<1>4. CASE Plus(cur, 1) # ff
  <2>1. j + 1 # N
    <3>1. N \in 0..N  BY NetRetryAssumption
    <3>2. Plus(ff, N) = IF ff + N <= N THEN ff + N ELSE ff + N - N
      BY <3>1, PlusIs, Zenon
    <3>3. Plus(ff, N) = ff  BY <3>2, NetRetryAssumption DEF Devices
    <3> QED BY Zenon, <1>2, <1>4, <3>3
  <2>2. j + 1 \in 0..(N - 1) /\ \A i \in 0..(j + 1) : i \in 0..j \/ i = j + 1
    BY <2>1, NetRetryAssumption
  <2> QED BY <1>1, <1>2, <1>4, <2>2, Zenon
<1> QED BY Zenon, <1>3, <1>4

(* The two ways through net_start_again: it gives up, or it goes on, and   *)
(* eth_init ends with outcome o.                                           *)
GivesUp(handler, rc) ==
  /\ up' = eth_halt /\ net_state' = "FAIL" /\ rc = "error" /\ timer' = handler
  /\ UNCHANGED <<net_try_count, net_restart_wrap, first_failed, eth_current,
                 visited, faulted>>

NextTried == IF ethrotate THEN Plus(eth_current, 1) ELSE eth_current

Wraps == net_restart_wrap \/ (ethrotate /\ NextTried = first_failed')

GoesOn(handler, rc, o) ==
  /\ netretry = Forever \/ net_try_count < netretry
  /\ net_try_count' = Counted /\ first_failed' = FirstFailed
  /\ rc = IF o.ok THEN "zero" ELSE "error"
  /\ eth_current' = o.cur
  /\ visited' = visited \cup o.seen /\ faulted' = (faulted \/ o.fault)
  /\ up' = eth_halt \cup (IF o.ok THEN {o.cur} ELSE {})
  /\ net_restart_wrap' = FALSE
  /\ timer' = IF o.wrap /\ net_dev_exists THEN "again" ELSE handler
  /\ net_state' = CASE ~o.wrap -> "RESTART"
                   [] o.wrap /\ net_dev_exists -> net_state
                   [] o.wrap /\ ~net_dev_exists -> "FAIL"

\* net_start_again gives up, or restarts on the interface that eth_init finds.
LEMMA AgainCases ==
  ASSUME NEW handler, NEW rc, net_start_again(handler, rc)
  PROVE  \/ GivesUp(handler, rc)
         \/ \E o \in eth_init(NextTried, first_failed', Wraps) : GoesOn(handler, rc, o)
BY Zenon DEF net_start_again, GivesUp, GoesOn, NextTried, Wraps

\* The interface eth_try_another moves to is one of the ring.
LEMMA NextTriedType ==
  ASSUME eth_current \in Devices
  PROVE  NextTried \in Devices /\ Wraps \in BOOLEAN
<1>1. 1 \in 0..N  BY NetRetryAssumption
<1>2. Plus(eth_current, 1) \in Devices  BY Zenon, <1>1, PlusType
<1> QED BY <1>2, Zenon DEF NextTried, Wraps

\* The types, after net_start_again, of what it assigns; at most the current
\* interface runs.
LEMMA AgainTypes ==
  ASSUME RetryInv, pc # "idle", NEW handler \in {"none", "proto", "again"}, NEW rc,
         net_start_again(handler, rc)
  PROVE  /\ net_state' \in {"CONTINUE", "RESTART", "SUCCESS", "FAIL"}
         /\ net_restart_wrap' \in BOOLEAN /\ faulted' \in BOOLEAN
         /\ net_try_count' \in 0..MaxTry
         /\ first_failed' \in 0..N /\ eth_current' \in Devices
         /\ up' \subseteq {eth_current'} /\ visited' \subseteq Devices
         /\ timer' \in {"none", "proto", "again"} /\ rc \in {"zero", "error"}
<1>0. TypeOK /\ eth_current \in Devices /\ eth_halt = {}
  BY Zenon, HaltsAll DEF RetryInv
<1>1. CASE GivesUp(handler, rc)
  BY Zenon, <1>0, <1>1 DEF TypeOK, GivesUp
<1>2. ASSUME NEW o \in eth_init(NextTried, first_failed', Wraps), GoesOn(handler, rc, o)
      PROVE  /\ net_state' \in {"CONTINUE", "RESTART", "SUCCESS", "FAIL"}
             /\ net_restart_wrap' \in BOOLEAN /\ faulted' \in BOOLEAN
             /\ net_try_count' \in 0..MaxTry
             /\ first_failed' \in 0..N /\ eth_current' \in Devices
             /\ up' \subseteq {eth_current'} /\ visited' \subseteq Devices
             /\ timer' \in {"none", "proto", "again"} /\ rc \in {"zero", "error"}
  <2>1. o.cur \in Devices /\ o.seen \subseteq Devices
    BY <1>0, NextTriedType, EthInit, Zenon
  <2>2. net_try_count' \in 0..MaxTry
    BY <1>0, <1>2, NetRetryAssumption DEF TypeOK, GoesOn, Counted, Forever
  <2>3. first_failed' \in 0..N
    BY Zenon, <1>0, <1>2 DEF TypeOK, GoesOn, FirstFailed
  <2>4. faulted' \in BOOLEAN /\ net_restart_wrap' \in BOOLEAN  BY <1>2, Zenon DEF GoesOn
  <2>5. eth_current' \in Devices /\ visited' \subseteq Devices /\ up' \subseteq {eth_current'}
    BY Zenon, <1>0, <1>2, <2>1 DEF TypeOK, GoesOn
  <2>6. timer' \in {"none", "proto", "again"} /\ rc \in {"zero", "error"}
    BY <1>2, Zenon DEF GoesOn
  <2>7. net_state' \in {"CONTINUE", "RESTART", "SUCCESS", "FAIL"}
    <3>1. net_state' = "RESTART" \/ net_state' = net_state \/ net_state' = "FAIL"
      BY <1>2, Zenon DEF GoesOn
    <3> QED BY Zenon, <1>0, <3>1 DEF TypeOK
  <2> QED BY Zenon, <2>2, <2>3, <2>4, <2>5, <2>6, <2>7
<1> QED BY <1>1, <1>2, AgainCases, Zenon

\* As long as no interface has failed to come up, net_start_again keeps the
\* arc of the interfaces tried, and pauses only when they are all of them.
LEMMA AgainRotates ==
  ASSUME RetryInv, pc # "idle", NEW handler, handler \in {timer, "none"}, NEW rc,
         net_start_again(handler, rc), ~faulted',
         UNCHANGED <<ethrotate, net_restarted>>
  PROVE  RotationInv'
<1>0. TypeOK /\ eth_current \in Devices  BY Zenon DEF RetryInv
<1>1. CASE GivesUp(handler, rc)
  <2>1. ~faulted  BY <1>1, Zenon DEF GivesUp
  <2>2. RotationInv  BY <2>1, Zenon DEF RetryInv
  <2>3. timer' = "again" => timer = "again"  BY Zenon, <1>1 DEF GivesUp
  <2>4. net_state' # "RESTART"  BY Zenon, <1>1 DEF GivesUp
  <2>5. ArcVisited' <=> ArcVisited  BY <1>1, Zenon DEF GivesUp, ArcVisited
  <2> QED BY <1>1, <2>2, <2>3, <2>4, <2>5, Zenon DEF RotationInv, GivesUp
<1>2. ASSUME NEW o \in eth_init(NextTried, first_failed', Wraps), GoesOn(handler, rc, o)
      PROVE  RotationInv'
  <2>1. ~faulted /\ ~o.fault  BY <1>2, Zenon DEF GoesOn
  <2>2. RotationInv  BY <2>1, Zenon DEF RetryInv
  <2>3. o.cur = NextTried /\ o.seen = {NextTried} /\ o.wrap = Wraps
    BY <1>0, <2>1, NextTriedType, EthInit, Zenon
  <2>4. eth_current' = NextTried /\ visited' = visited \cup {NextTried}
    BY <1>2, <2>3, Zenon DEF GoesOn
  <2>5. NextTried \in Devices /\ visited \subseteq Devices
    BY Zenon, <1>0, NextTriedType DEF TypeOK
  <2>6. net_restart_wrap' = FALSE /\ eth_current' \in visited'
    BY <1>2, <2>4, Zenon DEF GoesOn
  <2>7. timer' = "again" => Wraps \/ visited = Devices
    BY <1>2, <2>2, <2>3, Zenon DEF GoesOn, RotationInv
  <2>8. CASE ethrotate
    <3>1. /\ first_failed' \in Devices
          /\ \E j \in 0..(N - 1) :
               /\ eth_current = Plus(first_failed', j)
               /\ \A i \in 0..j : Plus(first_failed', i) \in visited
      <4>1. first_failed' = FirstFailed  BY <1>2, Zenon DEF GoesOn
      <4> QED BY <2>1, <2>8, <4>1, ArcBegun, Zenon
    <3>2. NextTried = Plus(eth_current, 1)  BY <2>8, Zenon DEF NextTried
    <3>3. /\ NextTried = first_failed' => Devices \subseteq visited
          /\ \E j \in 0..(N - 1) :
               /\ NextTried = Plus(first_failed', j)
               /\ \A i \in 0..j : Plus(first_failed', i) \in visited \cup {NextTried}
      BY <1>0, <3>1, <3>2, ArcGrows, ZenonT(30)
    <3>4. ArcVisited'  BY <2>4, <3>1, <3>3, Zenon DEF ArcVisited, Plus, Devices
    <3>5. Wraps => Devices \subseteq visited
      BY <2>2, <3>3, Zenon DEF Wraps, RotationInv
    <3>6. timer' = "again" => visited' = Devices  BY Zenon, <2>4, <2>5, <2>7, <3>5
    <3> QED BY <2>6, <3>4, <3>6, Zenon DEF RotationInv, Devices
  <2>9. CASE ~ethrotate
    <3>1. ~Wraps  BY <2>2, <2>9, Zenon DEF Wraps, RotationInv
    <3>2. timer' = "again" => visited' = Devices  BY Zenon, <2>4, <2>5, <2>7, <3>1
    <3> QED BY <2>6, <2>9, <3>2, Zenon DEF RotationInv, Devices
  <2> QED BY Zenon, <2>8, <2>9
<1> QED BY <1>1, <1>2, AgainCases, Zenon

-----------------------------------------------------------------------------
(* The steps of net_loop.                                                  *)

Results == {"none", "zero", "error", "size"}

\* A step that calls net_start_again while net_loop runs.
LEMMA AgainInv ==
  ASSUME RetryInv, pc # "idle", NEW handler, handler \in {timer, "none"}, NEW rc,
         net_start_again(handler, rc),
         UNCHANGED <<settings, net_restarted, net_dev_exists>>,
         pc' \in {"poll", "rx", "arp", "switch", "failed"}, ret' \in Results
  PROVE  RetryInv'
<1>0. TypeOK  BY Zenon DEF RetryInv
<1>1. handler \in {"none", "proto", "again"}  BY Zenon, <1>0 DEF TypeOK
<1>2. /\ net_state' \in {"CONTINUE", "RESTART", "SUCCESS", "FAIL"}
      /\ net_restart_wrap' \in BOOLEAN /\ faulted' \in BOOLEAN
      /\ net_try_count' \in 0..MaxTry
      /\ first_failed' \in 0..N /\ eth_current' \in Devices
      /\ up' \subseteq {eth_current'} /\ visited' \subseteq Devices
      /\ timer' \in {"none", "proto", "again"}
  BY <1>1, AgainTypes, Zenon
<1>3. {ethrotate', net_restarted', net_dev_exists', net_restart_wrap', faulted'}
        \subseteq BOOLEAN
  BY <1>0, <1>2, Zenon DEF TypeOK, settings
<1>4. TypeOK'
  <2>1. eth_current' \in 0..N /\ up' \subseteq Devices
    BY <1>2, NetRetryAssumption DEF Devices
  <2>2. netretry' \in 0..Forever
    BY <1>0, Zenon DEF TypeOK, settings
  <2> QED BY Zenon, <1>2, <1>3, <2>1, <2>2 DEF TypeOK, Results, Devices, Forever
<1>5. OneInterface'  BY Zenon, <1>2 DEF OneInterface
<1>6. ~faulted' => RotationInv'
  BY AgainRotates, Zenon DEF settings
<1> QED BY Zenon, <1>2, <1>4, <1>5, <1>6 DEF RetryInv, Devices

\* What any other step of net_loop leaves as it was.
Quiet ==
  /\ UNCHANGED <<settings, net_try_count, net_restart_wrap, first_failed, eth_current,
                 visited, faulted>>
  /\ up' \in {up, eth_halt} /\ timer' \in {timer, "none", "proto"}
  /\ {net_restarted', net_dev_exists'} \subseteq BOOLEAN
  /\ net_state' \in {"CONTINUE", "RESTART", "SUCCESS", "FAIL"}
  /\ pc' \in {"idle", "restart", "poll", "rx", "arp", "switch", "failed"} /\ ret' \in Results

\* A turn of the loop, or its end, that leaves the interfaces and the rotation
\* alone, or only halts the current interface.
LEMMA QuietInv ==
  ASSUME RetryInv, pc # "idle", Quiet,
         (net_restarted' \/ net_state' = "RESTART") =>
           (net_restarted \/ net_state = "RESTART" \/ timer = "again"),
         pc' = "idle" => timer' = "none",
         pc' = "restart" => net_restarted'
  PROVE  RetryInv'
<1>0. TypeOK /\ OneInterface /\ eth_current \in Devices  BY Zenon DEF RetryInv
<1>1. TypeOK'
  <2>1. {ethrotate', net_restarted', net_dev_exists', net_restart_wrap', faulted'}
          \subseteq BOOLEAN
    BY <1>0, Zenon DEF TypeOK, Quiet, settings
  <2> QED BY Zenon, <1>0, <2>1 DEF TypeOK, Quiet, Results, settings, Devices, Forever, eth_halt
<1>2. OneInterface' /\ eth_current' \in Devices
  BY Zenon, <1>0 DEF OneInterface, Quiet, eth_halt
<1>3. pc' = "idle" \/ (pc' = "restart" /\ ~net_restarted') => timer' = "none"
  BY Zenon
<1>4. ASSUME ~faulted' PROVE RotationInv'
  <2>1. RotationInv  BY <1>4, Zenon DEF RetryInv, Quiet
  <2>2. ArcVisited' <=> ArcVisited
    BY Zenon DEF ArcVisited, Quiet, Plus, Devices
  <2>3. timer' = "again" => timer = "again"  BY Zenon DEF Quiet
  <2>4. /\ net_restart_wrap' = net_restart_wrap /\ eth_current' = eth_current
        /\ visited' = visited /\ ethrotate' = ethrotate
    BY Zenon DEF Quiet, settings
  <2> QED BY <2>1, <2>2, <2>3, <2>4, Zenon DEF RotationInv, Devices
<1> QED BY <1>1, <1>2, <1>3, <1>4, Zenon DEF RetryInv, Devices

\* A command starts on the interface that ethact or ethprime names, or on the
\* first one after it that comes up; it fails when there is none.
LEMMA NetLoopInv ==
  ASSUME RetryInv, net_loop
  PROVE  RetryInv'
<1>0. /\ TypeOK /\ eth_halt = {} /\ pc = "idle" /\ timer = "none"
      /\ ~faulted => net_restart_wrap = FALSE
  BY Zenon, HaltsAll DEF RetryInv, net_loop, RotationInv
<1>1. /\ net_restarted' = FALSE /\ net_dev_exists' = FALSE /\ net_try_count' = 1
      /\ net_state' = "CONTINUE" /\ UNCHANGED <<settings, first_failed, timer>>
  BY Zenon DEF net_loop
<1>2. PICK c \in 0..N :
     \/ /\ c = 0 /\ eth_current' = 0 /\ up' = eth_halt
        /\ ret' = "error" /\ visited' = {}
        /\ UNCHANGED <<pc, net_restart_wrap, faulted>>
     \/ /\ c # 0
        /\ \E o \in eth_init(c, first_failed, net_restart_wrap) :
          /\ eth_current' = o.cur /\ net_restart_wrap' = o.wrap
          /\ visited' = o.seen /\ faulted' = (faulted \/ o.fault)
          /\ IF o.ok
             THEN pc' = "restart" /\ ret' = "zero" /\ up' = eth_halt \cup {o.cur}
             ELSE pc' = "idle" /\ ret' = "error" /\ up' = eth_halt \ {o.cur}
  BY Zenon DEF net_loop, eth_set_current
<1>3. CASE c = 0
  <2>1. /\ eth_current' = 0 /\ up' = {} /\ ret' = "error" /\ visited' = {}
        /\ pc' = "idle" /\ net_restart_wrap' = net_restart_wrap /\ faulted' = faulted
    BY <1>0, <1>2, <1>3, Zenon
  <2>2. {ethrotate', net_restarted', net_dev_exists', net_restart_wrap', faulted'}
          \subseteq BOOLEAN
    BY <1>0, <1>1, <2>1, Zenon DEF TypeOK, settings
  <2>3. TypeOK'
    BY <1>0, <1>1, <2>1, <2>2, NetRetryAssumption DEF TypeOK, settings, Devices, Forever
  <2>4. ~faulted' => RotationInv'
    <3>1. timer' # "again"  BY Zenon, <1>0, <1>1
    <3> QED BY <1>0, <1>1, <2>1, <3>1, Zenon DEF RotationInv
  <2> QED BY Zenon, <1>0, <1>1, <2>1, <2>3, <2>4 DEF RetryInv, OneInterface
<1>4. CASE c # 0
  <2>1. PICK o \in eth_init(c, first_failed, net_restart_wrap) :
          /\ eth_current' = o.cur /\ net_restart_wrap' = o.wrap
          /\ visited' = o.seen /\ faulted' = (faulted \/ o.fault)
          /\ IF o.ok
             THEN pc' = "restart" /\ ret' = "zero" /\ up' = eth_halt \cup {o.cur}
             ELSE pc' = "idle" /\ ret' = "error" /\ up' = eth_halt \ {o.cur}
    BY <1>2, <1>4, Zenon
  <2>2. c \in Devices /\ net_restart_wrap \in BOOLEAN
    BY <1>0, <1>4, NetRetryAssumption DEF TypeOK, Devices
  <2>3. /\ o.cur \in Devices /\ o.seen \subseteq Devices
        /\ o.wrap \in BOOLEAN /\ o.fault \in BOOLEAN
        /\ ~o.fault => o.cur = c /\ o.seen = {c} /\ o.wrap = net_restart_wrap
    BY <2>2, EthInit, ZenonT(30)
  <2>4. /\ pc' \in {"restart", "idle"} /\ ret' \in {"zero", "error"}
        /\ up' \subseteq {eth_current'} /\ eth_current' \in Devices
    BY Zenon, <1>0, <2>1, <2>3
  <2>5. {ethrotate', net_restarted', net_dev_exists', net_restart_wrap', faulted'}
          \subseteq BOOLEAN
    BY <1>0, <1>1, <2>1, <2>3, Zenon DEF TypeOK, settings
  <2>6. visited' \subseteq Devices  BY Zenon, <2>1, <2>3
  <2>7. TypeOK'
    BY <1>0, <1>1, <2>4, <2>5, <2>6, NetRetryAssumption DEF TypeOK, settings, Devices, Forever
  <2>8. ASSUME ~faulted' PROVE RotationInv'
    <3>1. ~faulted /\ ~o.fault  BY <2>1, <2>8, Zenon
    <3>2. net_restart_wrap' = FALSE /\ eth_current' = c /\ visited' = {c}
      BY <1>0, <2>1, <2>3, <3>1, Zenon
    <3>3. timer' # "again" /\ net_state' # "RESTART" /\ eth_current' \in visited'
      BY Zenon, <1>0, <1>1, <3>2
    <3> QED BY <1>1, <3>2, <3>3, Zenon DEF RotationInv
  <2>9. timer' = "none"  BY Zenon, <1>0, <1>1
  <2> QED BY <2>4, <2>7, <2>8, <2>9, Zenon DEF RetryInv, OneInterface, Devices
<1> QED BY Zenon, <1>3, <1>4

\* The label restart: it ends the call, starts the protocol, or
\* net_check_prereq has called net_start_again.
LEMMA StartInv ==
  ASSUME RetryInv, Start
  PROVE  RetryInv'
<1>0. TypeOK /\ pc = "restart" /\ UNCHANGED <<settings, net_restarted>>
  BY Zenon DEF RetryInv, Start
<1>1. CASE /\ 1 \in net_check_prereq /\ pc' = "idle" /\ up' = eth_halt /\ ret' = "error"
           /\ UNCHANGED <<net_state, net_dev_exists, net_try_count, net_restart_wrap,
                          first_failed, eth_current, timer, visited, faulted>>
  <2>1. ~net_restarted  BY <1>1 DEF net_check_prereq
  <2>2. timer = "none"  BY <1>0, <2>1, Zenon DEF RetryInv
  <2>3. {net_restarted', net_dev_exists'} \subseteq BOOLEAN
    BY <1>0, <1>1, Zenon DEF TypeOK
  <2>4. Quiet  BY Zenon, <1>0, <1>1, <2>3 DEF Quiet, TypeOK, Results
  <2>5. net_restarted' => net_restarted  BY <1>0, Zenon
  <2> QED BY Zenon, <1>0, <1>1, <2>2, <2>4, <2>5, QuietInv
<1>2. CASE /\ 0 \in net_check_prereq /\ pc' = "poll"
           /\ net_dev_exists' = TRUE /\ timer' = "proto"
           /\ UNCHANGED <<net_state, net_try_count, net_restart_wrap, first_failed,
                          eth_current, up, ret, visited, faulted>>
  <2>1. {net_restarted', net_dev_exists'} \subseteq BOOLEAN
    BY <1>0, <1>2, Zenon DEF TypeOK
  <2>2. Quiet  BY Zenon, <1>0, <1>2, <2>1 DEF Quiet, TypeOK, Results
  <2>3. net_restarted' => net_restarted  BY <1>0, Zenon
  <2> QED BY Zenon, <1>0, <1>2, <2>2, <2>3, QuietInv
<1>3. CASE /\ pc' = "poll"
           /\ \E rc \in {"zero", "error"} : net_start_again(timer, rc)
           /\ UNCHANGED <<net_dev_exists, ret>>
  <2>1. PICK rc : net_start_again(timer, rc)  BY Zenon, <1>3
  <2>2. ret' \in Results  BY Zenon, <1>0, <1>3 DEF TypeOK, Results
  <2> QED BY Zenon, <1>0, <1>3, <2>1, <2>2, AgainInv
<1> QED BY <1>1, <1>2, <1>3, Zenon DEF Start

\* A packet, or a time-out of the protocol.
LEMMA ProtocolInv ==
  ASSUME RetryInv, pc # "idle", NEW handler, handler \in {timer, "none"}, Protocol(handler),
         UNCHANGED <<settings, net_restarted, net_dev_exists, ret>>,
         pc' \in {"rx", "switch"}
  PROVE  RetryInv'
<1>0. TypeOK /\ ret' \in Results  BY Zenon DEF RetryInv, TypeOK, Results
<1>1. CASE /\ net_state' \in {"SUCCESS", "FAIL"} /\ timer' = handler
           /\ up' = IF net_state' = "FAIL" THEN eth_halt ELSE up
           /\ UNCHANGED <<net_try_count, net_restart_wrap, first_failed, eth_current,
                          visited, faulted>>
  <2>1. {net_restarted', net_dev_exists'} \subseteq BOOLEAN
    BY <1>0, Zenon DEF TypeOK
  <2>2. Quiet  BY Zenon, <1>0, <1>1, <2>1 DEF Quiet
  <2>3. net_restarted' => net_restarted  BY Zenon
  <2> QED BY Zenon, <1>1, <2>2, <2>3, QuietInv
<1>2. CASE \E rc \in {"zero", "error"} : net_start_again(handler, rc)
  <2>1. PICK rc : net_start_again(handler, rc)  BY Zenon, <1>2
  <2> QED BY Zenon, <1>0, <2>1, AgainInv
<1> QED BY <1>1, <1>2, Zenon DEF Protocol

\* Every step of net_loop, of the protocol and of the user keeps RetryInv.
LEMMA StepRetries ==
  ASSUME RetryInv, [Next]_vars
  PROVE  RetryInv'
<1>0. TypeOK  BY Zenon DEF RetryInv
<1>1. CASE SetEnv
  <2>1. {ethrotate', net_restarted', net_dev_exists', net_restart_wrap', faulted'}
          \subseteq BOOLEAN
    BY <1>0, <1>1, NetRetryAssumption, Zenon DEF TypeOK, SetEnv
  <2>2. TypeOK'
    BY Zenon, <1>0, <1>1, <2>1, NetRetryAssumption DEF TypeOK, SetEnv, Devices, Forever
  <2>3. ~faulted' => RotationInv'
    BY <1>1, Zenon DEF SetEnv, RetryInv, RotationInv, Devices
  <2> QED BY <1>1, <2>2, <2>3, Zenon DEF SetEnv, RetryInv, OneInterface, Devices
<1>2. CASE net_loop  BY Zenon, <1>2, NetLoopInv
<1>3. CASE Rx
  BY Zenon, <1>3, ProtocolInv DEF Rx
<1>4. CASE arp_timeout_check
  <2>1. PICK rc : net_start_again(timer, rc)  BY Zenon, <1>4 DEF arp_timeout_check
  <2>2. ret' \in Results  BY Zenon, <1>0, <1>4 DEF TypeOK, Results, arp_timeout_check
  <2> QED BY Zenon, <1>4, <2>1, <2>2, AgainInv DEF arp_timeout_check
<1>5. CASE Start  BY Zenon, <1>5, StartInv
<1>6. CASE TimeOut
  BY Zenon, <1>6, ProtocolInv DEF TimeOut
<1>7. CASE SwitchFail
  <2>1. net_start_again(timer, ret') /\ pc # "idle"  BY Zenon, <1>7 DEF SwitchFail, AtSwitch
  <2>2. timer \in {"none", "proto", "again"}  BY Zenon, <1>0 DEF TypeOK
  <2>3. ret' \in Results  BY Zenon, <2>1, <2>2, AgainTypes DEF Results
  <2> QED BY Zenon, <1>7, <2>1, <2>3, AgainInv DEF SwitchFail
<1>8. CASE \/ start_again_timeout_handler \/ SwitchContinue \/ SwitchRestart
           \/ SwitchSuccess \/ SwitchFailed \/ CtrlC
  <2> USE DEF start_again_timeout_handler, SwitchContinue, SwitchRestart,
              SwitchSuccess, SwitchFailed, CtrlC
  <2>1. {net_restarted', net_dev_exists'} \subseteq BOOLEAN
    BY <1>0, <1>8, Zenon DEF TypeOK
  <2>2. Quiet /\ pc # "idle"
    BY Zenon, <1>0, <1>8, <2>1 DEF Quiet, TypeOK, Results, AtSwitch
  <2>3. (net_restarted' \/ net_state' = "RESTART") =>
          (net_restarted \/ net_state = "RESTART" \/ timer = "again")
    <3>1. CASE start_again_timeout_handler  BY <3>1, Zenon
    <3>2. CASE SwitchRestart  BY <3>2, Zenon
    <3>3. CASE SwitchContinue \/ SwitchSuccess \/ SwitchFailed \/ CtrlC  BY <3>3, Zenon
    <3> QED BY Zenon, <1>8, <3>1, <3>2, <3>3
  <2>4. (pc' = "idle" => timer' = "none") /\ (pc' = "restart" => net_restarted')
    BY Zenon, <1>8 DEF AtSwitch
  <2> QED BY Zenon, <2>2, <2>3, <2>4, QuietInv
<1>9. CASE UNCHANGED vars
  <2>1. /\ pc' = pc /\ net_state' = net_state /\ net_restarted' = net_restarted
        /\ net_dev_exists' = net_dev_exists /\ net_try_count' = net_try_count
        /\ net_restart_wrap' = net_restart_wrap /\ first_failed' = first_failed
        /\ eth_current' = eth_current /\ up' = up /\ timer' = timer /\ ret' = ret
        /\ visited' = visited /\ faulted' = faulted
        /\ ethrotate' = ethrotate /\ netretry' = netretry
    BY Zenon, <1>9 DEF vars, settings
  <2>2. TypeOK'  BY <1>0, <2>1, ZenonT(30) DEF TypeOK
  <2>3. OneInterface' /\ (~faulted' => RotationInv')
    BY <2>1, Zenon DEF RetryInv, OneInterface, RotationInv, ArcVisited
  <2> QED BY <2>1, <2>2, <2>3, Zenon DEF RetryInv
<1> QED BY <1>1, <1>2, <1>3, <1>4, <1>5, <1>6, <1>7, <1>8, <1>9, Zenon DEF Next, Loop

\* RetryInv holds throughout.
LEMMA RetryInvariant == Spec => []RetryInv
<1>1. Init => RetryInv
  <2> SUFFICES ASSUME Init PROVE RetryInv  BY Zenon
  <2>1. {ethrotate, net_restarted, net_dev_exists, net_restart_wrap, faulted}
          \subseteq BOOLEAN
    BY NetRetryAssumption, Zenon DEF Init
  <2>2. TypeOK
    BY <2>1, NetRetryAssumption DEF Init, TypeOK, Devices, Forever
  <2> QED BY Zenon, <2>2 DEF Init, RetryInv, OneInterface, RotationInv
<1>2. RetryInv /\ [Next]_vars => RetryInv'  BY Zenon, StepRetries
<1> QED BY <1>1, <1>2, PTL DEF Spec

-----------------------------------------------------------------------------
(* net_loop's counters and state stay within their types; in particular    *)
(* net_try_count stays within what netretry allows, and an operation runs  *)
(* on an interface that exists.                                            *)
THEOREM NetLoopTypes == Spec => []TypeOK
<1>1. RetryInv => TypeOK  BY Zenon DEF RetryInv
<1> QED BY <1>1, RetryInvariant, PTL

(* However the interfaces fail and the retries rotate through them, at     *)
(* most the current one is left running.                                   *)
THEOREM OneInterfaceRuns == Spec => []OneInterface
<1>1. RetryInv => OneInterface  BY Zenon DEF RetryInv
<1> QED BY <1>1, RetryInvariant, PTL

(* With any number of interfaces, the ten second pause comes only after    *)
(* the rotation has been all the way round.                                *)
THEOREM PausesAfterAll == Spec => []PauseAfterAll
<1>1. RetryInv => PauseAfterAll  BY Zenon DEF RetryInv, RotationInv, PauseAfterAll
<1> QED BY <1>1, RetryInvariant, PTL
=============================================================================
