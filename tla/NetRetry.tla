------------------------------ MODULE NetRetry ------------------------------
(***************************************************************************)
(* How net_loop (net/net.c) retries a failed network operation, and how    *)
(* the retries rotate through the network interfaces (net/eth.c without    *)
(* driver model).  The protocol that runs is external: a packet or a       *)
(* time-out makes it succeed, fail or ask for another try.                 *)
(***************************************************************************)
EXTENDS Integers, FiniteSets

CONSTANTS
  N,          \* number of interfaces, linked in a ring
  Broken,     \* interfaces whose init function may fail
  NoAddr,     \* interfaces without a MAC address
  NoServer,   \* TRUE: serverip may be unset
  Rotates,    \* what ethrotate may be set to, FALSE for "no"
  Retries,    \* what netretry may be set to
  MaxTry,     \* bound: net_try_count under netretry=yes
  MayAbort    \* TRUE: ctrl-C may be pressed

Devices == 1..N

\* netretry as a number: 0 for "no" or unset, 1 for "once", Forever for "yes"
Forever == MaxTry + 1

ASSUME NetRetryAssumption ==
  /\ N \in Nat \ {0} /\ MaxTry \in Nat \ {0}
  /\ Rotates \subseteq BOOLEAN /\ Retries \subseteq 0..Forever
  /\ Broken \subseteq Devices /\ NoAddr \subseteq Devices

VARIABLES
  ethrotate, netretry,   \* the environment variables, read during a call
  pc,               \* "idle" outside net_loop, else the place in its code
  net_state, net_restarted, net_dev_exists, net_try_count, net_restart_wrap,
  first_failed,     \* the static variable of eth_try_another, 0 for none
  eth_current,      \* 0 for none
  up,               \* the interfaces in ETH_STATE_ACTIVE
  timer,            \* time_handler: "none", "proto", "again"
  ret,              \* what net_loop returns: "zero", "error", "size"
  visited,          \* history: the interfaces tried in this call
  faulted           \* history: an interface has failed to come up

settings == <<ethrotate, netretry>>
vars == <<settings, pc, net_state, net_restarted, net_dev_exists, net_try_count,
          net_restart_wrap, first_failed, eth_current, up, timer, ret,
          visited, faulted>>

-----------------------------------------------------------------------------
\* Mutant: the list is not a ring.
PlusNoWrap(c, k) == c + k

\* the interface k places further in the ring
Plus(c, k) == ((c - 1 + k) % N) + 1

(* eth_init from interface c: it tries the interfaces in turn until one    *)
(* comes up; k of them fail.  eth_try_another raises wrap when it gets to  *)
(* the interface ff; with ethrotate=no it stays on c.                      *)
Outcome(c, k, ff, wrap, good) ==
  [cur |-> Plus(c, k), ok |-> good, fault |-> k > 0 \/ ~good,
   seen |-> {Plus(c, j) : j \in 0..k},
   wrap |-> wrap \/ \E j \in 1..k : Plus(c, j) = ff]

eth_init(c, ff, wrap) ==
  LET Fails(k) == \A j \in 0..(k - 1) : Plus(c, j) \in Broken
      Reach == IF ethrotate THEN N ELSE 1
  IN {Outcome(c, k, ff, wrap, TRUE) : k \in {i \in 0..(Reach - 1) : Fails(i)}}
     \cup (IF Fails(Reach) THEN {Outcome(c, IF ethrotate THEN N ELSE 0, ff, wrap, FALSE)} ELSE {})

\* Mutant: the interface is left running.
eth_halt_missing == up

\* the interfaces still active after eth_halt
eth_halt == up \ {eth_current}

\* Mutant: the tries are not counted.
NotCounted == net_try_count

Counted ==
  IF netretry = Forever /\ net_try_count = MaxTry THEN MaxTry ELSE net_try_count + 1

\* Mutant: the first interface that failed is remembered for good.
FirstFailedOnce == IF first_failed = 0 THEN eth_current ELSE first_failed

\* eth_try_another(!net_restarted)
FirstFailed == IF ethrotate /\ ~net_restarted THEN eth_current ELSE first_failed

(* net_start_again, called with time_handler being handler.  It gives up;  *)
(* or it goes on to the next interface and restarts at once, or after a    *)
(* pause when all have been tried.  rc is what it returns.                 *)
net_start_again(handler, rc) ==
  \/ /\ netretry # Forever /\ net_try_count >= netretry
     /\ up' = eth_halt /\ net_state' = "FAIL" /\ rc = "error"
     /\ timer' = handler
     /\ UNCHANGED <<net_try_count, net_restart_wrap, first_failed, eth_current,
                    visited, faulted>>
  \/ /\ netretry = Forever \/ net_try_count < netretry
     /\ net_try_count' = Counted /\ first_failed' = FirstFailed
     /\ LET c == IF ethrotate THEN Plus(eth_current, 1) ELSE eth_current
            wrap == net_restart_wrap \/ (ethrotate /\ c = first_failed')
        IN \E o \in eth_init(c, first_failed', wrap) :
             /\ rc = IF o.ok THEN "zero" ELSE "error"
             /\ eth_current' = o.cur
             /\ visited' = visited \cup o.seen /\ faulted' = (faulted \/ o.fault)
             /\ up' = eth_halt \cup (IF o.ok THEN {o.cur} ELSE {})
             /\ net_restart_wrap' = FALSE
             /\ timer' = IF o.wrap /\ net_dev_exists THEN "again" ELSE handler
             /\ net_state' = CASE ~o.wrap -> "RESTART"
                              [] o.wrap /\ net_dev_exists -> net_state
                              [] o.wrap /\ ~net_dev_exists -> "FAIL"

-----------------------------------------------------------------------------
\* setenv; no other command runs while net_loop does
SetEnv ==
  /\ pc = "idle" /\ ethrotate' \in Rotates /\ netretry' \in Retries
  /\ UNCHANGED <<pc, net_state, net_restarted, net_dev_exists, net_try_count,
                 net_restart_wrap, first_failed, eth_current, up, timer, ret,
                 visited, faulted>>

\* what eth_set_current may make the current interface: the one named in
\* ethact or ethprime, none if there is no such interface
eth_set_current == 0..N

net_loop ==
  /\ pc = "idle"
  /\ net_restarted' = FALSE /\ net_dev_exists' = FALSE /\ net_try_count' = 1
  /\ net_state' = "CONTINUE" /\ UNCHANGED <<settings, first_failed, timer>>
  /\ \E c \in eth_set_current :
     \/ /\ c = 0 /\ eth_current' = 0 /\ up' = eth_halt
        /\ ret' = "error" /\ visited' = {}
        /\ UNCHANGED <<pc, net_restart_wrap, faulted>>
     \/ /\ c # 0
        /\ \E o \in eth_init(c, first_failed, net_restart_wrap) :
          /\ eth_current' = o.cur /\ net_restart_wrap' = o.wrap
          /\ visited' = o.seen /\ faulted' = (faulted \/ o.fault)
          /\ IF o.ok
             THEN pc' = "restart" /\ ret' = "zero" /\ up' = eth_halt \cup {o.cur}
             ELSE pc' = "idle" /\ ret' = "error" /\ up' = eth_halt \ {o.cur}

\* what net_check_prereq may return: 1 for a setting that is missing, 2 for
\* an interface without a MAC address
net_check_prereq ==
  (IF NoServer /\ ~net_restarted THEN {1} ELSE {})
    \cup {IF eth_current \in NoAddr THEN 2 ELSE 0}

\* the label restart; in case 2 net_check_prereq has called net_start_again
Start ==
  /\ pc = "restart"
  /\ \/ /\ 1 \in net_check_prereq /\ pc' = "idle" /\ up' = eth_halt /\ ret' = "error"
        /\ UNCHANGED <<net_state, net_dev_exists, net_try_count, net_restart_wrap,
                       first_failed, eth_current, timer, visited, faulted>>
     \/ /\ 0 \in net_check_prereq /\ pc' = "poll"
        /\ net_dev_exists' = TRUE /\ timer' = "proto"
        /\ UNCHANGED <<net_state, net_try_count, net_restart_wrap, first_failed,
                       eth_current, up, ret, visited, faulted>>
     \/ /\ 2 \in net_check_prereq /\ pc' = "poll"
        /\ \E rc \in {"zero", "error"} : net_start_again(timer, rc)
        /\ UNCHANGED <<net_dev_exists, ret>>
  /\ UNCHANGED <<settings, net_restarted>>

(* The polling loop.  eth_rx may hand several packets to the protocol;     *)
(* then ARP and the time-out handler may run; then net_state is looked at. *)
(* The protocol stops the interface when it fails.                         *)
Protocol(handler) ==
  \/ /\ net_state' \in {"SUCCESS", "FAIL"} /\ timer' = handler
     /\ up' = IF net_state' = "FAIL" THEN eth_halt ELSE up
     /\ UNCHANGED <<net_try_count, net_restart_wrap, first_failed, eth_current,
                    visited, faulted>>
  \/ \E rc \in {"zero", "error"} : net_start_again(handler, rc)

Rx ==
  /\ pc \in {"poll", "rx"} /\ timer = "proto"
  /\ pc' = "rx" /\ Protocol(timer)
  /\ UNCHANGED <<settings, net_restarted, net_dev_exists, ret>>

\* An ARP request has had no answer.  It stays pending when the pause begins,
\* and may end it.
arp_timeout_check ==
  /\ pc \in {"poll", "rx"} /\ timer # "none"
  /\ pc' = "arp" /\ \E rc \in {"zero", "error"} : net_start_again(timer, rc)
  /\ UNCHANGED <<settings, net_restarted, net_dev_exists, ret>>

TimeOut ==
  /\ pc \in {"poll", "rx", "arp"} /\ timer = "proto"
  /\ pc' = "switch" /\ Protocol("none")
  /\ UNCHANGED <<settings, net_restarted, net_dev_exists, ret>>

start_again_timeout_handler ==
  /\ pc \in {"poll", "rx", "arp"} /\ timer = "again"
  /\ pc' = "switch" /\ net_state' = "RESTART" /\ timer' = "none"
  /\ UNCHANGED <<settings, net_restarted, net_dev_exists, net_try_count,
                 net_restart_wrap, first_failed, eth_current, up, ret,
                 visited, faulted>>

CtrlC ==
  /\ MayAbort /\ pc \in {"poll", "rx"} /\ pc' = "idle"
  /\ up' = eth_halt /\ timer' = "none"
  /\ UNCHANGED <<settings, net_state, net_restarted, net_dev_exists, net_try_count,
                 net_restart_wrap, first_failed, eth_current, ret, visited, faulted>>

AtSwitch == pc \in {"poll", "rx", "arp", "switch"}

SwitchContinue ==
  /\ pc \in {"rx", "arp", "switch"} /\ net_state = "CONTINUE" /\ pc' = "poll"
  /\ UNCHANGED <<settings, net_state, net_restarted, net_dev_exists, net_try_count,
                 net_restart_wrap, first_failed, eth_current, up, timer, ret,
                 visited, faulted>>

SwitchRestart ==
  /\ AtSwitch \/ pc = "failed"
  /\ net_state = "RESTART"
  /\ pc' = "restart" /\ net_restarted' = TRUE /\ net_state' = "CONTINUE"
  /\ UNCHANGED <<settings, net_dev_exists, net_try_count, net_restart_wrap,
                 first_failed, eth_current, up, timer, ret, visited, faulted>>

SwitchSuccess ==
  /\ AtSwitch /\ net_state = "SUCCESS"
  /\ pc' = "idle" /\ timer' = "none" /\ up' = eth_halt /\ ret' = "size"
  /\ UNCHANGED <<settings, net_state, net_restarted, net_dev_exists, net_try_count,
                 net_restart_wrap, first_failed, eth_current, visited, faulted>>

\* net_start_again has another go before the failure is final
SwitchFail ==
  /\ AtSwitch /\ net_state = "FAIL" /\ pc' = "failed"
  /\ net_start_again(timer, ret')
  /\ UNCHANGED <<settings, net_restarted, net_dev_exists>>

SwitchFailed ==
  /\ pc = "failed" /\ net_state = "FAIL"
  /\ pc' = "idle" /\ timer' = "none"
  /\ UNCHANGED <<settings, net_state, net_restarted, net_dev_exists, net_try_count,
                 net_restart_wrap, first_failed, eth_current, up, ret,
                 visited, faulted>>

-----------------------------------------------------------------------------
Init ==
  /\ ethrotate \in Rotates /\ netretry \in Retries
  /\ pc = "idle" /\ net_state = "CONTINUE" /\ net_restarted = FALSE
  /\ net_dev_exists = FALSE /\ net_try_count = 0 /\ net_restart_wrap = FALSE
  /\ first_failed = 0 /\ eth_current \in Devices /\ up = {} /\ timer = "none"
  /\ ret = "none" /\ visited = {} /\ faulted = FALSE

Loop ==
  \/ Start \/ TimeOut \/ start_again_timeout_handler \/ SwitchContinue
  \/ SwitchRestart \/ SwitchSuccess \/ SwitchFail \/ SwitchFailed

Next == SetEnv \/ net_loop \/ Rx \/ arp_timeout_check \/ Loop \/ CtrlC

Spec == Init /\ [][Next]_vars

\* net_loop polls until it is done: eth_rx returns after the packets it has,
\* and every protocol's own time-outs end a try that gets no answer.
LoopSpec == Spec /\ WF_vars(Loop)

-----------------------------------------------------------------------------
\* net_loop, its counters and the interfaces are in one of their states.
TypeOK ==
  /\ pc \in {"idle", "restart", "poll", "rx", "arp", "switch", "failed"}
  /\ net_state \in {"CONTINUE", "RESTART", "SUCCESS", "FAIL"}
  /\ {ethrotate, net_restarted, net_dev_exists, net_restart_wrap,
      faulted} \subseteq BOOLEAN
  /\ netretry \in 0..Forever /\ net_try_count \in 0..MaxTry
  /\ {first_failed, eth_current} \subseteq 0..N
  /\ up \subseteq Devices /\ visited \subseteq Devices
  /\ timer \in {"none", "proto", "again"}
  /\ ret \in {"none", "zero", "error", "size"}

\* The rotation never leaves two interfaces running, and what runs is the
\* current one: every path out of an interface goes through eth_halt, failed
\* inits and user changes of ethact included.
OneInterface == up \subseteq {eth_current}

\* net_loop pauses for ten seconds, instead of going on with the next
\* interface at once, only when it has tried them all; unless an interface
\* has failed to come up, in this call or an earlier one, which leaves
\* net_restart_wrap set.
PauseAfterAll == timer = "again" /\ ~faulted => visited = Devices

\* With a bounded netretry, an operation ends: every way through
\* net_start_again counts a try or gives up.
Ends == (pc # "idle" /\ netretry # Forever) ~> (pc = "idle")

\* net_loop returns without error only when the protocol has succeeded.
NoErrorIsSuccess == pc = "idle" => ret # "zero"
=============================================================================
