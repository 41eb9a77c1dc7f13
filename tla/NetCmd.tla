------------------------------- MODULE NetCmd -------------------------------
(***************************************************************************)
(* What net_loop (net/net.c) gives every protocol it runs: the state it    *)
(* polls, one packet handler, one time-out handler, and another try after  *)
(* a failure.  NetRetry has the loop in full; here a try that goes on to   *)
(* the next interface, or pauses first, is a restart of the protocol.      *)
(* The network and the peers are external, and of one of three kinds:      *)
(*   "good"   nothing is lost or refused once the link is up, or comes in  *)
(*            the turn its time-out expires, and nobody presses ctrl-C     *)
(*   "lossy"  packets are lost or repeated and peers refuse, but what      *)
(*            comes at all comes before the time-out that waits for it     *)
(*   "late"   peers refuse, and packets also come after it                 *)
(***************************************************************************)
EXTENDS Integers

CONSTANTS
  Networks,           \* the kinds of network a behaviour may have
  MaxTries,           \* netretry: how often a command may be tried
  ipaddr              \* the address of the environment the board starts with

ASSUME NetCmdAssumption ==
  /\ MaxTries \in Nat \ {0} /\ ipaddr \in Nat
  /\ Networks \subseteq {"good", "lossy", "late"}

VARIABLES
  network,
  command,              \* the command whose net_loop runs, or "none"
  net_state, net_try_count,
  timed_out,            \* in this turn of the loop a time-out has expired
  udp_packet_handler, time_handler,       \* "none", or whose handler it is
  net_ip, net_gateway   \* 0 for none

handlers == <<udp_packet_handler, time_handler>>
loopVars == <<network, command, net_state, net_try_count, timed_out, handlers>>
addrVars == <<net_ip, net_gateway>>

NetInit ==
  /\ network \in Networks /\ command = "none" /\ net_state = "CONTINUE"
  /\ net_try_count = 0 /\ timed_out = FALSE
  /\ udp_packet_handler = "none" /\ time_handler = "none"
  /\ net_ip = ipaddr /\ net_gateway = 0

\* net_loop is entered; the protocol's start function sets the handlers
NetEnter(protocol) ==
  /\ command = "none" /\ command' = protocol
  /\ net_state' = "CONTINUE" /\ net_try_count' = 1 /\ UNCHANGED <<network, timed_out>>

\* eth_rx gives a packet to the handler, also when an earlier packet of this
\* turn has ended the command
Receives(handler) ==
  /\ net_state \in {"CONTINUE", "SUCCESS", "FAIL"} /\ ~timed_out
  /\ udp_packet_handler = handler
  /\ UNCHANGED <<network, command, net_try_count, timed_out>>

\* The handler of the time-out that expires runs, after eth_rx and before the
\* switch: also when a packet of this turn has ended the command.
TimesOut(handler) ==
  /\ net_state \in {"CONTINUE", "SUCCESS", "FAIL"} /\ ~timed_out
  /\ time_handler = handler
  /\ timed_out' = (net_state' # "CONTINUE")
  /\ UNCHANGED <<network, command>>

net_start_again ==
  IF net_try_count < MaxTries
  THEN net_state' = "RESTART" /\ net_try_count' = net_try_count + 1
  ELSE net_state' = "FAIL" /\ UNCHANGED net_try_count

\* the label restart of net_loop
NetRestart(protocol) ==
  /\ command = protocol /\ net_state = "RESTART" /\ net_state' = "CONTINUE"
  /\ timed_out' = FALSE /\ UNCHANGED <<network, command, net_try_count>>

NetLeave ==
  /\ command' = "none" /\ udp_packet_handler' = "none" /\ time_handler' = "none"
  /\ timed_out' = FALSE /\ UNCHANGED <<network, net_try_count>>

\* The switch ends the call; ok says that net_loop does not return an error,
\* which is so even after a failure when net_start_again only armed a pause.
NetDone(protocol, ok) ==
  /\ command = protocol /\ net_state \in {"SUCCESS", "FAIL"} /\ NetLeave
  /\ ok = (net_state = "SUCCESS" \/ net_try_count < MaxTries)
  /\ UNCHANGED net_state

\* ctrl-C: net_loop returns what eth_init did, which is no error either
NetAbort(protocol) ==
  /\ command = protocol /\ network # "good" /\ ~timed_out /\ net_state # "RESTART"
  /\ net_state' = "CONTINUE" /\ NetLeave

\* a failure that net_loop retries
NetAgain ==
  /\ command # "none" /\ net_state = "FAIL" /\ net_try_count < MaxTries
  /\ net_start_again /\ UNCHANGED <<network, command, timed_out, handlers>>
=============================================================================
