------------------------------ MODULE LinkLocal -----------------------------
(***************************************************************************)
(* The linklocal command, net/link_local.c and do_link_local of            *)
(* common/cmd_net.c: probe for an address, announce it, use it.  Another   *)
(* host that has the address says so; link_local_receive_arp, which would  *)
(* give the address up, has no caller, and arp_receive ignores the packet. *)
(***************************************************************************)
EXTENDS NetCmd

CONSTANTS
  LinkLocals,       \* addresses of 169.254/16, numbered
  Taken,            \* those that another host has
  PROBE_NUM, ANNOUNCE_NUM

ASSUME LinkLocalAssumption ==
  LinkLocals \subseteq Nat \ {0} /\ LinkLocals # {} /\ Taken \subseteq LinkLocals

VARIABLES
  ll_state, ll_ip,   \* state and ip of link_local.c
  nprobes, nclaims,
  llipaddr,          \* the environment variable, 0 when not set
  claimed            \* history: another host has answered for ll_ip

llVars == <<ll_state, ll_ip, nprobes, nclaims, llipaddr, claimed>>

\* link_local_start, with the address of the last time, else a random one
link_local_start ==
  /\ ll_ip' \in IF llipaddr = 0 THEN LinkLocals ELSE {llipaddr}
  /\ IF ll_ip' \notin LinkLocals
     THEN net_state' = "FAIL" /\ UNCHANGED <<ll_state, nprobes, nclaims, time_handler>>
     ELSE /\ ll_state' = "PROBE" /\ nprobes' = 0 /\ nclaims' = 0
          /\ time_handler' = "ll" /\ net_state' = "CONTINUE"
  /\ claimed' = FALSE
  /\ UNCHANGED <<udp_packet_handler, llipaddr, addrVars>>

link_local_enter ==
  /\ command = "none" /\ command' = "LINKLOCAL" /\ net_try_count' = 1
  /\ link_local_start /\ UNCHANGED <<network, timed_out>>

link_local_restart ==
  /\ command = "LINKLOCAL" /\ net_state = "RESTART" /\ timed_out' = FALSE
  /\ link_local_start /\ UNCHANGED <<network, command, net_try_count>>

\* a probe, an announcement, or the end of the negotiation
link_local_timeout ==
  /\ \/ /\ ll_state = "PROBE" /\ nprobes < PROBE_NUM /\ nprobes' = nprobes + 1
        /\ UNCHANGED <<ll_state, nclaims, net_ip, net_state, time_handler>>
     \/ /\ ll_state = "PROBE" /\ nprobes >= PROBE_NUM
        /\ ll_state' = "ANNOUNCE" /\ nclaims' = 0
        /\ UNCHANGED <<nprobes, net_ip, net_state, time_handler>>
     \/ /\ ll_state = "ANNOUNCE" /\ nclaims < ANNOUNCE_NUM /\ nclaims' = nclaims + 1
        /\ UNCHANGED <<ll_state, nprobes, net_ip, net_state, time_handler>>
     \/ /\ ll_state = "ANNOUNCE" /\ nclaims >= ANNOUNCE_NUM
        /\ ll_state' = "MONITOR" /\ net_ip' = ll_ip
        /\ time_handler' = "none" /\ net_state' = "SUCCESS"
        /\ UNCHANGED <<nprobes, nclaims>>
  /\ TimesOut("ll")
  /\ UNCHANGED <<udp_packet_handler, net_try_count, net_gateway, ll_ip, llipaddr, claimed>>

\* The host that has the address answers a probe or an announcement: to
\* arp_receive the packet is not for net_ip.
Answer ==
  /\ command = "LINKLOCAL" /\ net_state = "CONTINUE" /\ ll_ip \in Taken
  /\ nprobes > 0 /\ ~claimed /\ claimed' = TRUE
  /\ UNCHANGED <<loopVars, addrVars, ll_state, ll_ip, nprobes, nclaims, llipaddr>>

\* The end of do_link_local: the address in use becomes ipaddr and llipaddr
\* when net_loop returned no error.
do_link_local_end ==
  \/ /\ NetDone("LINKLOCAL", TRUE) \/ NetAbort("LINKLOCAL")
     /\ net_gateway' = 0 /\ llipaddr' = net_ip
     /\ UNCHANGED <<net_ip, ll_state, ll_ip, nprobes, nclaims, claimed>>
  \/ NetDone("LINKLOCAL", FALSE) /\ UNCHANGED <<addrVars, llVars>>

LinkLocalInit ==
  /\ ll_state = "DISABLED" /\ ll_ip = 0 /\ nprobes = 0 /\ nclaims = 0
  /\ llipaddr = 0 /\ claimed = FALSE

LinkLocalNext ==
  \/ link_local_enter \/ link_local_restart \/ link_local_timeout \/ Answer
  \/ do_link_local_end
=============================================================================
