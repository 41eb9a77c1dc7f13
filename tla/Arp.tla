-------------------------------- MODULE Arp ---------------------------------
(***************************************************************************)
(* Who gets the packets: net_send_udp_packet (net/net.c), ping (ping.c)    *)
(* and the ARP client (arp.c).  There is one transmit buffer: a packet     *)
(* waits in it until the hardware address of its next hop is known.        *)
(*                                                                         *)
(* A host is identified with its hardware address.  The hosts, and the     *)
(* protocols above net_send_udp_packet, are external: "udp" is one that    *)
(* forgets net_server_ethaddr when it starts (tftp.c, nfs.c, dns.c and     *)
(* sntp.c do), and "dhcp" one that broadcasts and gets us an address.      *)
(***************************************************************************)
EXTENDS Integers

CONSTANTS
  Hosts,               \* other hosts
  Local,               \* those on our net
  net_gateway_ip,      \* one of them, 0 for none
  ARP_TIMEOUT_COUNT

ASSUME ArpAssumption ==
  /\ Hosts \subseteq Nat \ {0} /\ Local \subseteq Hosts
  /\ net_gateway_ip \in Local \cup {0} /\ ARP_TIMEOUT_COUNT \in Nat

VARIABLES
  loop,                \* net_loop: "idle", "run", "success", or "pause" when
                       \* it waits to start again
  op,                  \* the protocol and its host
  has_ip,              \* net_ip is not 0
  net_tx_packet,       \* the packet in the buffer: its protocol and host
  net_server_ethaddr,  \* 0 for not known
  net_arp_wait_packet_ip, net_arp_wait_reply_ip,
  arp_wait_packet_ethaddr,   \* it points to net_server_ethaddr
  arp_wait_tx_packet_size,   \* the protocol whose packet has this size
  arp_wait_try,
  asked,               \* the hosts that were asked, and may answer (again)
  sent,                \* the last frame sent
  out                  \* history: the packet in the buffer has been sent

waitVars == <<net_arp_wait_packet_ip, net_arp_wait_reply_ip, arp_wait_packet_ethaddr,
              arp_wait_tx_packet_size, arp_wait_try>>
arpVars == <<loop, op, has_ip, net_tx_packet, net_server_ethaddr, waitVars, asked,
             sent, out>>

Bcast == -1
NoOp == [proto |-> "none", host |-> 0]
Frame(mac, packet, size) ==
  [mac |-> mac, host |-> packet.host, proto |-> packet.proto, size |-> size]

\* where a packet for a host goes first
NextHop(h) == IF h \in Local \/ net_gateway_ip = 0 THEN h ELSE net_gateway_ip

arp_request(h) ==
  net_arp_wait_reply_ip' = NextHop(h) /\ asked' = asked \cup {NextHop(h)}

\* the packet is in the buffer, and its next hop is asked for
Wait(packet, pointer) ==
  /\ net_tx_packet' = packet /\ net_arp_wait_packet_ip' = packet.host
  /\ arp_wait_packet_ethaddr' = pointer /\ arp_wait_tx_packet_size' = packet.proto
  /\ arp_wait_try' = 1 /\ arp_request(packet.host)
  /\ out' = FALSE /\ UNCHANGED sent

\* ether is what net_server_ethaddr holds by now, try what arp_wait_try does
net_send_udp_packet(packet, ether, try) ==
  IF packet.host # Bcast /\ ether = 0 THEN Wait(packet, TRUE)
  ELSE /\ net_tx_packet' = packet /\ out' = TRUE
       /\ sent' = Frame(IF packet.host = Bcast THEN Bcast ELSE ether, packet, packet.proto)
       /\ arp_wait_try' = try
       /\ UNCHANGED <<net_arp_wait_packet_ip, net_arp_wait_reply_ip,
                      arp_wait_packet_ethaddr, arp_wait_tx_packet_size, asked>>

\* ping leaves the pointer as it was
ping_send(packet) == Wait(packet, arp_wait_packet_ethaddr)

\* Mutant: the server of an earlier command is not forgotten.
ForgetNone(o) == net_server_ethaddr

\* what a protocol that starts leaves in net_server_ethaddr
Forget(o) == IF o.proto = "udp" THEN 0 ELSE net_server_ethaddr

\* the label restart of net_loop
StartProtocol(o, try) ==
  /\ loop' = "run" /\ op' = o /\ has_ip' = (has_ip /\ o.proto # "dhcp")
  /\ net_server_ethaddr' = Forget(o)
  /\ IF o.proto = "ping" THEN ping_send(o) ELSE net_send_udp_packet(o, Forget(o), try)

\* net_start_again gives up, starts the protocol again, or pauses before; the
\* pause does not take back a success
net_start_again(try) ==
  \/ StartProtocol(op, try)
  \/ /\ loop' \in {"idle", IF loop = "success" THEN "success" ELSE "pause"}
     /\ arp_wait_try' = try
     /\ UNCHANGED <<op, has_ip, net_tx_packet, net_server_ethaddr,
                    net_arp_wait_packet_ip, net_arp_wait_reply_ip,
                    arp_wait_packet_ethaddr, arp_wait_tx_packet_size, asked, sent, out>>

-----------------------------------------------------------------------------
\* ping needs an address of our own, and so does what "udp" stands for
Command ==
  /\ loop = "idle"
  /\ \/ \E h \in Hosts, p \in {"ping", "udp"} :
          has_ip /\ StartProtocol([proto |-> p, host |-> h], arp_wait_try)
     \/ StartProtocol([proto |-> "dhcp", host |-> Bcast], arp_wait_try)

Awaited(h) == h = net_arp_wait_reply_ip

\* arp_receive, ARPOP_REPLY: the packet that waits is sent
arp_receive ==
  \E h \in asked :
    /\ loop # "idle" /\ has_ip /\ net_arp_wait_packet_ip # 0 /\ Awaited(h)
    /\ net_server_ethaddr' = IF arp_wait_packet_ethaddr THEN h ELSE net_server_ethaddr
    /\ sent' = Frame(h, net_tx_packet, arp_wait_tx_packet_size) /\ out' = TRUE
    /\ net_arp_wait_packet_ip' = 0 /\ arp_wait_tx_packet_size' = "none"
    /\ arp_wait_packet_ethaddr' = FALSE
    /\ UNCHANGED <<loop, op, has_ip, net_tx_packet, net_arp_wait_reply_ip, arp_wait_try,
                   asked>>

\* Mutant: when the last try has had no answer, nothing is waited for any more.
GiveUp ==
  /\ arp_wait_try' = 0 /\ net_arp_wait_packet_ip' = 0
  /\ UNCHANGED <<loop, op, has_ip, net_tx_packet, net_server_ethaddr,
                 net_arp_wait_reply_ip, arp_wait_packet_ethaddr,
                 arp_wait_tx_packet_size, asked, sent, out>>

TriesOver == net_start_again(0)

\* a wait that an earlier command has left is timed as well
arp_timeout_check ==
  /\ loop # "idle" /\ net_arp_wait_packet_ip # 0
  /\ \/ arp_wait_try + 1 >= ARP_TIMEOUT_COUNT /\ TriesOver
     \/ /\ arp_wait_try + 1 < ARP_TIMEOUT_COUNT
        /\ arp_wait_try' = arp_wait_try + 1 /\ arp_request(net_arp_wait_packet_ip)
        /\ UNCHANGED <<loop, op, has_ip, net_tx_packet, net_server_ethaddr,
                       net_arp_wait_packet_ip, arp_wait_packet_ethaddr,
                       arp_wait_tx_packet_size, sent, out>>

\* the timer of the protocol: it sends once more, or has another try
TimeOut ==
  \/ /\ loop = "run" /\ op.proto # "ping" /\ UNCHANGED <<loop, op, has_ip, net_server_ethaddr>>
     /\ net_send_udp_packet(op, net_server_ethaddr, arp_wait_try)
  \/ loop = "run" /\ net_start_again(arp_wait_try)
  \/ loop = "pause" /\ StartProtocol(op, arp_wait_try)

\* an answer to what was sent: the protocol sends more, or has succeeded
Receive ==
  /\ loop = "run" /\ out
  /\ \/ /\ loop' = "success" /\ has_ip' = TRUE
        /\ UNCHANGED <<op, net_tx_packet, net_server_ethaddr, waitVars, asked, sent, out>>
     \/ /\ op.proto # "ping" /\ UNCHANGED <<loop, op, has_ip, net_server_ethaddr>>
        /\ net_send_udp_packet(op, net_server_ethaddr, arp_wait_try)

\* arp_receive and ping_receive answer whoever asks, out of the receive buffer
Reply ==
  /\ loop # "idle" /\ has_ip
  /\ \E h \in Hosts : sent' = Frame(NextHop(h), [proto |-> "reply", host |-> h], "reply")
  /\ UNCHANGED <<loop, op, has_ip, net_tx_packet, net_server_ethaddr, waitVars, asked, out>>

Success ==
  /\ loop = "success" /\ loop' = "idle"
  /\ UNCHANGED <<op, has_ip, net_tx_packet, net_server_ethaddr, waitVars, asked, sent, out>>

CtrlC ==
  /\ loop # "idle" /\ loop' = "idle" /\ net_arp_wait_packet_ip' = 0
  /\ UNCHANGED <<op, has_ip, net_tx_packet, net_server_ethaddr, net_arp_wait_reply_ip,
                 arp_wait_packet_ethaddr, arp_wait_tx_packet_size, arp_wait_try, asked,
                 sent, out>>

ArpInit ==
  /\ loop = "idle" /\ op = NoOp /\ has_ip = TRUE /\ net_tx_packet = NoOp
  /\ net_server_ethaddr = 0 /\ net_arp_wait_packet_ip = 0 /\ net_arp_wait_reply_ip = 0
  /\ arp_wait_packet_ethaddr = FALSE /\ arp_wait_tx_packet_size = "none"
  /\ arp_wait_try = 0 /\ asked = {} /\ sent = Frame(Bcast, NoOp, "none") /\ out = FALSE

ArpNext ==
  \/ Command \/ arp_receive \/ arp_timeout_check \/ TimeOut \/ Receive \/ Reply
  \/ Success \/ CtrlC

ArpSpec == ArpInit /\ [][ArpNext]_arpVars

-----------------------------------------------------------------------------
\* A packet for a host goes to that host or to the gateway, whole, even if the
\* answer to an earlier ARP request is late, a command before this one ended
\* while its packet still waited, or it left its server in net_server_ethaddr.
\* (A broadcast may go out again to the host an earlier command has asked.)
FrameRight ==
  sent.host # Bcast /\ sent.proto # "none" =>
    sent.mac = NextHop(sent.host) /\ sent.size = sent.proto

\* A protocol that waits for an answer has asked: its packet is out, or waits
\* for the address of its own next hop.
PacketKept ==
  loop = "run" /\ ~out =>
    /\ net_tx_packet = op /\ net_arp_wait_packet_ip = op.host
    /\ net_arp_wait_reply_ip = NextHop(op.host)
=============================================================================
