-------------------------------- MODULE Dhcp --------------------------------
(***************************************************************************)
(* The DHCP client, net/bootp.c, from the first DISCOVER to the lease, and *)
(* the loading of the boot file by NFS that may follow in the same command *)
(* (net_auto_load).  The servers are external.  A broadcast is heard by    *)
(* some of them, and a server drops a lease when it hears that the client  *)
(* requests one from another.                                              *)
(***************************************************************************)
EXTENDS Nfs, Sequences, Functions

CONSTANTS
  Servers,        \* a server is the number of the address it gives
  Gateways,       \* the servers that name a gateway: themselves
  NextServers,    \* the servers that name one to load from (siaddr): themselves
  serverip,       \* the server to load from that the environment names
  CONFIG_BOOTP_ID_CACHE_SIZE,
  LongWords,      \* sizeof(ulong) / sizeof(u32)
  MaxRequests,    \* how many DISCOVERs the client sends before TIMEOUT_MS
  Delay,          \* a server's OFFER takes as long as this many retransmissions
  FirstHeard,     \* in a good network the link is up for this DISCOVER and later ones
  Autoloads       \* what autoload may be: "no", "NFS"

ASSUME DhcpAssumption ==
  /\ Servers \subseteq Nat \ {0} /\ Gateways \subseteq Servers
  /\ NextServers \subseteq Servers /\ serverip \in Nat \ {0}
  /\ CONFIG_BOOTP_ID_CACHE_SIZE \in Nat \ {0} /\ LongWords \in 1..2
  /\ MaxRequests \in Nat \ {0} /\ Delay \in Nat /\ FirstHeard \in Nat \ {0}

VARIABLES
  autoload,
  dhcp_state,
  bootp_try,               \* also the id of the latest DISCOVER
  bootp_ids,
  dhcp_server_ip, net_server_ip,
  wire,                    \* the replies on their way
  lease                    \* at each server: the client's address is leased

dhcpVars == <<autoload, dhcp_state, bootp_try, bootp_ids, dhcp_server_ip, net_server_ip,
              wire, lease>>

Reply_(t, i, s) == [type |-> t, id |-> i, server |-> s]

\* the servers that may have heard a broadcast
Heard == IF network = "good" THEN {Servers} ELSE SUBSET Servers
HeardDiscover(try) == IF network = "good" /\ try < FirstHeard THEN {{}} ELSE Heard

-----------------------------------------------------------------------------
\* Mutant: the cache holds on to its oldest ids.
KeepOldest(id) ==
  IF Len(bootp_ids) < CONFIG_BOOTP_ID_CACHE_SIZE THEN Append(bootp_ids, id)
  ELSE [bootp_ids EXCEPT ![Len(bootp_ids)] = id]

\* When the cache is full the ids move down, all of them when a ulong is as
\* long as an id, and the new one is last.
bootp_add_id(id) ==
  IF Len(bootp_ids) < CONFIG_BOOTP_ID_CACHE_SIZE THEN Append(bootp_ids, id)
  ELSE [k \in 1..Len(bootp_ids) |->
          CASE k = Len(bootp_ids) -> id
            [] k <= Len(bootp_ids) - LongWords -> bootp_ids[k + 1]
            [] OTHER -> bootp_ids[k]]

\* a DISCOVER is sent, with the packets in old still on their way
bootp_request(try, ids, old) ==
  /\ bootp_try' = try /\ bootp_ids' = ids
  /\ dhcp_state' = "SELECTING"
  /\ udp_packet_handler' = "dhcp" /\ time_handler' = "bootp"
  /\ \E heard \in HeardDiscover(try) :
       wire' = old \cup {Reply_("OFFER", try, s) : s \in heard}
  /\ UNCHANGED <<dhcp_server_ip, net_server_ip, lease>>

\* net_loop(DHCP) after a restart too: bootp_reset forgets the ids
dhcp_start ==
  /\ net_ip' = 0 /\ bootp_request(1, <<1>>, {})
  /\ UNCHANGED <<net_gateway, nfsVars>>

do_dhcp == NetEnter("DHCP") /\ dhcp_start /\ autoload' \in Autoloads

dhcp_restart == NetRestart("DHCP") /\ dhcp_start /\ UNCHANGED autoload

\* what a slow server says comes when the client has asked Delay more times
Arrives(p) == network = "good" /\ p.type = "OFFER" => bootp_try - p.id >= Delay

bootp_timeout_handler ==
  /\ network = "good" => net_state = "CONTINUE" /\ \A p \in wire : ~Arrives(p)
  /\ \/ /\ bootp_try < MaxRequests
        /\ bootp_request(bootp_try + 1, bootp_add_id(bootp_try + 1),
                         IF network = "lossy" THEN {} ELSE wire)
        /\ UNCHANGED <<autoload, net_state, net_try_count>>
     \/ /\ bootp_try = MaxRequests \/ network # "good"
        /\ net_start_again /\ time_handler' = "none"
        /\ UNCHANGED <<udp_packet_handler, dhcpVars>>
  /\ TimesOut("bootp")
  /\ UNCHANGED <<addrVars, nfsVars>>

-----------------------------------------------------------------------------
\* Mutant: a gateway once set is kept.
OptionsOnce(p) ==
  /\ dhcp_server_ip' = p.server
  /\ net_gateway' = IF p.server \in Gateways /\ net_gateway = 0 THEN p.server ELSE net_gateway

dhcp_process_options(p) ==
  /\ dhcp_server_ip' = p.server
  /\ net_gateway' = IF p.server \in Gateways THEN p.server ELSE net_gateway

\* The request for what packet p offers.  The server answers, unless p offers
\* nothing; the other servers that hear it take their lease back.
dhcp_send_request_packet(p, old) ==
  \E heard \in Heard :
  \E answer \in IF p.type = "NAK" \/ p.server \notin heard THEN {"none"}
                ELSE IF network = "good" THEN {"ACK"} ELSE {"ACK", "NAK"} :
    /\ wire' = old \cup (IF answer = "none" THEN {} ELSE {Reply_(answer, p.id, p.server)})
    /\ lease' = [s \in Servers |-> IF s \in heard THEN s = p.server /\ answer = "ACK"
                                   ELSE lease[s]]

\* the ids are of no more use once NFS has the handlers
net_auto_load ==
  IF autoload = "NFS"
  THEN nfs_start /\ bootp_ids' = <<>> /\ bootp_try' = 0 /\ UNCHANGED net_state
  ELSE net_state' = "SUCCESS" /\ UNCHANGED <<handlers, bootp_ids, bootp_try, nfsVars>>

\* a reply without siaddr leaves the server to load from as it is
store_net_params(p) ==
  /\ net_server_ip' = IF p.server \in NextServers THEN p.server ELSE net_server_ip
  /\ net_ip' = p.server

\* Mutant: any answer to the REQUEST is good.
AnyAnswer(p) == TRUE

IsAck(p) == p.type = "ACK"

\* the id of the packet is in the cache
check_packet(p) == p.id \in Range(bootp_ids)

(* A packet with an id of the cache.  While selecting any packet is taken  *)
(* for an OFFER.  It may come again.                                       *)
dhcp_handler ==
  \E p \in wire : \E old \in {wire \ {p}} \cup (IF network = "lossy" THEN {wire} ELSE {}) :
    /\ Receives("dhcp") /\ Arrives(p)
    /\ UNCHANGED autoload
    /\ \/ /\ check_packet(p) /\ dhcp_state = "SELECTING"
          /\ dhcp_state' = "REQUESTING" /\ time_handler' = "bootp"
          /\ dhcp_process_options(p) /\ dhcp_send_request_packet(p, old)
          /\ UNCHANGED <<udp_packet_handler, net_state, net_ip, net_server_ip, bootp_ids, bootp_try,
                         nfsVars>>
       \/ /\ check_packet(p) /\ dhcp_state = "REQUESTING" /\ IsAck(p)
          /\ dhcp_state' = "BOUND" /\ wire' = {}
          /\ dhcp_process_options(p) /\ store_net_params(p) /\ net_auto_load
          /\ UNCHANGED lease
       \/ /\ \/ ~check_packet(p) \/ dhcp_state = "BOUND"
             \/ dhcp_state = "REQUESTING" /\ ~IsAck(p)
          /\ wire' = wire \ {p}
          /\ UNCHANGED <<handlers, net_state, addrVars, dhcp_state, dhcp_server_ip,
                         net_server_ip, bootp_ids, bootp_try, lease, nfsVars>>

DhcpInit ==
  /\ autoload = "no" /\ dhcp_state = "INIT" /\ bootp_try = 0 /\ bootp_ids = <<>>
  /\ dhcp_server_ip = 0 /\ net_server_ip = serverip /\ wire = {}
  /\ lease = [s \in Servers |-> FALSE]

DhcpNext ==
  \/ do_dhcp \/ dhcp_restart \/ bootp_timeout_handler \/ dhcp_handler
  \/ /\ \/ NetAbort("DHCP") \/ \E ok \in BOOLEAN : NetDone("DHCP", ok)
     /\ UNCHANGED <<addrVars, dhcpVars, nfsVars>>

-----------------------------------------------------------------------------
\* When the dhcp command ends well the client uses an address that a server
\* has leased to it and not taken back, with whatever servers answer and
\* however many DISCOVERs and REQUESTs were lost or repeated, unless answers
\* come after the time-out: an ACK the client gave up waiting for is then
\* taken for the answer of another server.
DhcpLease ==
  command = "DHCP" /\ net_state = "SUCCESS" /\ network # "late" =>
    net_ip \in Servers /\ lease[net_ip]

\* What the client goes by comes from the server of its address: the server id,
\* and, if that server names them, the gateway and the server to load from.  A
\* reply that names none deletes none: what the environment or an earlier reply
\* named is still there.
DhcpParams ==
  command = "DHCP" /\ net_state = "SUCCESS" =>
    /\ net_ip = dhcp_server_ip
    /\ net_ip \in Gateways => net_gateway = net_ip
    /\ net_ip \in NextServers => net_server_ip = net_ip
    /\ net_server_ip \in {serverip} \cup NextServers
=============================================================================
