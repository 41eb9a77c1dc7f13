-------------------------- MODULE NetClientsProofs --------------------------
(***************************************************************************)
(* Proofs about NetClients, for every file, every size of a read, every    *)
(* chain of links, any set of DHCP servers and every session: what an NFS  *)
(* load has loaded, why one fails, and what a DHCP lease rests on.         *)
(***************************************************************************)
EXTENDS NetClients, TLAPS

Loading == udp_packet_handler = "nfs"

\* the first n bytes of the file are in memory
Filled(n) == \A a \in 0..(n - 1) : memory[a] = <<Hops, a>>

(* What is in memory while nfs_handler has the packets.  Before the file   *)
(* is read nothing is.  While it is read the latest call is for the next   *)
(* byte, and what a link's READ returns is never data.                     *)
NfsReading ==
  /\ call.proc = "READ" /\ call.file = filefh /\ call.offset = nfs_offset
  /\ nfs_offset \in 0..FileLen /\ net_boot_file_size = nfs_offset
  /\ Filled(nfs_offset) /\ nfs_download_state = "FAIL"
  /\ filefh # Hops => nfs_offset = 0

NfsStateInv ==
  /\ nfs_state \in Procs
  /\ nfs_state \in Procs \ {"READ", "UMOUNT"} =>
       net_boot_file_size = 0 /\ nfs_download_state = "FAIL"
  /\ nfs_state = "READ" => NfsReading
  /\ nfs_download_state = "SUCCESS" => net_boot_file_size = FileLen /\ Filled(FileLen)

(* Who has the handlers.  A success is not left to a protocol that starts  *)
(* later: DHCP hands over to NFS only when it has had none itself.         *)
HandlerInv ==
  /\ time_handler = "nfs" => Loading
  /\ time_handler = "ll" => udp_packet_handler = "none"
  /\ time_handler = "bootp" => udp_packet_handler = "dhcp"
  /\ command \in {"none", "LINKLOCAL"} => udp_packet_handler = "none"
  /\ udp_packet_handler = "dhcp" /\ net_state = "SUCCESS" /\ ~timed_out =>
       dhcp_state = "BOUND"
  /\ Loading /\ net_state = "SUCCESS" => nfs_download_state = "SUCCESS"

NfsInv ==
  /\ DOMAIN memory = 0..(FileLen - 1)
  /\ Loading => NfsStateInv
  /\ HandlerInv

(* Why nfs.c gives up.  It unmounts without the file only after a refusal  *)
(* or a late reply, and NFS never takes over a command that has failed.    *)
FailureInv ==
  /\ Loading /\ nfs_state = "UMOUNT" /\ nfs_download_state # "SUCCESS" =>
       refused \/ (dropped /\ network = "late")
  /\ udp_packet_handler = "dhcp" /\ net_state = "FAIL" => timed_out
  /\ nfs_timeout_count \in Nat /\ refused \in BOOLEAN
  /\ NfsFailure

\* the client has an address and what belongs to it
Configured ==
  /\ net_ip = dhcp_server_ip
  /\ net_ip \in Gateways => net_gateway = net_ip
  /\ net_ip \in NextServers => net_server_ip = net_ip

Leased == net_ip \in Servers /\ lease[net_ip]

\* the server to load from is one that somebody named
Named == net_server_ip \in {serverip} \cup NextServers

\* DHCP has come to its end in this command
DhcpDone ==
  \/ net_state = "SUCCESS" \/ Loading
  \/ udp_packet_handler = "dhcp" /\ dhcp_state = "BOUND"

(* What is on its way.  Unless packets come late, no ACK is left from an   *)
(* earlier request when the client selects, and an ACK that is on its way  *)
(* comes from a server that holds the lease.                               *)
WireInv ==
  /\ \A p \in wire : p.server \in Servers
  /\ udp_packet_handler = "dhcp" /\ network # "late" =>
       \A p \in wire : IsAck(p) =>
         dhcp_state # "SELECTING" /\ (dhcp_state = "REQUESTING" => lease[p.server])

DhcpInv ==
  /\ network \in {"good", "lossy", "late"}
  /\ command = "DHCP" => udp_packet_handler \in {"dhcp", "nfs"}
  /\ WireInv
  /\ Named
  /\ command = "DHCP" /\ DhcpDone => Configured /\ (network # "late" => Leased)

USE NetCmdAssumption, NfsAssumption

-----------------------------------------------------------------------------
\* What the server says to a READ call.
LEMMA ReadReplies ==
  ASSUME NEW r \in Replies(call), call.proc = "READ", call.offset \in 0..FileLen
  PROVE  /\ r.tag = "link" => call.file # Hops
         /\ r.tag = "data" => /\ call.file = Hops /\ r.len \in 0..(FileLen - call.offset)
                              /\ r.len = 0 => call.offset = FileLen
<1>1. CASE call.file # Hops
  <2>1. r.tag \in {"error", "link"}
    BY <1>1 DEF Replies
  <2> QED BY Zenon, <1>1, <2>1
<1>2. CASE call.file = Hops
  <2>1. \/ r = [tag |-> "error"]
        \/ \E n \in IF call.offset >= FileLen THEN {0}
                    ELSE 1..Bound(NFS_READ_SIZE, FileLen - call.offset) :
              r = [tag |-> "data", len |-> n]
    BY Zenon, <1>2 DEF Replies
  <2> QED BY <1>2, <2>1 DEF Bound
<1> QED BY Zenon, <1>1, <1>2

\* nfs_start begins with nothing loaded.
LEMMA StartLoads ==
  ASSUME NfsInv, nfs_start, command' \notin {"none", "LINKLOCAL"},
         net_state' # "SUCCESS"
  PROVE  NfsInv'
<1>1. /\ nfs_state' = "PORT_MOUNT" /\ net_boot_file_size' = 0
      /\ nfs_download_state' = "FAIL" /\ memory' = memory
      /\ time_handler' = "nfs" /\ udp_packet_handler' = "nfs"
  BY Zenon DEF nfs_start
<1> QED BY Zenon, <1>1 DEF NfsInv, NfsStateInv, HandlerInv, Loading, Procs

\* The handlers, in a step of nfs.c.
LEMMA HandlersKept ==
  ASSUME NfsInv, Loading, command' = command, udp_packet_handler' = udp_packet_handler,
         time_handler' \in {"none", "nfs", time_handler},
         net_state' = "SUCCESS" => nfs_download_state' = "SUCCESS"
  PROVE  HandlerInv'
BY Zenon DEF NfsInv, HandlerInv, Loading

\* A step of nfs.c that loads nothing and does not end in the state READ.
LEMMA NothingLoaded ==
  ASSUME NfsInv, Loading, command' = command, udp_packet_handler' = udp_packet_handler,
         time_handler' \in {"none", "nfs", time_handler},
         UNCHANGED <<loaded, nfs_download_state>>,
         net_state' \in {net_state, nfs_download_state, "FAIL", "RESTART"},
         nfs_state' \in Procs \ {"READ"},
         nfs_state' = "UMOUNT" \/ (net_boot_file_size = 0 /\ nfs_download_state = "FAIL")
  PROVE  NfsInv'
<1>1. HandlerInv'
  BY Zenon, HandlersKept DEF NfsInv, HandlerInv
<1>2. UNCHANGED <<memory, net_boot_file_size, nfs_download_state>>
  BY Zenon DEF loaded
<1> QED BY Zenon, <1>1, <1>2 DEF NfsInv, NfsStateInv, Filled, Loading

\* The replies of the port mapper.
LEMMA PortLoads == NfsInv /\ RecvPort => NfsInv'
<1> SUFFICES ASSUME NfsInv, RecvPort PROVE NfsInv'
  BY Zenon
<1>1. /\ Loading /\ nfs_state \in {"PORT_MOUNT", "PORT_NFS"}
      /\ UNCHANGED <<command, udp_packet_handler, time_handler, net_state, loaded,
                     nfs_download_state>>
      /\ nfs_state' \in {"PORT_NFS", "MOUNT"}
  BY Zenon DEF RecvPort, Reply, Receives, Go, Loading
<1> QED BY Zenon, <1>1, NothingLoaded DEF NfsInv, NfsStateInv, Procs

\* The reply to MOUNT.
LEMMA MountLoads == NfsInv /\ RecvMount => NfsInv'
<1> SUFFICES ASSUME NfsInv, RecvMount PROVE NfsInv'
  BY Zenon
<1>1. /\ Loading /\ nfs_state = "MOUNT"
      /\ UNCHANGED <<command, udp_packet_handler, time_handler, net_state, loaded,
                     nfs_download_state>>
      /\ nfs_state' \in {"UMOUNT", "LOOKUP"}
  BY Zenon DEF RecvMount, Reply, Receives, Go, Loading
<1> QED BY Zenon, <1>1, NothingLoaded DEF NfsInv, NfsStateInv, Procs

\* The reply to READLINK.
LEMMA ReadlinkLoads == NfsInv /\ RecvReadlink => NfsInv'
<1> SUFFICES ASSUME NfsInv, RecvReadlink PROVE NfsInv'
  BY Zenon
<1>1. /\ Loading /\ nfs_state = "READLINK"
      /\ UNCHANGED <<command, udp_packet_handler, time_handler, net_state, loaded,
                     nfs_download_state>>
      /\ nfs_state' \in {"UMOUNT", "MOUNT"}
  BY Zenon DEF RecvReadlink, Reply, Receives, Go, Loading
<1> QED BY Zenon, <1>1, NothingLoaded DEF NfsInv, NfsStateInv, Procs

\* The reply to UMOUNT: the outcome of the reading is the outcome of the command.
LEMMA UmountLoads == NfsInv /\ RecvUmount => NfsInv'
<1> SUFFICES ASSUME NfsInv, RecvUmount PROVE NfsInv'
  BY Zenon
<1>1. /\ Loading /\ nfs_state = "UMOUNT" /\ nfs_state' = nfs_state
      /\ UNCHANGED <<command, udp_packet_handler, time_handler, loaded,
                     nfs_download_state>>
      /\ net_state' \in {"FAIL", nfs_download_state}
  BY Zenon DEF RecvUmount, Reply, Receives, progress, Loading
<1> QED BY Zenon, <1>1, NothingLoaded DEF Procs

\* A late reply while reading ends the reading, without a success.
LEMMA OldLoads == NfsInv /\ RecvOld => NfsInv'
<1> SUFFICES ASSUME NfsInv, RecvOld PROVE NfsInv'
  BY Zenon
<1>1. /\ Loading /\ nfs_state' = "UMOUNT" /\ time_handler' = "nfs"
      /\ UNCHANGED <<command, udp_packet_handler, net_state, loaded, nfs_download_state>>
  BY Zenon DEF RecvOld, Receives, Go, Loading
<1> QED BY Zenon, <1>1, NothingLoaded DEF NfsInv, NfsStateInv, Procs

\* A file is read from its first byte on.
LEMMA LookupLoads == NfsInv /\ RecvLookup => NfsInv'
<1> SUFFICES ASSUME NfsInv, RecvLookup PROVE NfsInv'
  BY Zenon
<1>1. /\ Loading /\ nfs_state = "LOOKUP"
      /\ UNCHANGED <<command, udp_packet_handler, time_handler, net_state, loaded,
                     nfs_download_state>>
      /\ \/ nfs_state' = "UMOUNT"
         \/ nfs_state' = "READ" /\ nfs_offset' = 0 /\ nfs_send
  BY Zenon DEF RecvLookup, Reply, Receives, Go, Loading
<1>2. CASE nfs_state' = "UMOUNT"
  BY Zenon, <1>1, <1>2, NothingLoaded DEF NfsInv, NfsStateInv, Procs
<1>3. CASE nfs_state' = "READ"
  <2>1. net_boot_file_size = 0 /\ nfs_download_state = "FAIL"
    BY Zenon, <1>1 DEF NfsInv, NfsStateInv, Procs
  <2>2. call'.proc = "READ" /\ call'.file = filefh' /\ call'.offset = nfs_offset'
    BY <1>1, <1>3 DEF nfs_send
  <2>3. NfsReading'
    BY <1>1, <1>3, <2>1, <2>2 DEF NfsReading, Filled, loaded
  <2>4. HandlerInv'
    BY Zenon, <1>1, HandlersKept DEF NfsInv, HandlerInv
  <2> QED BY Zenon, <1>1, <1>3, <2>1, <2>3, <2>4 DEF NfsInv, NfsStateInv, Procs, loaded
<1> QED BY Zenon, <1>1, <1>2, <1>3

\* Data goes to the end of what is loaded, and only the end of the file is a
\* success.
LEMMA ReadLoads == NfsInv /\ RecvRead => NfsInv'
<1>0. SUFFICES ASSUME NfsInv, NEW r \in Replies(call), Reply(r), nfs_state = "READ",
                    time_handler' = "nfs", UNCHANGED <<statics, nfs_path>>,
                    \/ /\ r.tag = "data" /\ r.len > 0
                       /\ memory' = [a \in DOMAIN memory |->
                                       IF a \in nfs_offset..(nfs_offset + r.len - 1)
                                       THEN <<call.file, call.offset + a - nfs_offset>>
                                       ELSE memory[a]]
                       /\ net_boot_file_size' =
                            IF net_boot_file_size < nfs_offset + r.len
                            THEN nfs_offset + r.len ELSE net_boot_file_size
                       /\ nfs_offset' = nfs_offset + r.len
                       /\ UNCHANGED nfs_download_state /\ Go("READ")
                    \/ /\ r.tag = "link"
                       /\ UNCHANGED <<loaded, nfs_offset, nfs_download_state>> /\ Go("READLINK")
                    \/ /\ r.tag = "error" \/ (r.tag = "data" /\ r.len = 0)
                       /\ nfs_download_state' = Downloaded(r)
                       /\ UNCHANGED <<loaded, nfs_offset>> /\ Go("UMOUNT")
             PROVE  NfsInv'
  BY Zenon DEF RecvRead
<1>1. Loading /\ UNCHANGED <<command, udp_packet_handler, net_state>> /\ NfsReading
  BY Zenon, <1>0 DEF Reply, Receives, Go, Loading, NfsInv, NfsStateInv
<1>2. /\ r.tag = "link" => filefh # Hops
      /\ r.tag = "data" => /\ filefh = Hops /\ r.len \in 0..(FileLen - nfs_offset)
                           /\ r.len = 0 => nfs_offset = FileLen
  BY Zenon, <1>0, <1>1, ReadReplies DEF NfsReading
<1>3. net_state # "SUCCESS"
  BY Zenon, <1>0, <1>1 DEF NfsInv, HandlerInv, NfsReading
<1>4. HandlerInv'
  BY Zenon, <1>0, <1>1, <1>3, HandlersKept
<1>5. CASE r.tag = "data" /\ r.len > 0
  <2>1. /\ nfs_state' = "READ" /\ nfs_send /\ UNCHANGED <<filefh, nfs_download_state>>
        /\ nfs_offset' = nfs_offset + r.len
        /\ memory' = [a \in DOMAIN memory |->
                        IF a \in nfs_offset..(nfs_offset + r.len - 1)
                        THEN <<call.file, call.offset + a - nfs_offset>> ELSE memory[a]]
        /\ net_boot_file_size' = IF net_boot_file_size < nfs_offset + r.len
                                 THEN nfs_offset + r.len ELSE net_boot_file_size
    BY <1>0, <1>5 DEF Go, statics
  <2>2. call'.proc = "READ" /\ call'.file = filefh' /\ call'.offset = nfs_offset'
    BY <2>1 DEF nfs_send
  <2>3. DOMAIN memory' = 0..(FileLen - 1) /\ nfs_offset' \in 0..FileLen
        /\ net_boot_file_size' = nfs_offset'
    <3>1. /\ DOMAIN memory = 0..(FileLen - 1) /\ nfs_offset \in 0..FileLen
          /\ r.len \in 0..(FileLen - nfs_offset) /\ r.len > 0
          /\ net_boot_file_size = nfs_offset
      BY Zenon, <1>0, <1>1, <1>2, <1>5 DEF NfsReading, NfsInv
    <3>2. /\ DOMAIN memory' = DOMAIN memory /\ nfs_offset' = nfs_offset + r.len
          /\ net_boot_file_size' = IF net_boot_file_size < nfs_offset + r.len
                                   THEN nfs_offset + r.len ELSE net_boot_file_size
      BY Zenon, <2>1
    <3>3. nfs_offset' \in 0..FileLen /\ net_boot_file_size' = nfs_offset'
      BY ONLY <3>1, <3>2, NfsAssumption
    <3> QED BY Zenon, <3>1, <3>2, <3>3
  <2>4. Filled(nfs_offset)'
    <3>1. /\ call.file = Hops /\ call.offset = nfs_offset /\ Filled(nfs_offset)
          /\ nfs_offset \in 0..FileLen /\ r.len \in 1..(FileLen - nfs_offset)
          /\ DOMAIN memory = 0..(FileLen - 1)
      BY ONLY <1>0, <1>1, <1>2, <1>5 DEF NfsReading, NfsInv
    <3> SUFFICES ASSUME NEW a \in 0..(nfs_offset' - 1)
                 PROVE  memory'[a] = <<Hops, a>>
      BY Zenon DEF Filled
    <3>0. nfs_offset' = nfs_offset + r.len
      BY <2>1, Zenon
    <3>2. a \in 0..(nfs_offset + r.len - 1)
      BY ONLY <3>0, <3>1
    <3>3. a \in DOMAIN memory
      BY ONLY <3>1, <3>2, NfsAssumption
    <3>4. CASE a \in nfs_offset..(nfs_offset + r.len - 1)
      <4>1. memory'[a] = <<call.file, call.offset + a - nfs_offset>>
        BY Zenon, <2>1, <3>3, <3>4
      <4>2. call.offset + a - nfs_offset = a
        BY <3>1, <3>2
      <4> QED BY Zenon, <3>1, <4>1, <4>2
    <3>5. CASE a \in 0..(nfs_offset - 1)
      <4>1. a \notin nfs_offset..(nfs_offset + r.len - 1)
        BY <3>1, <3>5
      <4>2. memory'[a] = memory[a]
        BY Zenon, <2>1, <3>3, <4>1
      <4> QED BY Zenon, <3>1, <3>5, <4>2 DEF Filled
    <3> QED BY ONLY <3>1, <3>2, <3>4, <3>5
  <2>5. NfsReading'
    BY Zenon, <1>1, <1>2, <1>5, <2>1, <2>2, <2>3, <2>4 DEF NfsReading
  <2>6. nfs_download_state' = "FAIL" /\ nfs_state' = "READ"
    BY Zenon, <1>1, <2>1 DEF NfsReading
  <2>7. NfsStateInv'
    BY Zenon, <2>5, <2>6 DEF NfsStateInv, Procs
  <2>8. DOMAIN memory' = 0..(FileLen - 1)
    BY Zenon, <2>3
  <2> QED BY Zenon, <1>4, <2>7, <2>8 DEF NfsInv
<1>6. CASE r.tag = "link"
  BY Zenon, <1>0, <1>1, <1>2, <1>4, <1>6 DEF Go, NfsInv, NfsStateInv, NfsReading, Procs, loaded
<1>7. CASE r.tag = "error" \/ (r.tag = "data" /\ r.len = 0)
  <2>1. ~(r.tag = "data" /\ r.len > 0) /\ r.tag # "link"
    BY ONLY <1>7
  <2>2. nfs_state' = "UMOUNT" /\ nfs_download_state' = Downloaded(r) /\ UNCHANGED loaded
    BY Zenon, <1>0, <2>1 DEF Go
  <2>3. CASE r.tag = "data"
    <3>1. nfs_offset = FileLen  BY Zenon, <1>2, <1>7, <2>3
    <3>2. (net_boot_file_size = FileLen /\ Filled(FileLen))'
      BY Zenon, <1>1, <2>2, <3>1 DEF NfsReading, Filled, loaded
    <3> QED BY Zenon, <1>0, <1>4, <2>2, <3>2 DEF NfsInv, NfsStateInv, Procs, loaded
  <2>4. CASE r.tag # "data"
    <3>1. nfs_download_state' = "FAIL"  BY Zenon, <1>1, <2>2, <2>4 DEF Downloaded, NfsReading
    <3> QED BY Zenon, <1>0, <1>4, <2>2, <3>1 DEF NfsInv, NfsStateInv, Procs, loaded
  <2> QED BY Zenon, <2>3, <2>4
<1> QED BY Zenon, <1>0, <1>5, <1>6, <1>7

\* A time-out repeats the latest call, or gives up.
LEMMA TimeoutLoads == NfsInv /\ nfs_timeout_handler => NfsInv'
<1> SUFFICES ASSUME NfsInv, nfs_timeout_handler PROVE NfsInv'
  BY Zenon
<1>1. /\ Loading /\ UNCHANGED <<command, udp_packet_handler, progress, loaded, statics>>
      /\ time_handler' \in {"none", "nfs"} /\ net_state' \in {net_state, "FAIL", "RESTART"}
      /\ nfs_send \/ UNCHANGED call
  BY Zenon DEF nfs_timeout_handler, TimesOut, net_start_again, NfsInv, HandlerInv
<1>2. UNCHANGED <<nfs_state, nfs_offset, nfs_download_state, memory, net_boot_file_size,
                  filefh>>
  BY Zenon, <1>1 DEF progress, loaded, statics
<1>3. HandlerInv'
  BY Zenon, <1>1, <1>2, HandlersKept DEF NfsInv, HandlerInv
<1>4. NfsReading /\ nfs_state = "READ" => NfsReading'
  BY <1>1, <1>2 DEF NfsReading, Filled, nfs_send
<1> QED BY Zenon, <1>1, <1>2, <1>3, <1>4 DEF NfsInv, NfsStateInv, Filled, Loading

\* Every packet that nfs_handler takes.
LEMMA HandlerLoads == NfsInv /\ nfs_handler => NfsInv'
BY Zenon, PortLoads, MountLoads, LookupLoads, ReadLoads, ReadlinkLoads, UmountLoads, OldLoads
   DEF nfs_handler

\* A step that gives the packets to nobody or to DHCP, and loads nothing.
LEMMA NotLoading ==
  ASSUME NfsInv, memory' = memory, udp_packet_handler' \in {"none", "dhcp"},
         time_handler' \in {"none", "bootp"},
         time_handler' = "bootp" => udp_packet_handler' = "dhcp",
         command' \in {"none", "LINKLOCAL"} => udp_packet_handler' = "none",
         udp_packet_handler' = "dhcp" /\ net_state' = "SUCCESS" /\ ~timed_out' =>
           dhcp_state' = "BOUND"
  PROVE  NfsInv'
BY Zenon DEF NfsInv, HandlerInv, Loading

\* The prompt is back: nobody has the packets.
LEMMA LeaveLoads == NfsInv /\ NetLeave /\ memory' = memory => NfsInv'
BY Zenon, NotLoading DEF NetLeave

\* The steps of the nfs command.
LEMMA NfsLoads == NfsInv /\ NfsNext => NfsInv'
<1> SUFFICES ASSUME NfsInv, NfsNext PROVE NfsInv'
  BY Zenon
<1>1. CASE do_nfs
  BY Zenon, <1>1, StartLoads DEF do_nfs, NetEnter
<1>2. CASE nfs_restart
  BY Zenon, <1>2, StartLoads DEF nfs_restart, NetRestart
<1>3. CASE NetLeave /\ UNCHANGED nfsVars
  BY Zenon, <1>3, LeaveLoads DEF nfsVars, loaded
<1>4. \/ do_nfs \/ nfs_restart \/ nfs_timeout_handler \/ nfs_handler
      \/ NetLeave /\ UNCHANGED nfsVars
  BY Zenon DEF NfsNext, NetAbort, NetDone
<1> QED BY Zenon, <1>1, <1>2, <1>3, <1>4, TimeoutLoads, HandlerLoads

\* The steps of the dhcp command.  It starts NFS only while it has no success.
LEMMA DhcpLoads == NfsInv /\ DhcpNext => NfsInv'
<1> SUFFICES ASSUME NfsInv, DhcpNext PROVE NfsInv'
  BY Zenon
<1> USE DEF loaded, nfsVars
<1>1. CASE do_dhcp \/ dhcp_restart
  <2>1. /\ udp_packet_handler' = "dhcp" /\ time_handler' = "bootp" /\ memory' = memory
        /\ net_state' = "CONTINUE" /\ command' = "DHCP"
    BY Zenon, <1>1 DEF do_dhcp, dhcp_restart, dhcp_start, bootp_request, NetEnter, NetRestart
  <2> QED BY Zenon, <2>1, NotLoading
<1>2. CASE bootp_timeout_handler
  <2>1. /\ udp_packet_handler = "dhcp" /\ command \notin {"none", "LINKLOCAL"}
    BY Zenon, <1>2 DEF bootp_timeout_handler, TimesOut, NfsInv, HandlerInv
  <2>2. /\ udp_packet_handler' = "dhcp" /\ time_handler' \in {"none", "bootp"}
        /\ memory' = memory /\ command' = command
        /\ timed_out' = (net_state' # "CONTINUE")
    BY Zenon, <1>2, <2>1 DEF bootp_timeout_handler, TimesOut, bootp_request, net_start_again
  <2> QED BY Zenon, <2>1, <2>2, NotLoading
<1>3. CASE dhcp_handler
  <2>1. PICK p \in wire : 
          /\ Receives("dhcp")
          /\ \/ /\ dhcp_state = "SELECTING" /\ time_handler' = "bootp"
                /\ UNCHANGED <<udp_packet_handler, net_state, nfsVars>>
             \/ /\ dhcp_state = "REQUESTING" /\ dhcp_state' = "BOUND" /\ net_auto_load
             \/ UNCHANGED <<handlers, net_state, dhcp_state, nfsVars>>
    BY <1>3 DEF dhcp_handler
  <2>2. /\ udp_packet_handler = "dhcp" /\ ~timed_out /\ UNCHANGED <<command, timed_out>>
        /\ command \notin {"none", "LINKLOCAL"}
    BY Zenon, <2>1 DEF Receives, NfsInv, HandlerInv
  <2>3. CASE dhcp_state = "SELECTING" /\ time_handler' = "bootp"
             /\ UNCHANGED <<udp_packet_handler, net_state, nfsVars>>
    <3>1. net_state' # "SUCCESS" /\ memory' = memory
      BY Zenon, <2>2, <2>3 DEF NfsInv, HandlerInv
    <3> QED BY Zenon, <2>2, <2>3, <3>1, NotLoading
  <2>4. CASE dhcp_state = "REQUESTING" /\ dhcp_state' = "BOUND" /\ net_auto_load
    <3>1. net_state # "SUCCESS"
      BY Zenon, <2>2, <2>4 DEF NfsInv, HandlerInv
    <3>2. CASE nfs_start /\ UNCHANGED net_state
      BY Zenon, <2>2, <3>1, <3>2, StartLoads
    <3>3. CASE UNCHANGED <<handlers, nfsVars>>
      BY Zenon, <2>2, <2>4, <3>3 DEF handlers, NfsInv, HandlerInv, Loading
    <3> QED BY Zenon, <2>4, <3>2, <3>3 DEF net_auto_load
  <2>5. CASE UNCHANGED <<handlers, net_state, dhcp_state, nfsVars>>
    BY Zenon, <2>2, <2>5 DEF handlers, NfsInv, HandlerInv, Loading
  <2> QED BY Zenon, <2>1, <2>3, <2>4, <2>5
<1>4. CASE NetLeave /\ UNCHANGED nfsVars
  BY Zenon, <1>4, LeaveLoads
<1>5. \/ do_dhcp \/ dhcp_restart \/ bootp_timeout_handler \/ dhcp_handler
      \/ NetLeave /\ UNCHANGED nfsVars
  BY Zenon DEF DhcpNext, NetAbort, NetDone
<1> QED BY Zenon, <1>1, <1>2, <1>3, <1>4, <1>5

\* The steps of the linklocal command.
LEMMA LinkLocalLoads == NfsInv /\ LinkLocalNext /\ UNCHANGED nfsVars => NfsInv'
<1> SUFFICES ASSUME NfsInv, LinkLocalNext, UNCHANGED nfsVars PROVE NfsInv'
  BY Zenon
<1>0. memory' = memory
  BY Zenon DEF nfsVars, loaded
<1>1. CASE link_local_enter \/ link_local_restart
  <2>1. /\ udp_packet_handler = "none" /\ udp_packet_handler' = "none"
        /\ time_handler' \in {time_handler, "ll"}
    BY Zenon, <1>1 DEF link_local_enter, link_local_restart, link_local_start, NfsInv, HandlerInv
  <2> QED BY Zenon, <1>0, <2>1 DEF NfsInv, HandlerInv, Loading
<1>2. CASE link_local_timeout
  <2>1. /\ udp_packet_handler = "none" /\ udp_packet_handler' = "none"
        /\ time_handler' \in {time_handler, "none"}
    BY Zenon, <1>2 DEF link_local_timeout, TimesOut, NfsInv, HandlerInv
  <2> QED BY Zenon, <1>0, <2>1 DEF NfsInv, HandlerInv, Loading
<1>3. CASE Answer
  <2>1. udp_packet_handler = "none" /\ UNCHANGED <<udp_packet_handler, time_handler>>
    BY Zenon, <1>3 DEF Answer, loopVars, handlers, NfsInv, HandlerInv
  <2> QED BY Zenon, <1>0, <2>1 DEF NfsInv, HandlerInv, Loading
<1>4. CASE do_link_local_end
  <2>1. NetLeave
    BY Zenon, <1>4 DEF do_link_local_end, NetDone, NetAbort
  <2> QED BY Zenon, <1>0, <2>1, LeaveLoads
<1> QED BY Zenon, <1>1, <1>2, <1>3, <1>4 DEF LinkLocalNext

-----------------------------------------------------------------------------
\* The board has just started.
LEMMA InitLoads == Init => NfsInv
BY Zenon DEF Init, NetInit, NfsInit, NfsInv, HandlerInv, Loading

\* Every step preserves the invariant.
LEMMA StepLoads == NfsInv /\ [Next]_vars => NfsInv'
<1> SUFFICES ASSUME NfsInv, [Next]_vars PROVE NfsInv'
  BY Zenon
<1>1. CASE NetAgain /\ UNCHANGED <<nfsVars, dhcpVars>>
  <2>1. /\ UNCHANGED <<udp_packet_handler, time_handler, command, timed_out, dhcp_state>>
        /\ net_state' # "SUCCESS"
    BY Zenon, <1>1 DEF NetAgain, net_start_again, handlers, dhcpVars
  <2>2. NfsStateInv => NfsStateInv'
    BY Zenon, <1>1 DEF nfsVars, statics, progress, loaded, NfsStateInv, NfsReading, Filled
  <2>3. memory' = memory
    BY Zenon, <1>1 DEF nfsVars, loaded
  <2> QED BY Zenon, <2>1, <2>2, <2>3 DEF NfsInv, HandlerInv, Loading
<1>2. CASE UNCHANGED vars
  <2>1. /\ UNCHANGED <<udp_packet_handler, time_handler, command, timed_out, dhcp_state,
                       net_state, nfsVars>>
    BY Zenon, <1>2 DEF vars, loopVars, handlers, dhcpVars
  <2>2. NfsStateInv => NfsStateInv'
    BY Zenon, <2>1 DEF nfsVars, statics, progress, loaded, NfsStateInv, NfsReading, Filled
  <2>3. UNCHANGED <<memory, nfs_download_state>>
    BY Zenon, <2>1 DEF nfsVars, loaded, progress
  <2> QED BY Zenon, <2>1, <2>2, <2>3 DEF NfsInv, HandlerInv, Loading
<1>3. CASE NfsNext
  BY Zenon, <1>3, NfsLoads
<1>4. CASE DhcpNext
  BY Zenon, <1>4, DhcpLoads
<1>5. CASE LinkLocalNext /\ UNCHANGED nfsVars
  BY Zenon, <1>5, LinkLocalLoads
<1> QED BY Zenon, <1>1, <1>2, <1>3, <1>4, <1>5 DEF Next

\* An nfs command, or a dhcp command that loads its file by NFS, reports success
\* only with the whole file in memory, each byte in its place (nfs_handler,
\* nfs_read_reply, store_block), in every session of commands.
THEOREM NfsLoadsFile == Spec => []NfsLoaded
<1>1. NfsInv => NfsLoaded
  BY Zenon DEF NfsInv, HandlerInv, NfsStateInv, NfsLoaded, Loading, Filled
<1>2. Spec => []NfsInv
  BY InitLoads, StepLoads, PTL DEF Spec
<1> QED BY <1>1, <1>2, PTL

-----------------------------------------------------------------------------
\* A step of nfs.c that counts, refuses and drops no less than before.
LEMMA FailsAsBefore ==
  ASSUME FailureInv, Loading, Loading', UNCHANGED <<network, nfs_timeout_count>>,
         refused => refused', dropped => dropped', refused' \in BOOLEAN,
         net_state' = "FAIL" => \/ net_state = "FAIL"
                                \/ refused' \/ (dropped' /\ network = "late"),
         nfs_state' = "UMOUNT" /\ nfs_download_state' # "SUCCESS" =>
           refused' \/ (dropped' /\ network = "late")
  PROVE  FailureInv'
BY Zenon DEF FailureInv, NfsFailure, Loading

\* A refusal is remembered.
LEMMA ReplyRefuses ==
  ASSUME NEW r, Reply(r), FailureInv
  PROVE  /\ refused' \in BOOLEAN /\ (refused => refused') /\ dropped' = dropped
         /\ r.tag = "error" => refused'
BY Zenon DEF Reply, FailureInv

\* nfs_handler: an error of the server is why the client unmounts, or a reply
\* that comes late while it reads.
LEMMA HandlerFails == NfsInv /\ FailureInv /\ nfs_handler => FailureInv'
<1> SUFFICES ASSUME NfsInv, FailureInv, nfs_handler PROVE FailureInv'
  BY Zenon
<1>1. Loading /\ Loading' /\ UNCHANGED <<network, nfs_timeout_count>>
  BY Zenon DEF nfs_handler, RecvPort, RecvMount, RecvLookup, RecvRead, RecvReadlink, RecvUmount,
         RecvOld, Reply, Receives, Loading
<1>2. CASE RecvPort
  <2>1. /\ refused' \in BOOLEAN /\ (refused => refused') /\ dropped' = dropped /\ net_state' = net_state
        /\ nfs_state' \in {"PORT_NFS", "MOUNT"}
    BY Zenon, <1>2, ReplyRefuses DEF RecvPort, Go
  <2> QED BY Zenon, <1>1, <2>1, FailsAsBefore
<1>3. CASE RecvMount
  <2>1. /\ refused' \in BOOLEAN /\ (refused => refused') /\ dropped' = dropped /\ net_state' = net_state
        /\ nfs_state' = "UMOUNT" => refused'
    BY Zenon, <1>3, ReplyRefuses DEF RecvMount, Go
  <2> QED BY Zenon, <1>1, <2>1, FailsAsBefore
<1>4. CASE RecvLookup
  <2>1. /\ refused' \in BOOLEAN /\ (refused => refused') /\ dropped' = dropped /\ net_state' = net_state
        /\ nfs_state' = "UMOUNT" => refused'
    BY Zenon, <1>4, ReplyRefuses DEF RecvLookup, Go
  <2> QED BY Zenon, <1>1, <2>1, FailsAsBefore
<1>5. CASE RecvRead
  <2>1. /\ refused' \in BOOLEAN /\ (refused => refused') /\ dropped' = dropped /\ net_state' = net_state
        /\ nfs_state' = "UMOUNT" => refused' \/ nfs_download_state' = "SUCCESS"
    BY Zenon, <1>5, ReplyRefuses DEF RecvRead, Go, Downloaded
  <2> QED BY Zenon, <1>1, <2>1, FailsAsBefore
<1>6. CASE RecvReadlink
  <2>1. /\ refused' \in BOOLEAN /\ (refused => refused') /\ dropped' = dropped /\ net_state' = net_state
        /\ nfs_state' = "UMOUNT" => refused'
    BY Zenon, <1>6, ReplyRefuses DEF RecvReadlink, Go
  <2> QED BY Zenon, <1>1, <2>1, FailsAsBefore
<1>7. CASE RecvUmount
  <2>1. /\ refused' \in BOOLEAN /\ (refused => refused') /\ dropped' = dropped
        /\ UNCHANGED <<nfs_state, nfs_download_state>> /\ nfs_state = "UMOUNT"
        /\ net_state' = "FAIL" => refused' \/ nfs_download_state # "SUCCESS"
    BY Zenon, <1>7, ReplyRefuses DEF RecvUmount, progress
  <2> QED BY Zenon, <1>1, <2>1, FailsAsBefore DEF FailureInv
<1>8. CASE RecvOld
  <2>1. /\ refused' = refused /\ refused \in BOOLEAN /\ dropped' = TRUE /\ network = "late"
        /\ net_state' = net_state
    BY Zenon, <1>8 DEF RecvOld, Go, FailureInv
  <2> QED BY Zenon, <1>1, <2>1, FailsAsBefore
<1> QED BY Zenon, <1>2, <1>3, <1>4, <1>5, <1>6, <1>7, <1>8 DEF nfs_handler

\* nfs_timeout_handler gives up only when it has counted too many.
LEMMA TimeoutFails == NfsInv /\ FailureInv /\ nfs_timeout_handler => FailureInv'
<1> SUFFICES ASSUME NfsInv, FailureInv, nfs_timeout_handler PROVE FailureInv'
  BY Zenon
<1>1. /\ Loading /\ Loading' /\ UNCHANGED <<network, refused, dropped, nfs_state, nfs_download_state>>
      /\ \/ nfs_timeout_count' > NFS_RETRY_COUNT
         \/ net_state' = net_state /\ ~(nfs_timeout_count' > NFS_RETRY_COUNT)
      /\ nfs_timeout_count' = nfs_timeout_count + 1
  BY Zenon DEF nfs_timeout_handler, TimesOut, NfsInv, HandlerInv, Loading, progress, Counted
<1> QED BY <1>1 DEF FailureInv, NfsFailure, Loading

\* nfs_start begins with nothing refused.
LEMMA StartFails ==
  ASSUME nfs_start, net_state' # "FAIL"
  PROVE  FailureInv'
BY Zenon DEF nfs_start, FailureInv, NfsFailure, Loading

\* A step in which NFS has no part, and DHCP fails only at a time-out.
LEMMA NotLoadingFails ==
  ASSUME FailureInv, UNCHANGED nfsVars, udp_packet_handler' \in {"none", "dhcp"},
         udp_packet_handler' = "dhcp" /\ net_state' = "FAIL" => timed_out'
  PROVE  FailureInv'
BY Zenon DEF FailureInv, NfsFailure, Loading, nfsVars

\* Every step preserves FailureInv.
LEMMA StepFails == NfsInv /\ FailureInv /\ [Next]_vars => FailureInv'
<1> SUFFICES ASSUME NfsInv, FailureInv, [Next]_vars PROVE FailureInv'
  BY Zenon
<1>1. CASE do_nfs \/ nfs_restart
  BY Zenon, <1>1, StartFails DEF do_nfs, nfs_restart, NetEnter, NetRestart
<1>2. CASE NetLeave /\ UNCHANGED nfsVars
  BY Zenon, <1>2, NotLoadingFails DEF NetLeave
<1>3. CASE do_dhcp \/ dhcp_restart
  BY Zenon, <1>3, NotLoadingFails DEF do_dhcp, dhcp_restart, dhcp_start, bootp_request,
                               NetEnter, NetRestart
<1>4. CASE bootp_timeout_handler
  <2>1. /\ udp_packet_handler' = "dhcp" /\ UNCHANGED nfsVars
        /\ timed_out' = (net_state' # "CONTINUE")
    BY Zenon, <1>4 DEF bootp_timeout_handler, TimesOut, bootp_request, NfsInv, HandlerInv
  <2> QED BY Zenon, <2>1, NotLoadingFails
<1>5. CASE dhcp_handler
  <2>1. /\ udp_packet_handler = "dhcp" /\ timed_out' = timed_out /\ net_state # "FAIL"
        /\ \/ UNCHANGED <<udp_packet_handler, net_state, nfsVars>>
           \/ net_auto_load
    BY <1>5 DEF dhcp_handler, Receives, handlers, FailureInv
  <2>2. CASE UNCHANGED <<udp_packet_handler, net_state, nfsVars>>
    BY Zenon, <2>1, <2>2, NotLoadingFails
  <2>3. CASE net_auto_load
    <3>1. CASE nfs_start /\ UNCHANGED net_state
      BY Zenon, <2>1, <3>1, StartFails
    <3>2. CASE net_state' = "SUCCESS" /\ UNCHANGED <<handlers, nfsVars>>
      BY Zenon, <2>1, <3>2, NotLoadingFails DEF handlers
    <3> QED BY Zenon, <2>3, <3>1, <3>2 DEF net_auto_load
  <2> QED BY Zenon, <2>1, <2>2, <2>3
<1>6. CASE LinkLocalNext /\ UNCHANGED nfsVars
  <2>1. udp_packet_handler' = "none"
    BY Zenon, <1>6 DEF LinkLocalNext, link_local_enter, link_local_restart, link_local_start,
                link_local_timeout, TimesOut, Answer, do_link_local_end, NetDone, NetAbort,
                NetLeave, loopVars, handlers, NfsInv, HandlerInv
  <2> QED BY Zenon, <1>6, <2>1, NotLoadingFails
<1>7. CASE NetAgain /\ UNCHANGED nfsVars
  <2>1. UNCHANGED <<network, udp_packet_handler>> /\ net_state' # "FAIL"
    BY Zenon, <1>7 DEF NetAgain, net_start_again, handlers
  <2> QED BY Zenon, <1>7, <2>1 DEF FailureInv, NfsFailure, Loading, nfsVars, progress
<1>8. CASE UNCHANGED vars
  BY Zenon, <1>8 DEF vars, loopVars, handlers, nfsVars, progress, FailureInv, NfsFailure, Loading
<1> QED
  BY Zenon, <1>1, <1>2, <1>3, <1>4, <1>5, <1>6, <1>7, <1>8, HandlerFails, TimeoutFails
  DEF Next, NfsNext, DhcpNext, NetAbort, NetDone

\* A load by NFS, in an nfs or a dhcp command, fails only because the server has
\* refused a call, because NFS_RETRY_COUNT was exceeded (nfs_timeout_handler) or
\* because a late reply came while reading (NFS_RPC_DROP), in every session.
THEOREM NfsFailsForAReason == Spec => []NfsFailure
<1>1. Init => FailureInv
  <2>1. Init => udp_packet_handler = "none" /\ nfs_timeout_count \in Nat
    BY DEF Init, NetInit, NfsInit
  <2>2. Init => refused \in BOOLEAN
    BY Zenon DEF Init, NfsInit
  <2> QED BY Zenon, <2>1, <2>2 DEF FailureInv, NfsFailure, Loading
<1>2. Spec => [](NfsInv /\ FailureInv)
  BY <1>1, InitLoads, StepLoads, StepFails, PTL DEF Spec
<1>3. FailureInv => NfsFailure
  BY Zenon DEF FailureInv
<1> QED BY <1>2, <1>3, PTL

-----------------------------------------------------------------------------
\* A request for an address: an ACK is on its way only from the server asked,
\* and that server then has the lease.
LEMMA RequestLeases ==
  ASSUME NEW p, p.server \in Servers, NEW old, dhcp_send_request_packet(p, old)
  PROVE  \A q \in wire' : q \in old \/ (q.server \in Servers /\ (IsAck(q) => lease'[q.server]))
<1>1. PICK heard \in Heard, answer \in {"none", "ACK", "NAK"} :
        /\ p.server \notin heard => answer = "none"
        /\ wire' = old \cup (IF answer = "none" THEN {} ELSE {Reply_(answer, p.id, p.server)})
        /\ lease' = [s \in Servers |-> IF s \in heard THEN s = p.server /\ answer = "ACK"
                                       ELSE lease[s]]
  <2>1. PICK heard \in Heard :
          \E answer \in IF p.type = "NAK" \/ p.server \notin heard THEN {"none"}
                        ELSE IF network = "good" THEN {"ACK"} ELSE {"ACK", "NAK"} :
            /\ wire' = old \cup (IF answer = "none" THEN {} ELSE {Reply_(answer, p.id, p.server)})
            /\ lease' = [s \in Servers |-> IF s \in heard THEN s = p.server /\ answer = "ACK"
                                           ELSE lease[s]]
    BY Zenon DEF dhcp_send_request_packet
  <2> QED BY ONLY <2>1
<1>2. SUFFICES ASSUME NEW q \in wire', q \notin old
               PROVE  q.server \in Servers /\ (IsAck(q) => lease'[q.server])
  BY Zenon
<1>3. answer # "none" /\ q = Reply_(answer, p.id, p.server)
  BY Zenon, <1>1, <1>2
<1>4. q.server = p.server /\ q.type = answer
  BY Zenon, <1>3 DEF Reply_
<1> QED BY Zenon, <1>1, <1>3, <1>4 DEF IsAck

\* A DISCOVER: what comes is offers of servers.
LEMMA DiscoverOffers ==
  ASSUME NEW try, NEW ids, NEW old, bootp_request(try, ids, old)
  PROVE  \A q \in wire' : q \in old \/ (q.server \in Servers /\ ~IsAck(q))
<1>1. PICK heard \in HeardDiscover(try) :
        wire' = old \cup {Reply_("OFFER", try, s) : s \in heard}
  BY Zenon DEF bootp_request
<1>2. heard \subseteq Servers
  BY Zenon, <1>1 DEF HeardDiscover, Heard
<1> QED BY ONLY <1>1, <1>2 DEF Reply_, IsAck

\* dhcp_handler keeps the invariant.
LEMMA DhcpHandlerLeases == NfsInv /\ DhcpInv /\ dhcp_handler => DhcpInv'
<1> SUFFICES ASSUME NfsInv, DhcpInv, dhcp_handler PROVE DhcpInv'
  BY Zenon
<1>1. PICK p \in wire, old \in SUBSET wire :
        /\ Receives("dhcp")
        /\ \/ /\ dhcp_state = "SELECTING" /\ dhcp_state' = "REQUESTING"
              /\ dhcp_send_request_packet(p, old)
              /\ UNCHANGED <<udp_packet_handler, net_state, net_server_ip>>
           \/ /\ dhcp_state = "REQUESTING" /\ IsAck(p)
              /\ dhcp_state' = "BOUND" /\ wire' = {}
              /\ dhcp_process_options(p) /\ store_net_params(p) /\ net_auto_load
              /\ UNCHANGED lease
           \/ /\ wire' = wire \ {p}
              /\ UNCHANGED <<handlers, net_state, addrVars, dhcp_state, dhcp_server_ip,
                             net_server_ip, lease>>
  BY Zenon DEF dhcp_handler
<1>2. /\ udp_packet_handler = "dhcp" /\ ~timed_out /\ UNCHANGED <<network, command>>
      /\ net_state = "SUCCESS" => dhcp_state = "BOUND"
      /\ \A q \in wire : q.server \in Servers
  BY Zenon, <1>1 DEF Receives, NfsInv, HandlerInv, DhcpInv, WireInv
<1>3. CASE /\ dhcp_state = "SELECTING" /\ dhcp_state' = "REQUESTING"
           /\ dhcp_send_request_packet(p, old)
           /\ UNCHANGED <<udp_packet_handler, net_state, net_server_ip>>
  <2>1. \A q \in wire' : q \in wire \/ (q.server \in Servers /\ (IsAck(q) => lease'[q.server]))
    BY Zenon, <1>1, <1>2, <1>3, RequestLeases
  <2>2. network # "late" => \A q \in wire : ~IsAck(q)
    BY Zenon, <1>2, <1>3 DEF DhcpInv, WireInv
  <2>3. WireInv'
    BY Zenon, <1>2, <1>3, <2>1, <2>2 DEF WireInv, IsAck
  <2> QED BY Zenon, <1>2, <1>3, <2>3 DEF DhcpInv, DhcpDone, Loading, Named
<1>4. CASE /\ dhcp_state = "REQUESTING" /\ IsAck(p)
           /\ dhcp_state' = "BOUND" /\ wire' = {}
           /\ dhcp_process_options(p) /\ store_net_params(p) /\ net_auto_load
           /\ UNCHANGED lease
  <2>1. p.server \in Servers /\ (network # "late" => lease[p.server])
    BY Zenon, <1>2, <1>4 DEF DhcpInv, WireInv
  <2>2. Configured' /\ (network # "late" => Leased)'
    BY Zenon, <1>2, <1>4, <2>1 DEF dhcp_process_options, store_net_params, Configured, Leased
  <2>3. udp_packet_handler' \in {"dhcp", "nfs"}
    BY Zenon, <1>2, <1>4 DEF net_auto_load, nfs_start, handlers
  <2>4. Named'
    BY Zenon, <1>4 DEF DhcpInv, Named, store_net_params
  <2> QED BY Zenon, <1>2, <1>4, <2>2, <2>3, <2>4 DEF DhcpInv, WireInv
<1>5. CASE /\ wire' = wire \ {p}
           /\ UNCHANGED <<handlers, net_state, addrVars, dhcp_state, dhcp_server_ip,
                          net_server_ip, lease>>
  <2>1. UNCHANGED <<udp_packet_handler, net_state, net_ip, net_gateway>>
    BY Zenon, <1>5 DEF handlers, addrVars
  <2> QED BY Zenon, <1>2, <1>5, <2>1 DEF DhcpInv, WireInv, DhcpDone, Configured, Leased, Named, IsAck, Loading
<1> QED BY Zenon, <1>1, <1>3, <1>4, <1>5

\* Nothing of DHCP changes, and the handlers stay.
LEMMA DhcpSame ==
  ASSUME DhcpInv,
         UNCHANGED <<network, command, udp_packet_handler, addrVars, dhcpVars>>,
         net_state' = "SUCCESS" => net_state = "SUCCESS" \/ Loading
  PROVE  DhcpInv'
BY Zenon DEF DhcpInv, WireInv, DhcpDone, Configured, Leased, Named, Loading, addrVars, dhcpVars, IsAck

\* No dhcp command runs, and DHCP has no packets.
LEMMA DhcpOff ==
  ASSUME DhcpInv, UNCHANGED <<network, dhcpVars>>, command' # "DHCP",
         udp_packet_handler' # "dhcp"
  PROVE  DhcpInv'
BY Zenon DEF DhcpInv, WireInv, Named, dhcpVars

\* A new DISCOVER: bootp_reset, or a time-out before which every ACK has come.
LEMMA DiscoverLeases ==
  ASSUME DhcpInv, NEW try, NEW ids, NEW old \in SUBSET wire, bootp_request(try, ids, old),
         network' = network, network' # "late" => \A q \in old : ~IsAck(q),
         command' = "DHCP" /\ net_state' = "SUCCESS" =>
           Configured' /\ (network' # "late" => Leased')
  PROVE  DhcpInv'
<1>1. \A q \in wire' : q \in old \/ (q.server \in Servers /\ ~IsAck(q))
  BY Zenon, DiscoverOffers
<1>2. /\ udp_packet_handler' = "dhcp" /\ dhcp_state' = "SELECTING"
      /\ net_server_ip' = net_server_ip
  BY Zenon DEF bootp_request
<1>3. WireInv'
  BY Zenon, <1>1, <1>2 DEF DhcpInv, WireInv, IsAck
<1> QED BY Zenon, <1>2, <1>3 DEF DhcpInv, DhcpDone, Loading, Named

\* bootp_timeout_handler keeps the invariant, also after a success.
LEMMA DhcpTimeoutLeases == NfsInv /\ DhcpInv /\ bootp_timeout_handler => DhcpInv'
<1> SUFFICES ASSUME NfsInv, DhcpInv, bootp_timeout_handler PROVE DhcpInv'
  BY Zenon
<1>1. /\ UNCHANGED <<network, command, addrVars>> /\ udp_packet_handler = "dhcp"
      /\ network = "good" => \A p \in wire : ~Arrives(p)
  BY Zenon DEF bootp_timeout_handler, TimesOut, NfsInv, HandlerInv
<1>2. CASE /\ bootp_request(bootp_try + 1, bootp_add_id(bootp_try + 1),
                            IF network = "lossy" THEN {} ELSE wire)
           /\ UNCHANGED net_state
  <2> DEFINE old == IF network = "lossy" THEN {} ELSE wire
  <2>1. network' # "late" => \A q \in old : ~IsAck(q)
    <3>1. network \in {"good", "lossy", "late"} BY Zenon DEF DhcpInv
    <3> QED BY Zenon, <1>1, <3>1 DEF Arrives, IsAck
  <2>2. UNCHANGED <<net_ip, net_gateway, dhcp_server_ip, net_server_ip, lease>>
    BY Zenon, <1>1, <1>2 DEF bootp_request, addrVars
  <2>3. command' = "DHCP" /\ net_state' = "SUCCESS" =>
           Configured' /\ (network' # "late" => Leased')
    BY Zenon, <1>1, <1>2, <2>2 DEF DhcpInv, DhcpDone, Configured, Leased
  <2>4. old \in SUBSET wire
    BY Zenon
  <2> HIDE DEF old
  <2>5. bootp_request(bootp_try + 1, bootp_add_id(bootp_try + 1), old)
    BY Zenon, <1>2 DEF old
  <2> QED BY Zenon, <1>1, <2>1, <2>3, <2>4, <2>5, DiscoverLeases
<1>3. CASE net_start_again /\ UNCHANGED <<udp_packet_handler, dhcpVars>>
  BY Zenon, <1>1, <1>3, DhcpSame DEF net_start_again
<1> QED BY Zenon, <1>2, <1>3 DEF bootp_timeout_handler

\* Every step preserves DhcpInv.
LEMMA StepLeases == NfsInv /\ DhcpInv /\ [Next]_vars => DhcpInv'
<1> SUFFICES ASSUME NfsInv, DhcpInv, [Next]_vars PROVE DhcpInv'
  BY Zenon
<1>1. CASE do_dhcp \/ dhcp_restart
  <2>1. bootp_request(1, <<1>>, {}) /\ net_state' = "CONTINUE" /\ network' = network
    BY Zenon, <1>1 DEF do_dhcp, dhcp_restart, dhcp_start, NetEnter, NetRestart
  <2> QED BY <2>1, DiscoverLeases
<1>2. CASE do_nfs /\ UNCHANGED dhcpVars
  BY Zenon, <1>2, DhcpOff DEF do_nfs, NetEnter, nfs_start
<1>3. CASE NetLeave /\ UNCHANGED dhcpVars
  BY Zenon, <1>3, DhcpOff DEF NetLeave
<1>4. CASE nfs_restart /\ UNCHANGED dhcpVars
  BY Zenon, <1>4, DhcpOff DEF nfs_restart, NetRestart, nfs_start
<1>5. CASE (nfs_timeout_handler \/ nfs_handler) /\ UNCHANGED <<addrVars, dhcpVars>>
  <2>1. Loading /\ UNCHANGED <<network, command, udp_packet_handler>>
    BY Zenon, <1>5 DEF nfs_timeout_handler, TimesOut, nfs_handler, RecvPort, RecvMount, RecvLookup,
                RecvRead, RecvReadlink, RecvUmount, RecvOld, Reply, Receives, Loading, NfsInv,
                HandlerInv
  <2> QED BY Zenon, <1>5, <2>1, DhcpSame
<1>6. CASE LinkLocalNext /\ UNCHANGED dhcpVars
  <2>1. command' # "DHCP" /\ udp_packet_handler' = "none" /\ network' = network
    <3>1. CASE link_local_enter \/ link_local_restart
      BY Zenon, <3>1 DEF link_local_enter, link_local_restart, link_local_start, NfsInv, HandlerInv
    <3>2. CASE link_local_timeout
      BY Zenon, <3>2 DEF link_local_timeout, TimesOut, NfsInv, HandlerInv, DhcpInv
    <3>3. CASE Answer
      BY Zenon, <3>3 DEF Answer, loopVars, handlers, NfsInv, HandlerInv
    <3>4. CASE do_link_local_end
      BY Zenon, <3>4 DEF do_link_local_end, NetDone, NetAbort, NetLeave
    <3> QED BY Zenon, <1>6, <3>1, <3>2, <3>3, <3>4 DEF LinkLocalNext
  <2> QED BY Zenon, <1>6, <2>1, DhcpOff
<1>7. CASE NetAgain /\ UNCHANGED <<addrVars, dhcpVars>>
  BY Zenon, <1>7, DhcpSame DEF NetAgain, net_start_again, handlers
<1>8. CASE UNCHANGED vars
  BY Zenon, <1>8, DhcpSame DEF vars, loopVars, handlers
<1> QED
  BY Zenon, <1>1, <1>2, <1>3, <1>4, <1>5, <1>6, <1>7, <1>8, DhcpHandlerLeases, DhcpTimeoutLeases
  DEF Next, NfsNext, DhcpNext, NetAbort, NetDone

\* DhcpInv holds throughout a session.
LEMMA DhcpInvariant == Spec => []DhcpInv
<1>1. Init => DhcpInv
  BY Zenon DEF Init, NetInit, DhcpInit, DhcpInv, WireInv, Named
<1> QED BY <1>1, InitLoads, StepLoads, StepLeases, PTL DEF Spec

\* A dhcp command that ends well, with the boot file loaded or not, leaves the
\* client with an address that a server has leased to it and not taken back
\* (dhcp_handler, store_net_params), unless packets come after their time-out.
THEOREM DhcpHasLease == Spec => []DhcpLease
<1>1. DhcpInv => DhcpLease
  BY Zenon DEF DhcpInv, DhcpDone, DhcpLease, Leased
<1> QED BY <1>1, DhcpInvariant, PTL

\* The address, the server id and, if it names them, the gateway and the server
\* to load from that a dhcp command leaves come from one and the same server
\* (dhcp_process_options, store_net_params), and a reply that names none leaves
\* the one there was, even when packets come late and after any commands.
THEOREM DhcpParamsAgree == Spec => []DhcpParams
<1>1. DhcpInv => DhcpParams
  BY Zenon DEF DhcpInv, DhcpDone, DhcpParams, Configured, Named
<1> QED BY <1>1, DhcpInvariant, PTL
=============================================================================
