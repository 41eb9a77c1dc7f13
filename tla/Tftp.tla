-------------------------------- MODULE Tftp --------------------------------
(***************************************************************************)
(* net/tftp.c: the TFTP client (tftpboot, tftpput) and the TFTP receiver   *)
(* (tftpsrv), run by the polling loop net_loop of net/net.c.               *)
(*                                                                         *)
(* Variables keep the names of the C globals.  The peers (a TFTP server, a *)
(* remote client that pushes a file) and the UDP network are external:     *)
(* they are modelled from what tftp.c sends and accepts.                   *)
(*                                                                         *)
(* A byte of a file is identified with its position: memory or a server    *)
(* holds the right byte at address o exactly when it holds the value o.    *)
(***************************************************************************)
EXTENDS Integers, Sequences, FiniteSets

CONSTANTS
  FileLen,        \* length of the file, in bytes
  DefBlk,         \* TFTP_BLOCK_SIZE
  OptBlk,         \* tftp_block_size_option, the "blksize" we ask for
  SeqSize,        \* TFTP_SEQUENCE_SIZE: block numbers are modulo SeqSize
  TIMEOUT_COUNT,  \* time-outs before giving up
  MaxTries,       \* "netretry": attempts net_start_again allows
  Commands,       \* the protocols the user runs net_loop with
  MaxCmds,        \* bound: number of net_loop calls
  Ports,          \* UDP ports tftp_our_port may take
  FreshPorts,     \* TRUE: a transfer never reuses an earlier transfer's port
  MaxCur,         \* bound: tftp_cur_block under repeated OACKs of a tftpput
  MaxSess,        \* bound: number of sessions the peers open
  ServerOpts,     \* subset of BOOLEAN: whether the server answers with an OACK
  Faults,         \* subset of {"notfound", "error", "icmp", "ctrlc"}
  Batch,          \* TRUE: one eth_rx() call may hand over several packets
  Wild,           \* TRUE: packets are lost and duplicated, timers run any time
                  \* FALSE: at most MaxLoss losses, timers expire when idle
  Reorder,        \* how many newer packets of its session may overtake one
  MaxLoss         \* bound on losses when ~Wild

Tids == 1..MaxSess
WellKnown == 0    \* WELL_KNOWN_PORT, at their end and, for tftpsrv, at ours

ASSUME TftpAssumption ==
  /\ FileLen \in Nat /\ DefBlk \in Nat \ {0} /\ OptBlk \in Nat \ {0}
  /\ SeqSize \in Nat \ {0, 1}
  /\ TIMEOUT_COUNT \in Nat /\ MaxTries \in Nat /\ MaxCmds \in Nat
  /\ Commands \subseteq {"TFTPGET", "TFTPPUT", "TFTPSRV"}
  /\ Ports \subseteq Nat \ {WellKnown} /\ FreshPorts \in BOOLEAN
  /\ MaxSess \in Nat /\ MaxCur \in Nat /\ ServerOpts \subseteq BOOLEAN
  /\ Faults \subseteq {"notfound", "error", "icmp", "ctrlc"}
  /\ Batch \in BOOLEAN /\ Wild \in BOOLEAN
  /\ Reorder \in Nat /\ MaxLoss \in Nat

VARIABLES
  \* net_loop
  running,        \* inside net_loop
  in_switch,      \* the timer check is over, net_state is looked at next
  ncmd, protocol, net_state, net_try_count,
  udp_handler, icmp_handler, time_handler,
  net_boot_file_size,
  mem,            \* memory from load_addr: the addresses written so far
  \* tftp.c
  tftp_state, tftp_remote_port, tftp_our_port, tftp_cur_block,
  tftp_prev_block, tftp_block_wrap_offset, tftp_block_size,
  timeout_count, timeout_count_max,
  tftp_put_active, tftp_put_final_block_sent,
  \* network and peers
  net,            \* packets in flight
  sess,           \* the sessions of the peers, by their UDP port (TID)
  seen,           \* newest packet of each session that reached us
  lost,           \* losses so far
  cur_num         \* history: the unbounded number of block tftp_cur_block

loopVars == <<running, in_switch, ncmd, protocol, net_state, net_try_count>>
handlerVars == <<udp_handler, icmp_handler, time_handler>>
loadVars == <<net_boot_file_size, mem>>
blockVars == <<tftp_cur_block, tftp_prev_block, tftp_block_wrap_offset, cur_num>>
connVars == <<tftp_state, tftp_remote_port, tftp_our_port, tftp_block_size>>
countVars == <<timeout_count, timeout_count_max>>
putVars == <<tftp_put_active, tftp_put_final_block_sent>>
peerVars == <<sess, seen, lost>>
vars == <<loopVars, handlerVars, loadVars, blockVars, connVars, countVars,
          putVars, net, peerVars>>
hostVars == <<loopVars, handlerVars, loadVars, blockVars, connVars, countVars,
              putVars>>
-----------------------------------------------------------------------------
(* Packets.  num is the unbounded block number, a history value no code    *)
(* reads; hdr is the 16 bit field; off and len describe the payload: len   *)
(* bytes starting with byte off of the sender's file.  port is the UDP     *)
(* port at our end, tid the one at theirs.                                 *)

Packet(to, op, tid, port, num, hdr, off, len) ==
  [to |-> to, op |-> op, tid |-> tid, port |-> port, num |-> num,
   hdr |-> hdr, off |-> off, len |-> len]

\* The bytes of block n of the file, in blocks of bs bytes.
BlockLen(n, bs) == IF n * bs <= FileLen THEN bs ELSE FileLen - (n - 1) * bs

\* The last packet the peer of session t sent: the request or the OACK that
\* opens the session (number 0), a sender's current block, or a receiver's
\* last acknowledgement.
LastPacket(t) ==
  LET s == sess[t]
  IN  CASE s.num = 0 ->
             Packet("host", s.hello, t, s.port, 0, 0, 0, s.bs)
        [] s.num > 0 /\ s.kind = "send" ->
             Packet("host", "DATA", t, s.port, s.num, s.num % SeqSize,
                    (s.num - 1) * s.bs, BlockLen(s.num, s.bs))
        [] s.num > 0 /\ s.kind = "recv" ->
             Packet("host", "ACK", t, s.port, s.num, s.num % SeqSize, 0, 0)

\* What is left in flight once packet m has been taken.
Taken(m) == IF Wild THEN net ELSE net \ {m}

NoSession == [kind |-> "none", hello |-> "none", port |-> WellKnown,
              num |-> 0, bs |-> DefBlk, data |-> <<>>]

UsedPorts == {m.port : m \in net} \cup {sess[t].port : t \in Tids}
-----------------------------------------------------------------------------
(* net_start_again, as tftp.c sees it: give up, ask net_loop to restart at *)
(* once, or, when every interface has been tried, drop the UDP handler and *)
(* restart after ten seconds.  timer is the time-out handler in place when *)
(* it is called.                                                           *)

\* Mutant: the attempts are not counted.
net_start_again_uncounted(timer) ==
  /\ UNCHANGED net_try_count
  /\ \/ net_state' = "RESTART" /\ time_handler' = timer /\ UNCHANGED udp_handler
     \/ /\ time_handler' = "start_again" /\ udp_handler' = "none"
        /\ UNCHANGED net_state

net_start_again(timer) ==
  \/ /\ net_try_count >= MaxTries
     /\ net_state' = "FAIL" /\ time_handler' = timer
     /\ UNCHANGED <<net_try_count, udp_handler>>
  \/ /\ net_try_count < MaxTries
     /\ net_try_count' = net_try_count + 1
     /\ \/ /\ net_state' = "RESTART" /\ time_handler' = timer
           /\ UNCHANGED udp_handler
        \/ /\ time_handler' = "start_again" /\ udp_handler' = "none"
           /\ UNCHANGED net_state

(* load_block: the length is computed on unsigned numbers, so an offset    *)
(* past the end of the file yields a full block.                           *)
\* Mutant: blocks counted from 0.
LoadOffsetFrom0 == tftp_cur_block' * tftp_block_size' + tftp_block_wrap_offset'

LoadOffset == (tftp_cur_block' - 1) * tftp_block_size' + tftp_block_wrap_offset'

load_block ==
  LET rest == net_boot_file_size' - LoadOffset
  IN  IF rest < 0 \/ rest >= tftp_block_size' THEN tftp_block_size' ELSE rest

(* tftp_send, at the end of a handler: it reads what the handler has       *)
(* assigned.  inFlight are the packets already on the wire, final is       *)
(* tftp_put_final_block_sent when it is called.                            *)
tftp_send(inFlight, final) ==
  LET Send(op, num, hdr, off, len) ==
        net' = inFlight \cup {Packet("peer", op, tftp_remote_port',
                                     tftp_our_port', num, hdr, off, len)}
  IN  CASE tftp_state' = "SEND_RRQ" ->
             /\ Send("RRQ", 0, 0, 0, 0)
             /\ tftp_put_final_block_sent' = final
        [] tftp_state' = "SEND_WRQ" ->
             /\ Send("WRQ", 0, 0, 0, 0)
             /\ tftp_put_final_block_sent' = final
        [] tftp_state' \in {"OACK", "RECV_WRQ", "DATA"} /\ tftp_put_active' ->
             /\ Send("DATA", cur_num', tftp_cur_block' % SeqSize,
                     LoadOffset, load_block)
             /\ tftp_put_final_block_sent' = (load_block < tftp_block_size')
        [] tftp_state' \in {"OACK", "RECV_WRQ", "DATA"} /\ ~tftp_put_active' ->
             /\ Send("ACK", cur_num', tftp_cur_block' % SeqSize, 0, 0)
             /\ tftp_put_final_block_sent' = final
-----------------------------------------------------------------------------
(* Starting a transfer.  tftp_start serves tftpboot and tftpput; the port  *)
(* at our end is pseudo-random.                                            *)
\* Mutant: the count of time-outs and the block number survive a restart.
tftp_start_no_reset ==
  /\ tftp_put_active' = (protocol' = "TFTPPUT")
  /\ tftp_state' = IF tftp_put_active' THEN "SEND_WRQ" ELSE "SEND_RRQ"
  /\ net_boot_file_size' = IF tftp_put_active' THEN FileLen ELSE 0
  /\ UNCHANGED <<tftp_prev_block, tftp_block_wrap_offset, tftp_cur_block, cur_num>>
  /\ timeout_count_max' = TIMEOUT_COUNT /\ UNCHANGED timeout_count
  /\ time_handler' = "tftp" /\ udp_handler' = "tftp" /\ icmp_handler' = "tftp"
  /\ tftp_remote_port' = WellKnown
  /\ \E p \in Ports : /\ FreshPorts => p \notin UsedPorts
                      /\ tftp_our_port' = p
  /\ tftp_block_size' = DefBlk
  /\ tftp_send(net, tftp_put_final_block_sent /\ ~tftp_put_active')

tftp_start ==
  /\ tftp_put_active' = (protocol' = "TFTPPUT")
  /\ tftp_state' = IF tftp_put_active' THEN "SEND_WRQ" ELSE "SEND_RRQ"
  /\ net_boot_file_size' = IF tftp_put_active' THEN FileLen ELSE 0
  /\ IF tftp_put_active'
     THEN tftp_prev_block' = 0 /\ tftp_block_wrap_offset' = 0
     ELSE UNCHANGED <<tftp_prev_block, tftp_block_wrap_offset>>
  /\ timeout_count_max' = TIMEOUT_COUNT /\ timeout_count' = 0
  /\ time_handler' = "tftp" /\ udp_handler' = "tftp" /\ icmp_handler' = "tftp"
  /\ tftp_remote_port' = WellKnown
  /\ \E p \in Ports : /\ FreshPorts => p \notin UsedPorts
                      /\ tftp_our_port' = p
  /\ tftp_cur_block' = 0 /\ cur_num' = 0
  /\ tftp_block_size' = DefBlk
  /\ tftp_send(net, tftp_put_final_block_sent /\ ~tftp_put_active')

\* Mutant: the state tftp_start begins with.
tftp_start_server_as_client ==
  /\ tftp_state' = "SEND_RRQ"
  /\ net_boot_file_size' = 0
  /\ timeout_count_max' = TIMEOUT_COUNT /\ timeout_count' = 0
  /\ time_handler' = "tftp" /\ udp_handler' = "tftp"
  /\ tftp_block_size' = DefBlk
  /\ tftp_cur_block' = 0 /\ cur_num' = 0
  /\ tftp_our_port' = WellKnown
  /\ UNCHANGED <<icmp_handler, tftp_remote_port, tftp_prev_block,
                 tftp_block_wrap_offset, putVars, net>>

tftp_start_server ==
  /\ tftp_state' = "RECV_WRQ"
  /\ net_boot_file_size' = 0
  /\ timeout_count_max' = TIMEOUT_COUNT /\ timeout_count' = 0
  /\ time_handler' = "tftp" /\ udp_handler' = "tftp"
  /\ tftp_block_size' = DefBlk
  /\ tftp_cur_block' = 0 /\ cur_num' = 0
  /\ tftp_our_port' = WellKnown
  /\ UNCHANGED <<icmp_handler, tftp_remote_port, tftp_prev_block,
                 tftp_block_wrap_offset, putVars, net>>

\* The label restart of net_loop: start the protocol from scratch.
StartProtocol ==
  /\ net_state' = "CONTINUE" /\ in_switch' = FALSE
  /\ \/ protocol' \in {"TFTPGET", "TFTPPUT"} /\ tftp_start
     \/ protocol' = "TFTPSRV" /\ tftp_start_server
  /\ UNCHANGED <<mem, peerVars>>

\* net_loop(protocol), as the commands tftpboot, tftpput and tftpsrv call it.
net_loop ==
  /\ ~running /\ ncmd < MaxCmds
  /\ running' = TRUE
  /\ protocol' \in Commands
  /\ ncmd' = ncmd + 1 /\ net_try_count' = 1
  /\ StartProtocol
-----------------------------------------------------------------------------
(* Receiving.  eth_rx() hands packet m to the UDP handler; a driver may    *)
(* hand over several packets before net_loop looks at net_state.           *)

Arrives(m) ==
  /\ running /\ ~in_switch
  /\ Batch \/ net_state = "CONTINUE"
  /\ m \in net /\ m.to = "host"
  /\ m.num + Reorder >= seen[m.tid]
  /\ seen' = [seen EXCEPT ![m.tid] = IF @ < m.num THEN m.num ELSE @]
  /\ UNCHANGED <<running, in_switch, ncmd, protocol, icmp_handler, sess, lost>>

\* Mutant: the server port is not checked.
PortsAnyTid(m) == m.port = tftp_our_port

\* The port checks at the top of tftp_handler.
PortsOK(m) ==
  /\ m.port = tftp_our_port
  /\ \/ tftp_state \in {"SEND_RRQ", "RECV_WRQ", "SEND_WRQ"}
     \/ m.tid = tftp_remote_port

Accepted(m) == udp_handler = "tftp" /\ PortsOK(m)

\* A packet no handler wants, or an ACK while we are not sending.
Ignore(m) ==
  /\ Arrives(m)
  /\ ~Accepted(m) \/ (m.op = "ACK" /\ ~tftp_put_active)
  /\ net' = Taken(m)
  /\ UNCHANGED <<net_state, net_try_count, udp_handler, time_handler, loadVars,
                 blockVars, connVars, countVars, putVars>>

\* Mutants: the wrap is not detected; the sequence is one short.
NeverWrapped(block) == FALSE

\* update_block_number, for the new value block of tftp_cur_block: has the
\* 16 bit counter wrapped?
Wrapped(block) == block = 0 /\ tftp_prev_block # 0

update_block_number_short(block) ==
  IF Wrapped(block) THEN tftp_block_wrap_offset + tftp_block_size * (SeqSize - 1)
                    ELSE tftp_block_wrap_offset

update_block_number(block) ==
  IF Wrapped(block) THEN tftp_block_wrap_offset + tftp_block_size * SeqSize
                    ELSE tftp_block_wrap_offset

\* TFTP_ACK while putting a file.
RecvAck(m) ==
  /\ Arrives(m) /\ Accepted(m)
  /\ m.op = "ACK" /\ tftp_put_active
  /\ UNCHANGED <<net_try_count, udp_handler, time_handler, loadVars, connVars,
                 timeout_count_max, tftp_put_active>>
  /\ IF tftp_put_final_block_sent
     THEN /\ net_state' = "SUCCESS"                       \* tftp_complete
          /\ net' = Taken(m)
          /\ UNCHANGED <<blockVars, timeout_count, tftp_put_final_block_sent>>
     ELSE /\ tftp_cur_block' = (m.hdr + 1) % SeqSize /\ cur_num' = m.num + 1
          /\ tftp_block_wrap_offset' = update_block_number(tftp_cur_block')
          /\ timeout_count' =
               IF Wrapped(tftp_cur_block') THEN 0 ELSE timeout_count
          /\ IF tftp_cur_block = m.hdr
             THEN tftp_send(Taken(m), tftp_put_final_block_sent)
             ELSE net' = Taken(m) /\ UNCHANGED tftp_put_final_block_sent
          /\ UNCHANGED <<net_state, tftp_prev_block>>

\* TFTP_WRQ: a remote client offers a file; answer from a new port.
RecvWrq(m) ==
  /\ Arrives(m) /\ Accepted(m)
  /\ m.op = "WRQ"
  /\ tftp_remote_port' = m.tid
  /\ tftp_our_port' \in Ports
  /\ FreshPorts => tftp_our_port' \notin UsedPorts
  /\ tftp_prev_block' = 0 /\ tftp_block_wrap_offset' = 0  \* new_transfer
  /\ UNCHANGED <<tftp_state, tftp_block_size, tftp_cur_block, cur_num>>
  /\ UNCHANGED <<net_state, net_try_count, udp_handler, time_handler, loadVars,
                 countVars, tftp_put_active>>
  /\ tftp_send(Taken(m), FALSE)

\* TFTP_OACK: note the block size; acknowledge, or send the first block.
RecvOack(m) ==
  /\ Arrives(m) /\ Accepted(m)
  /\ m.op = "OACK"
  /\ tftp_put_active => tftp_cur_block < MaxCur
  /\ tftp_remote_port' = m.tid
  /\ tftp_block_size' = m.len
  /\ IF tftp_put_active
     THEN /\ tftp_state' = "DATA"
          /\ tftp_cur_block' = tftp_cur_block + 1 /\ cur_num' = cur_num + 1
     ELSE tftp_state' = "OACK" /\ UNCHANGED <<tftp_cur_block, cur_num>>
  /\ UNCHANGED <<tftp_our_port, tftp_prev_block, tftp_block_wrap_offset>>
  /\ UNCHANGED <<net_state, net_try_count, udp_handler, time_handler, loadVars,
                 countVars, tftp_put_active>>
  /\ tftp_send(Taken(m), tftp_put_final_block_sent)

\* Mutant: a short block is stored as a full one.
store_full_block(off, m) ==
  /\ mem' = [a \in DOMAIN mem \cup off..(off + tftp_block_size - 1) |->
               IF a \in off..(off + tftp_block_size - 1) THEN m.off + (a - off)
                                                         ELSE mem[a]]
  /\ net_boot_file_size' = IF net_boot_file_size < off + m.len
                           THEN off + m.len ELSE net_boot_file_size

\* store_block: write the payload of m at offset off from load_addr.
store_block(off, m) ==
  /\ mem' = [a \in DOMAIN mem \cup off..(off + m.len - 1) |->
               IF a \in off..(off + m.len - 1) THEN m.off + (a - off)
                                               ELSE mem[a]]
  /\ net_boot_file_size' = IF net_boot_file_size < off + m.len
                           THEN off + m.len ELSE net_boot_file_size

\* TFTP_DATA is the first block of a transfer in these states.
AwaitingFirst == tftp_state \in {"SEND_RRQ", "OACK", "RECV_WRQ"}

\* TFTP_DATA, the first block received is not block 1: start again.
RecvDataNotFirst(m) ==
  /\ Arrives(m) /\ Accepted(m)
  /\ m.op = "DATA" /\ AwaitingFirst /\ m.hdr # 1
  /\ tftp_cur_block' = m.hdr /\ cur_num' = m.num
  /\ timeout_count' = IF Wrapped(m.hdr) THEN 0 ELSE timeout_count
  /\ tftp_state' = "DATA" /\ tftp_remote_port' = m.tid
  /\ tftp_prev_block' = 0 /\ tftp_block_wrap_offset' = 0  \* new_transfer
  /\ tftp_put_final_block_sent' = FALSE
  /\ net_start_again(time_handler)
  /\ net' = Taken(m)
  /\ UNCHANGED <<loadVars, tftp_our_port, tftp_block_size, timeout_count_max,
                 tftp_put_active>>

\* TFTP_DATA, the same block again.
RecvDataSame(m) ==
  /\ Arrives(m) /\ Accepted(m)
  /\ m.op = "DATA" /\ ~AwaitingFirst /\ m.hdr = tftp_prev_block
  /\ tftp_cur_block' = m.hdr /\ cur_num' = m.num
  /\ net' = Taken(m)
  /\ UNCHANGED <<net_state, net_try_count, udp_handler, time_handler, loadVars,
                 tftp_prev_block, tftp_block_wrap_offset, connVars, countVars,
                 putVars>>

\* TFTP_DATA, a block to store: re-arm the timer, store it, acknowledge it,
\* and finish if it is a short one.
RecvData(m) ==
  /\ Arrives(m) /\ Accepted(m)
  /\ m.op = "DATA"
  /\ IF AwaitingFirst THEN m.hdr = 1 ELSE m.hdr # tftp_prev_block
  /\ tftp_cur_block' = m.hdr /\ cur_num' = m.num
  /\ timeout_count' = IF Wrapped(m.hdr) THEN 0 ELSE timeout_count
  /\ tftp_block_wrap_offset' =
       IF AwaitingFirst THEN 0 ELSE update_block_number(m.hdr)
  /\ tftp_state' = IF AwaitingFirst THEN "DATA" ELSE tftp_state
  /\ tftp_remote_port' = IF AwaitingFirst THEN m.tid ELSE tftp_remote_port
  /\ tftp_prev_block' = m.hdr
  /\ timeout_count_max' = TIMEOUT_COUNT
  /\ time_handler' = "tftp"
  /\ store_block((m.hdr - 1) * tftp_block_size + tftp_block_wrap_offset', m)
  /\ UNCHANGED <<tftp_our_port, tftp_block_size, tftp_put_active>>
  /\ tftp_send(Taken(m), tftp_put_final_block_sent /\ ~AwaitingFirst)
  /\ net_state' = IF m.len < tftp_block_size THEN "SUCCESS" ELSE net_state
  /\ UNCHANGED <<net_try_count, udp_handler>>

\* TFTP_ERROR: file not found or access denied is final for tftp.c, any
\* other error starts again.
RecvError(m) ==
  /\ Arrives(m) /\ Accepted(m)
  /\ \/ /\ m.op = "ERR_FILE_NOT_FOUND"
        /\ net_state' = "FAIL"
        /\ UNCHANGED <<net_try_count, udp_handler, time_handler>>
     \/ m.op = "ERR_OTHER" /\ net_start_again(time_handler)
  /\ net' = Taken(m)
  /\ UNCHANGED <<loadVars, blockVars, connVars, countVars, putVars>>

\* icmp_handler: port unreachable, "TFTP server died".
RecvIcmp ==
  /\ "icmp" \in Faults
  /\ running /\ ~in_switch /\ (Batch \/ net_state = "CONTINUE")
  /\ icmp_handler = "tftp"
  /\ net_start_again(time_handler)
  /\ UNCHANGED <<running, in_switch, ncmd, protocol, icmp_handler, loadVars,
                 blockVars, connVars, countVars, putVars, net, peerVars>>
-----------------------------------------------------------------------------
(* The rest of one turn of net_loop: the timer, then the switch on         *)
(* net_state.                                                              *)

\* With prompt delivery a timer runs out only when nothing is under way.
Idle == net = {} /\ net_state = "CONTINUE"

\* Mutant: give up one time-out early.
ExceededEarly == timeout_count' >= timeout_count_max

\* The test of tftp_timeout_handler.
Exceeded == timeout_count' > timeout_count_max

\* net_loop clears time_handler and calls tftp_timeout_handler.
tftp_timeout_handler ==
  /\ running /\ ~in_switch
  /\ time_handler = "tftp" /\ (Wild \/ Idle)
  /\ timeout_count' = timeout_count + 1
  /\ UNCHANGED <<running, ncmd, protocol, icmp_handler, loadVars, blockVars,
                 connVars, timeout_count_max, tftp_put_active, peerVars>>
  /\ IF Exceeded
     THEN net_start_again("none") /\ UNCHANGED <<net, tftp_put_final_block_sent>>
     ELSE /\ time_handler' = "tftp"
          /\ UNCHANGED <<net_state, net_try_count, udp_handler>>
          /\ IF tftp_state # "RECV_WRQ"
             THEN tftp_send(net, tftp_put_final_block_sent)
             ELSE UNCHANGED <<net, tftp_put_final_block_sent>>
  /\ in_switch' = (net_state' # "CONTINUE")

start_again_timeout_handler ==
  /\ running /\ ~in_switch
  /\ time_handler = "start_again" /\ (Wild \/ Idle)
  /\ time_handler' = "none"
  /\ net_state' = "RESTART" /\ in_switch' = TRUE
  /\ UNCHANGED <<running, ncmd, protocol, net_try_count, udp_handler,
                 icmp_handler, loadVars, blockVars, connVars, countVars,
                 putVars, net, peerVars>>

\* The end of net_loop; net_state keeps the outcome.
Leave ==
  /\ running' = FALSE /\ in_switch' = FALSE
  /\ udp_handler' = "none" /\ icmp_handler' = "none" /\ time_handler' = "none"
  /\ UNCHANGED <<ncmd, protocol, net_state, loadVars, blockVars, connVars,
                 countVars, putVars, net, peerVars>>

SwitchRestart ==
  /\ running /\ net_state = "RESTART"
  /\ UNCHANGED <<running, ncmd, protocol, net_try_count>>
  /\ StartProtocol

SwitchSuccess ==
  running /\ net_state = "SUCCESS" /\ Leave /\ UNCHANGED net_try_count

\* On NETLOOP_FAIL net_loop itself calls net_start_again, which may turn
\* the failure into a restart.
SwitchRetry ==
  /\ running /\ net_state = "FAIL"
  /\ net_try_count < MaxTries /\ net_try_count' = net_try_count + 1
  /\ UNCHANGED <<running, ncmd, protocol>>
  /\ StartProtocol

\* Otherwise, and also when every interface has been tried (net_state then
\* stays NETLOOP_FAIL), net_loop ends.
SwitchFail ==
  /\ running /\ net_state = "FAIL" /\ Leave
  /\ net_try_count' = IF net_try_count < MaxTries THEN net_try_count + 1
                                                  ELSE net_try_count

\* Control-C: the loop ends whatever net_state is.  "ABORT" records that it
\* did; the code leaves net_state alone and sets it anew in the next call.
CtrlC ==
  /\ "ctrlc" \in Faults
  /\ running /\ ~in_switch
  /\ running' = FALSE
  /\ udp_handler' = "none" /\ icmp_handler' = "none" /\ time_handler' = "none"
  /\ net_state' = "ABORT"
  /\ UNCHANGED <<in_switch, ncmd, protocol, net_try_count, loadVars, blockVars,
                 connVars, countVars, putVars, net, peerVars>>
-----------------------------------------------------------------------------
(* The peers.                                                              *)

\* A packet for session t that the network has not delayed too long.
Reaches(m, t) ==
  /\ m \in net /\ m.to = "peer" /\ m.tid = t
  /\ m.num + Reorder >= sess[t].num - (IF sess[t].kind = "send" THEN 1 ELSE 0)
  /\ UNCHANGED <<hostVars, seen, lost>>

\* A server answers a request with a new session, with an error, or, if it
\* has a session with that port already, by repeating its last packet.
ServerRequest(m) ==
  /\ m \in net /\ m.to = "peer" /\ m.op \in {"RRQ", "WRQ"}
  /\ UNCHANGED <<hostVars, seen, lost>>
  /\ \/ \E t \in Tids, opt \in ServerOpts :
          /\ sess[t].kind = "none"
          /\ sess' = [sess EXCEPT ![t] =
               [kind  |-> IF m.op = "RRQ" THEN "send" ELSE "recv",
                hello |-> IF opt THEN "OACK" ELSE "ACK",
                port  |-> m.port,
                num   |-> IF m.op = "RRQ" /\ ~opt THEN 1 ELSE 0,
                bs    |-> IF opt THEN OptBlk ELSE DefBlk,
                data  |-> <<>>]]
          /\ net' = Taken(m) \cup {LastPacket(t)'}
     \/ \E t \in Tids, err \in {"notfound", "error"} \cap Faults :
          /\ net' = Taken(m) \cup
               {Packet("host", IF err = "error" THEN "ERR_OTHER"
                                                ELSE "ERR_FILE_NOT_FOUND",
                       t, m.port, 0, 0, 0, 0)}
          /\ UNCHANGED sess
     \/ \E t \in Tids :
          /\ sess[t].kind # "none" /\ sess[t].port = m.port
          /\ net' = Taken(m) \cup {LastPacket(t)}
          /\ UNCHANGED sess

\* A sender (the server of a tftpboot, the client of a tftpsrv) moves on to
\* the next block when its current one is acknowledged, and repeats its
\* current one on any other acknowledgement.
SenderAck(m, t) ==
  /\ Reaches(m, t) /\ m.op = "ACK"
  /\ sess[t].kind = "send"
  /\ m.port = sess[t].port \/ (sess[t].hello = "WRQ" /\ sess[t].num = 0)
  /\ IF m.hdr = sess[t].num % SeqSize /\ sess[t].num * sess[t].bs <= FileLen
     THEN /\ sess' = [sess EXCEPT ![t].num = @ + 1, ![t].port = m.port]
          /\ net' = Taken(m) \cup {LastPacket(t)'}
     ELSE net' = Taken(m) \cup {LastPacket(t)} /\ UNCHANGED sess

\* The server of a tftpput appends the block it expects, and acknowledges
\* that block or the repetition of the one before.
ReceiverData(m, t) ==
  /\ Reaches(m, t) /\ m.op = "DATA"
  /\ sess[t].kind = "recv" /\ m.port = sess[t].port
  /\ IF /\ m.hdr = (sess[t].num + 1) % SeqSize
        /\ Len(sess[t].data) = sess[t].num * sess[t].bs
     THEN /\ sess' = [sess EXCEPT
               ![t].num = @ + 1,
               ![t].data = @ \o [i \in 1..m.len |-> m.off + i - 1]]
          /\ net' = Taken(m) \cup {LastPacket(t)'}
     ELSE IF m.hdr = sess[t].num % SeqSize
     THEN net' = Taken(m) \cup {LastPacket(t)} /\ UNCHANGED sess
     ELSE net' = Taken(m) /\ UNCHANGED sess

\* A remote client offers its file to tftpsrv.
RemoteWrq ==
  /\ "TFTPSRV" \in Commands
  /\ \E t \in Tids :
       /\ sess[t].kind = "none"
       /\ sess' = [sess EXCEPT ![t] =
            [kind |-> "send", hello |-> "WRQ", port |-> WellKnown, num |-> 0,
             bs |-> DefBlk, data |-> <<>>]]
       /\ net' = net \cup {LastPacket(t)'}
  /\ UNCHANGED <<hostVars, seen, lost>>

\* Without duplication by the network, the peers' own retransmission.
PeerTimeout ==
  /\ ~Wild /\ Idle
  /\ \E t \in Tids : sess[t].kind # "none" /\ net' = {LastPacket(t)}
  /\ UNCHANGED <<hostVars, peerVars>>

Lose ==
  /\ ~Wild /\ lost < MaxLoss
  /\ \E m \in net : net' = net \ {m}
  /\ lost' = lost + 1
  /\ UNCHANGED <<hostVars, sess, seen>>
-----------------------------------------------------------------------------
Init ==
  /\ running = FALSE /\ in_switch = FALSE /\ ncmd = 0
  /\ protocol = "none" /\ net_state = "CONTINUE" /\ net_try_count = 0
  /\ udp_handler = "none" /\ icmp_handler = "none" /\ time_handler = "none"
  /\ net_boot_file_size = 0 /\ mem = [a \in {} |-> 0]
  /\ tftp_state = "none" /\ tftp_remote_port = WellKnown
  /\ tftp_our_port = WellKnown /\ tftp_block_size = DefBlk
  /\ tftp_cur_block = 0 /\ tftp_prev_block = 0
  /\ tftp_block_wrap_offset = 0 /\ cur_num = 0
  /\ timeout_count = 0 /\ timeout_count_max = TIMEOUT_COUNT
  /\ tftp_put_active = FALSE /\ tftp_put_final_block_sent = FALSE
  /\ net = {} /\ lost = 0
  /\ sess = [t \in Tids |-> NoSession] /\ seen = [t \in Tids |-> 0]

Receive ==
  \/ \E m \in net : \/ Ignore(m) \/ RecvAck(m) \/ RecvWrq(m) \/ RecvOack(m)
                    \/ RecvDataNotFirst(m) \/ RecvDataSame(m) \/ RecvData(m)
                    \/ RecvError(m)
  \/ RecvIcmp

Timer == tftp_timeout_handler \/ start_again_timeout_handler

Switch == SwitchRestart \/ SwitchSuccess \/ SwitchRetry \/ SwitchFail

Peer ==
  \/ \E m \in net : \/ ServerRequest(m)
                    \/ \E t \in Tids : SenderAck(m, t) \/ ReceiverData(m, t)
  \/ RemoteWrq
  \/ PeerTimeout

Next == net_loop \/ Receive \/ Timer \/ Switch \/ CtrlC \/ Peer \/ Lose

Spec == Init /\ [][Next]_vars

\* The same in a wild network, where Lose and PeerTimeout are never enabled: a
\* packet there may come any number of times, or never.
WildNext ==
  \/ net_loop \/ Receive \/ Timer \/ Switch \/ CtrlC \/ RemoteWrq
  \/ \E m \in net : \/ ServerRequest(m)
                    \/ \E t \in Tids : SenderAck(m, t) \/ ReceiverData(m, t)

WildSpec == Init /\ [][WildNext]_vars

\* A polling loop that runs: timers are looked at and net_state is acted on.
\* No packet need ever arrive.
LoopFairness == WF_vars(Timer) /\ WF_vars(Switch)
LoopSpec == Spec /\ LoopFairness

\* Moreover the network delivers what it does not lose, and peers answer.  A
\* timer that is not re-armed expires even if packets keep arriving.
PromptSpec == LoopSpec /\ SF_vars(Timer) /\ WF_vars(Receive) /\ WF_vars(Peer)
-----------------------------------------------------------------------------
(* Properties.                                                             *)

Done == ~running /\ net_state = "SUCCESS"

FlagType ==
  /\ running \in BOOLEAN /\ in_switch \in BOOLEAN
  /\ tftp_put_active \in BOOLEAN /\ tftp_put_final_block_sent \in BOOLEAN

LoopType ==
  /\ ncmd \in 0..MaxCmds /\ protocol \in Commands \cup {"none"}
  /\ net_state \in {"CONTINUE", "RESTART", "SUCCESS", "FAIL", "ABORT"}
  /\ net_try_count \in Nat
  /\ udp_handler \in {"none", "tftp"} /\ icmp_handler \in {"none", "tftp"}
  /\ time_handler \in {"none", "tftp", "start_again"}
  /\ lost \in 0..MaxLoss /\ seen \in [Tids -> Nat]

ConnType ==
  /\ tftp_state \in {"none", "SEND_RRQ", "SEND_WRQ", "RECV_WRQ", "OACK", "DATA"}
  /\ tftp_remote_port \in Tids \cup {WellKnown}
  /\ tftp_our_port \in Ports \cup {WellKnown}
  /\ tftp_block_size \in {DefBlk, OptBlk}

CountType ==
  /\ net_boot_file_size \in Nat
  /\ tftp_cur_block \in Nat /\ tftp_prev_block \in 0..(SeqSize - 1)
  /\ tftp_block_wrap_offset \in Nat /\ cur_num \in Nat
  /\ timeout_count \in 0..(TIMEOUT_COUNT + 1)
  /\ timeout_count_max = TIMEOUT_COUNT

\* The variables hold values of the C types they stand for: block numbers
\* stay within the counter, the count of time-outs within its limit, handlers
\* and states are the ones tftp.c and net.c install.
TypeOK == FlagType /\ LoopType /\ ConnType /\ CountType

\* When tftpboot or tftpsrv reports success, memory holds the file, every
\* byte in its place, and net_boot_file_size (the "filesize" variable) is its
\* length (store_block, update_block_number, tftp_complete).
LoadIntegrity ==
  Done /\ protocol \in {"TFTPGET", "TFTPSRV"} =>
    /\ net_boot_file_size = FileLen
    /\ \A a \in 0..(FileLen - 1) : a \in DOMAIN mem /\ mem[a] = a

\* store_block never writes outside the memory the file occupies, below
\* load_addr or past the end of the file.
StoreExtent == DOMAIN mem \subseteq 0..(FileLen - 1)

\* tftp.c acknowledges block n only when it has stored blocks 1 to n: a
\* server that has the last acknowledgement may forget the file.
AckedIsStored ==
  \A m \in net :
    m.to = "peer" /\ m.op = "ACK" /\ m.port = tftp_our_port =>
      \A a \in 0..(FileLen - 1) :
        a < m.num * tftp_block_size => a \in DOMAIN mem /\ mem[a] = a

\* A transfer stays with the server session that answered first: duplicate
\* requests open several sessions, and tftp_handler filters by their port.
SessionLock ==
  [][(tftp_state \in {"OACK", "DATA"} /\ tftp_state' \in {"OACK", "DATA"})
      => UNCHANGED tftp_remote_port]_vars

\* Whatever the network does, net_loop ends: time-outs are counted and the
\* attempts are bounded (tftp_timeout_handler, net_start_again).
Terminates == running ~> ~running

\* A transfer survives MaxLoss lost packets.
Recovers == running ~> Done

\* What a server has stored of a tftpput is always a prefix of the file
\* (load_block, the ACK case of tftp_handler).
PutPrefix ==
  \A t \in Tids : sess[t].kind = "recv" =>
    /\ Len(sess[t].data) <= FileLen
    /\ \A i \in 1..Len(sess[t].data) : sess[t].data[i] = i - 1

\* When tftpput reports success, a server has the whole file.
PutDelivered ==
  Done /\ protocol = "TFTPPUT" =>
    \E t \in Tids : sess[t].kind = "recv" /\ Len(sess[t].data) = FileLen

\* tftpsrv answers with acknowledgements and never with data.
SrvSendsAcks ==
  protocol = "TFTPSRV" =>
    \A m \in net : m.to = "peer" /\ m.port = tftp_our_port => m.op = "ACK"
=============================================================================
