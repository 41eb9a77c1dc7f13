----------------------------- MODULE TftpGetInv -----------------------------
(***************************************************************************)
(* The inductive invariant behind LoadIntegrity for tftpboot over a        *)
(* network that keeps the order of the packets of one session.             *)
(***************************************************************************)
EXTENDS Tftp

InMem(a) == a \in DOMAIN mem /\ mem[a] = a

\* The first n bytes of the file are in memory.
Stored(n) == \A a \in 0..(FileLen - 1) : a < n => InMem(a)

Session == [kind : {"none", "send"}, hello : {"none", "OACK", "ACK"},
            port : Nat, num : Nat, bs : Nat \ {0}, data : {<<>>}]

\* What the server has and has not been told: it is at most one block ahead
\* of what has reached us.
SessInv(t) ==
  /\ sess[t].kind = "none" => sess[t].port = WellKnown /\ sess[t].num = 0
  /\ sess[t].kind = "send" =>
       /\ sess[t].port \in Ports
       /\ sess[t].num = 0 => sess[t].hello = "OACK"
       /\ (sess[t].num - 1) * sess[t].bs <= FileLen
  /\ seen[t] <= sess[t].num /\ sess[t].num <= seen[t] + 1

HostPacketInv(m) ==
  /\ m.tid \in Tids
  /\ \/ /\ m.op \in {"ERR_FILE_NOT_FOUND", "ERR_OTHER"}
        /\ m.num = 0
     \/ /\ sess[m.tid].kind = "send" /\ m.port = sess[m.tid].port
        /\ m.num <= sess[m.tid].num
        /\ \/ m.op = "OACK" /\ m.num = 0 /\ m.len = sess[m.tid].bs
           \/ /\ m.op = "DATA" /\ m.num > 0 /\ m.hdr = m.num % SeqSize
              /\ m.off = (m.num - 1) * sess[m.tid].bs
              /\ m.len = BlockLen(m.num, sess[m.tid].bs)

PeerPacketInv(m) ==
  \/ m.op = "RRQ" /\ m.port \in Ports
  \/ /\ m.op = "ACK" /\ m.tid \in Tids
     /\ sess[m.tid].kind = "send" /\ m.port = sess[m.tid].port
     /\ m.num <= seen[m.tid] /\ m.hdr = m.num % SeqSize

PacketInv(m) ==
  /\ m.num \in Nat
  /\ \/ m.to = "host" /\ HostPacketInv(m)
     \/ m.to = "peer" /\ PeerPacketInv(m)

\* Waiting for a first answer: no session of this transfer has been heard.
RequestInv ==
  /\ tftp_our_port \in Ports
  /\ cur_num = 0 /\ tftp_cur_block = 0
  /\ tftp_block_size = DefBlk /\ net_boot_file_size = 0
  /\ \A m \in net : m.op = "ACK" => m.port # tftp_our_port
  /\ \A t \in Tids : sess[t].port = tftp_our_port =>
       /\ sess[t].num > 0 => sess[t].bs = DefBlk
       /\ udp_handler = "tftp" => seen[t] = 0

\* Bound to one session, whose blocks are acknowledged as they come.
LockedInv ==
  /\ tftp_our_port \in Ports /\ tftp_remote_port \in Tids
  /\ sess[tftp_remote_port].kind = "send"
  /\ sess[tftp_remote_port].port = tftp_our_port
  /\ tftp_block_size = sess[tftp_remote_port].bs
  /\ cur_num <= seen[tftp_remote_port]
  /\ udp_handler = "tftp" => cur_num = seen[tftp_remote_port]
  /\ tftp_cur_block = cur_num % SeqSize
  /\ \A m \in net : m.op = "ACK" /\ m.port = tftp_our_port => m.num <= cur_num

\* Blocks 1 to cur_num are in memory and the wrap offset makes up for what
\* the 16 bit counter has dropped.
DataInv ==
  /\ cur_num > 0
  /\ tftp_prev_block = tftp_cur_block
  /\ tftp_block_wrap_offset = tftp_block_size * (cur_num - tftp_cur_block)
  /\ Stored(cur_num * tftp_block_size)
  /\ net_boot_file_size = IF cur_num * tftp_block_size <= FileLen
                          THEN cur_num * tftp_block_size ELSE FileLen

StateInv ==
  /\ ~tftp_put_active
  /\ tftp_state \in {"none", "SEND_RRQ", "OACK", "DATA"}
  /\ (running \/ udp_handler = "tftp" \/ time_handler = "tftp")
       => tftp_state # "none" /\ protocol = "TFTPGET"
  /\ tftp_state = "none" => tftp_our_port = WellKnown
  /\ tftp_state = "SEND_RRQ" => RequestInv
  /\ tftp_state \in {"OACK", "DATA"} => LockedInv
  /\ tftp_state = "OACK" => cur_num = 0 /\ net_boot_file_size = 0
  /\ tftp_state = "DATA" => DataInv

MemInv ==
  /\ DOMAIN mem \subseteq 0..(FileLen - 1)
  /\ \A a \in DOMAIN mem : mem[a] = a

DoneInv ==
  net_state = "SUCCESS" => net_boot_file_size = FileLen /\ Stored(FileLen)

ShapeInv ==
  /\ sess \in [Tids -> Session] /\ seen \in [Tids -> Nat]
  /\ cur_num \in Nat /\ net_boot_file_size \in Nat

\* GetInv is inductive.  It says that each session of the server is at most
\* one block ahead of us, that the packets in flight agree with the sessions,
\* that acknowledged blocks are stored, and that the wrap offset is exact.
GetInv ==
  /\ ShapeInv
  /\ \A t \in Tids : SessInv(t)
  /\ \A m \in net : PacketInv(m)
  /\ StateInv
  /\ MemInv
  /\ DoneInv
=============================================================================
