----------------------------- MODULE TftpPutInv -----------------------------
(***************************************************************************)
(* The inductive invariants behind PutPrefix and SrvSendsAcks, over a      *)
(* network that loses, duplicates and reorders packets.                    *)
(***************************************************************************)
EXTENDS Tftp

\* A remote client has offered a file, and nobody has answered.
Offered(t) ==
  /\ sess[t].kind \in {"none", "send"}
  /\ sess[t].kind = "send" =>
       sess[t].hello = "WRQ" /\ sess[t].num = 0 /\ sess[t].port = WellKnown

Offer(m) == m.to = "host" /\ m.op = "WRQ" /\ m.port = WellKnown

\* Before the first command we have sent nothing.
Quiet ==
  /\ protocol = "none" <=> ncmd = 0
  /\ protocol = "none" =>
       /\ ~running /\ ~tftp_put_active
       /\ (\A m \in net : Offer(m)) /\ (\A t \in Tids : Offered(t))
-----------------------------------------------------------------------------
(* tftpput.                                                                *)

\* The bytes load_block copies from offset off.
Loaded(off, bs) ==
  IF FileLen - off < 0 \/ FileLen - off >= bs THEN bs ELSE FileLen - off

\* data are blocks 1 to num of the file, in blocks of bs bytes.
HasBlocks(data, num, bs) ==
  /\ data \in Seq(Int)
  /\ Len(data) = IF num * bs <= FileLen THEN num * bs ELSE FileLen
  /\ \A i \in 1..Len(data) : data[i] = i - 1

\* A server has the blocks up to its last one, in its own block size.
PutSession(t) ==
  \/ Offered(t)
  \/ /\ sess[t].kind = "recv" /\ sess[t].hello \in {"OACK", "ACK"}
     /\ HasBlocks(sess[t].data, sess[t].num, sess[t].bs)

\* A data packet holds the bytes its block number says, in the block size of
\* the session it goes to; c is tftp_cur_block when it was sent.
PutPacket(m) ==
  \/ Offer(m)
  \/ m.to = "host" /\ m.op \in {"ERR_FILE_NOT_FOUND", "ERR_OTHER"}
  \/ m.to = "peer" /\ m.op = "WRQ"
  \/ /\ m.tid \in Tids /\ sess[m.tid].kind = "recv"
     /\ \/ m.to = "host" /\ m.op = "ACK"
        \/ m.to = "host" /\ m.op = "OACK" /\ m.len = sess[m.tid].bs
        \/ /\ m.to = "peer" /\ m.op = "DATA"
           /\ \E c \in 0..SeqSize :
                /\ m.hdr = c % SeqSize
                /\ m.off = (c - 1) * sess[m.tid].bs
                /\ m.len = Loaded(m.off, sess[m.tid].bs)

\* The block size we send with is the one of the session we send to.
PutHost ==
  /\ tftp_put_active /\ tftp_state \in {"SEND_WRQ", "DATA"}
  /\ tftp_our_port # WellKnown /\ net_boot_file_size = FileLen
  /\ tftp_cur_block \in 0..SeqSize
  /\ tftp_prev_block = 0 /\ tftp_block_wrap_offset = 0
  /\ tftp_state = "DATA" =>
       /\ tftp_remote_port \in Tids /\ sess[tftp_remote_port].kind = "recv"
       /\ tftp_block_size = sess[tftp_remote_port].bs

\* Without a tftpput no server receives a file.
NoPut ==
  /\ \A t \in Tids : sess[t].kind # "recv"
  /\ \A m \in net : m.to = "peer" => m.op # "WRQ"
  /\ tftp_state # "SEND_WRQ"

\* PutInv is inductive when the file has fewer blocks than there are block
\* numbers: what a server stores is what the block numbers it expects say.
PutInv ==
  /\ Quiet
  /\ protocol # "TFTPPUT" => NoPut
  /\ protocol = "TFTPPUT" =>
       /\ PutHost
       /\ \A t \in Tids : PutSession(t)
       /\ \A m \in net : PutPacket(m)
-----------------------------------------------------------------------------
(* tftpsrv.                                                                *)

\* SrvInv is inductive: only offers come to the well-known port and nothing
\* is sent from it, tftpsrv leaves it before it acknowledges, and
\* tftp_put_active is left over from no tftpput.
SrvInv ==
  /\ Quiet
  /\ \A t \in Tids : sess[t].kind # "none" /\ sess[t].port = WellKnown => Offered(t)
  /\ \A m \in net : m.port = WellKnown => Offer(m)
  /\ tftp_put_active => protocol = "TFTPPUT"
  /\ protocol \in {"TFTPGET", "TFTPPUT"} => tftp_our_port # WellKnown
  /\ protocol = "TFTPSRV" =>
       /\ tftp_state \in {"RECV_WRQ", "OACK", "DATA"}
       /\ tftp_our_port = WellKnown => tftp_state = "RECV_WRQ"
       /\ \A m \in net : m.to = "peer" /\ (MaxCmds <= 1 \/ m.port = tftp_our_port)
                           => m.op = "ACK"
=============================================================================
