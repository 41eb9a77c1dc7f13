--------------------------- MODULE TftpTypeProofs ---------------------------
(***************************************************************************)
(* Type correctness of Tftp, for all three protocols and all faults: the   *)
(* types made inductive, and the packet handlers, the timers, the peers    *)
(* and the network that keep them.  With the types, SrvSendsAcks and       *)
(* PutPrefix over a network that loses, duplicates and reorders packets.   *)
(***************************************************************************)
EXTENDS TftpPutInv, TLAPS

\* The sessions of the peers.
SessType ==
  /\ DOMAIN sess = Tids
  /\ \A t \in Tids :
       /\ DOMAIN sess[t] = {"kind", "hello", "port", "num", "bs", "data"}
       /\ sess[t].kind \in {"none", "send", "recv"}
       /\ sess[t].num \in Nat /\ sess[t].bs \in {DefBlk, OptBlk}
       /\ sess[t].kind = "none" => sess[t].num = 0

\* The packets on their way to us.
PacketType(m) ==
  m.to = "host" =>
    /\ m.tid \in Tids /\ m.num \in Nat /\ m.hdr \in 0..(SeqSize - 1)
    /\ m.len \in Int
    /\ m.op = "OACK" => m.len \in {DefBlk, OptBlk}

\* Too many time-outs, and nothing can count another one.
TimeoutBound ==
  timeout_count > TIMEOUT_COUNT =>
    time_handler # "tftp" /\ (in_switch \/ udp_handler = "none")

\* The states in which tftp_send is called.
Started ==
  tftp_state \in {"SEND_RRQ", "SEND_WRQ", "RECV_WRQ", "OACK", "DATA"}

\* The inductive invariant behind TypeOK.
TypeInv ==
  /\ TypeOK /\ SessType /\ TimeoutBound
  /\ \A m \in net : PacketType(m)
  /\ running => Started
-----------------------------------------------------------------------------
\* The initial states are well typed.
LEMMA InitType == Init => TypeInv
<1> SUFFICES ASSUME Init PROVE TypeInv  BY Zenon
<1> USE TftpAssumption DEF Init
<1>1. FlagType  BY Zenon DEF FlagType
<1>2. LoopType  BY DEF LoopType
<1>3. ConnType  BY Zenon DEF ConnType
<1>4. CountType  BY DEF CountType
<1>5. SessType  BY Zenon DEF SessType, NoSession
<1> QED BY Zenon, <1>1, <1>2, <1>3, <1>4, <1>5 DEF TypeInv, TypeOK, TimeoutBound

\* Packets sent by tftp_send go to the peers.
LEMMA SendType ==
  ASSUME NEW STATE inFlight, NEW STATE final, tftp_send(inFlight, final),
         final \in BOOLEAN,
         Started',
         tftp_put_active' \in BOOLEAN,
         \A m \in inFlight : PacketType(m)
  PROVE  /\ \A m \in net' : PacketType(m)
         /\ tftp_put_final_block_sent' \in BOOLEAN
<1> USE DEF Started
<1>1. PICK p : p.to = "peer" /\ net' = inFlight \cup {p}
  <2>1. CASE tftp_state' = "SEND_RRQ"  BY Zenon, <2>1 DEF tftp_send, Packet
  <2>2. CASE tftp_state' = "SEND_WRQ"  BY Zenon, <2>2 DEF tftp_send, Packet
  <2>3. CASE tftp_state' \in {"OACK", "RECV_WRQ", "DATA"} /\ tftp_put_active'
    BY Zenon, <2>3 DEF tftp_send, Packet
  <2>4. CASE tftp_state' \in {"OACK", "RECV_WRQ", "DATA"} /\ ~tftp_put_active'
    BY Zenon, <2>4 DEF tftp_send, Packet
  <2> QED BY Zenon, <2>1, <2>2, <2>3, <2>4
<1>2. tftp_put_final_block_sent' \in BOOLEAN
  <2>1. CASE tftp_state' \in {"SEND_RRQ", "SEND_WRQ"}  BY Zenon, <2>1 DEF tftp_send
  <2>2. CASE tftp_state' \in {"OACK", "RECV_WRQ", "DATA"} /\ tftp_put_active'
    BY <2>2 DEF tftp_send
  <2>3. CASE tftp_state' \in {"OACK", "RECV_WRQ", "DATA"} /\ ~tftp_put_active'
    BY Zenon, <2>3 DEF tftp_send
  <2> QED BY Zenon, <2>1, <2>2, <2>3
<1> QED BY Zenon, <1>1, <1>2 DEF PacketType

\* net_start_again installs states and timers tftp.c knows.
LEMMA StartAgainType ==
  ASSUME NEW STATE timer, net_start_again(timer), TypeOK,
         timer \in {"none", "tftp", "start_again"}
  PROVE  /\ net_state' \in {"CONTINUE", "RESTART", "SUCCESS", "FAIL", "ABORT"}
         /\ net_try_count' \in Nat
         /\ udp_handler' \in {"none", "tftp"}
         /\ time_handler' \in {"none", "tftp", "start_again"}
         /\ udp_handler = "none" => udp_handler' = "none"
         /\ time_handler' = "tftp" => timer = "tftp"
  BY DEF net_start_again, TypeOK, LoopType

\* Starting a protocol.
LEMMA StartType ==
  ASSUME TypeInv, StartProtocol, protocol' \in Commands, ncmd' \in 0..MaxCmds,
         running' \in BOOLEAN, net_try_count' \in Nat
  PROVE  TypeInv'
<1> USE TftpAssumption DEF peerVars, putVars
<1>1. in_switch' = FALSE /\ net_state' = "CONTINUE" /\ UNCHANGED <<sess, seen, lost>>
  BY Zenon DEF StartProtocol
<1>2. SessType'  BY Zenon, <1>1 DEF TypeInv, SessType
<1>3. CASE protocol' = "TFTPSRV"
  <2>1. tftp_start_server  BY Zenon, <1>3 DEF StartProtocol
  <2> USE <1>1, <2>1 DEF tftp_start_server, TypeInv, TypeOK
  <2>a. FlagType'  BY Zenon DEF FlagType
  <2>b. LoopType'  BY Zenon DEF LoopType
  <2>c. ConnType'  BY Zenon DEF ConnType
  <2>d. CountType'  BY DEF CountType
  <2>2. TypeOK'  BY Zenon, <2>a, <2>b, <2>c, <2>d
  <2> QED BY <1>1, <1>2, <2>1, <2>2
          DEF tftp_start_server, TypeInv, TimeoutBound, PacketType, Started
<1>4. CASE protocol' \in {"TFTPGET", "TFTPPUT"}
  <2>1. tftp_start  BY Zenon, <1>4 DEF StartProtocol
  <2>2. /\ tftp_put_active' \in BOOLEAN
        /\ tftp_state' \in {"SEND_RRQ", "SEND_WRQ"}
        /\ tftp_send(net, tftp_put_final_block_sent /\ ~tftp_put_active')
        /\ time_handler' = "tftp" /\ udp_handler' = "tftp" /\ icmp_handler' = "tftp"
        /\ timeout_count' = 0 /\ timeout_count_max' = TIMEOUT_COUNT
        /\ tftp_remote_port' = WellKnown /\ tftp_our_port' \in Ports
        /\ tftp_cur_block' = 0 /\ cur_num' = 0 /\ tftp_block_size' = DefBlk
        /\ net_boot_file_size' \in {0, FileLen}
    BY Zenon, <2>1 DEF tftp_start
  <2>3. /\ tftp_prev_block' \in 0..(SeqSize - 1)
        /\ tftp_block_wrap_offset' \in Nat
    BY <2>1 DEF tftp_start, TypeInv, TypeOK, CountType
  <2>4. (tftp_put_final_block_sent /\ ~tftp_put_active') \in BOOLEAN
    BY Zenon
  <2>5. /\ \A m \in net' : PacketType(m)
        /\ tftp_put_final_block_sent' \in BOOLEAN
    BY Zenon, <2>2, <2>4, SendType DEF TypeInv, Started
  <2>6. TypeOK'
    <3> USE <1>1, <2>2 DEF TypeInv, TypeOK
    <3>1. FlagType'  BY Zenon, <2>5 DEF FlagType
    <3>2. LoopType'  BY Zenon DEF LoopType
    <3>3. ConnType'  BY Zenon DEF ConnType
    <3>4. CountType'  BY <2>3 DEF CountType
    <3> QED BY Zenon, <3>1, <3>2, <3>3, <3>4
  <2>7. Started'  BY Zenon, <2>2 DEF Started
  <2> QED BY <1>1, <1>2, <2>2, <2>5, <2>6, <2>7
          DEF TypeInv, TimeoutBound, PacketType
<1> QED BY Zenon, <1>3, <1>4
-----------------------------------------------------------------------------
\* A packet that arrives is well typed, and so is what we have seen.
LEMMA ArrivesType ==
  ASSUME TypeInv, NEW m \in net, Arrives(m)
  PROVE  /\ m.tid \in Tids /\ m.num \in Nat /\ m.hdr \in 0..(SeqSize - 1)
         /\ m.len \in Int /\ (m.op = "OACK" => m.len \in {DefBlk, OptBlk})
         /\ running /\ running' /\ Started /\ in_switch = FALSE /\ in_switch' = FALSE
         /\ UNCHANGED <<ncmd, protocol, icmp_handler, sess, lost>>
         /\ seen' \in [Tids -> Nat] /\ SessType'
         /\ \A p \in Taken(m) : PacketType(p)
<1>1. PacketType(m) /\ m.to = "host" /\ SessType /\ TypeOK
  BY Zenon DEF Arrives, TypeInv
<1>2. m.tid \in Tids /\ m.num \in Nat  BY Zenon, <1>1 DEF PacketType
<1>3. seen \in [Tids -> Nat]  BY Zenon, <1>1 DEF TypeOK, LoopType
<1>4. seen' \in [Tids -> Nat]
  <2>1. (IF seen[m.tid] < m.num THEN m.num ELSE seen[m.tid]) \in Nat
    BY Zenon, <1>2, <1>3
  <2> QED BY Zenon, <1>3, <2>1 DEF Arrives
<1>5. in_switch = FALSE /\ Started  BY Zenon, <1>1 DEF Arrives, TypeInv, TypeOK, FlagType
<1>6. SessType'  BY Zenon, <1>1 DEF Arrives, SessType
<1>7. \A p \in Taken(m) : PacketType(p)  BY Zenon DEF Taken, TypeInv
<1> QED BY Zenon, <1>1, <1>4, <1>5, <1>6, <1>7 DEF Arrives, PacketType

\* The time-outs stay bounded while packets arrive: only a packet taken by
\* tftp_handler re-arms its timer.
LEMMA BoundStep ==
  ASSUME TypeInv, in_switch = FALSE, timeout_count' \in {0, timeout_count},
         udp_handler = "none" => udp_handler' = "none",
         time_handler' = "tftp" => time_handler = "tftp" \/ udp_handler = "tftp"
  PROVE  TimeoutBound' /\ timeout_count' \in 0..(TIMEOUT_COUNT + 1)
<1> USE TftpAssumption
<1>1. timeout_count \in 0..(TIMEOUT_COUNT + 1)
  BY Zenon DEF TypeInv, TypeOK, CountType
<1> QED BY <1>1 DEF TypeInv, TimeoutBound

\* Packets that change nothing, and error packets.
LEMMA QuietType ==
  ASSUME TypeInv, NEW m \in net, Ignore(m) \/ RecvError(m) \/ RecvDataSame(m)
  PROVE  TypeInv'
<1> USE TftpAssumption DEF loadVars, blockVars, connVars, countVars, putVars
<1>1. Arrives(m)  BY Zenon DEF Ignore, RecvError, RecvDataSame
<1>2. /\ m.num \in Nat /\ m.hdr \in 0..(SeqSize - 1)
      /\ running' /\ Started /\ in_switch = FALSE /\ in_switch' = FALSE
      /\ UNCHANGED <<ncmd, protocol, icmp_handler, lost>>
      /\ seen' \in [Tids -> Nat] /\ SessType'
      /\ \A p \in Taken(m) : PacketType(p)
  BY Zenon, <1>1, ArrivesType
<1>3. /\ net' = Taken(m)
      /\ UNCHANGED <<loadVars, tftp_prev_block, tftp_block_wrap_offset, connVars,
                     countVars, putVars>>
      /\ tftp_cur_block' \in {tftp_cur_block, m.hdr}
      /\ cur_num' \in {cur_num, m.num}
  BY Zenon DEF Ignore, RecvError, RecvDataSame
<1>4. TypeOK /\ time_handler \in {"none", "tftp", "start_again"}
  BY Zenon DEF TypeInv, TypeOK, LoopType
<1>5. /\ net_state' \in {"CONTINUE", "RESTART", "SUCCESS", "FAIL", "ABORT"}
      /\ net_try_count' \in Nat
      /\ udp_handler' \in {"none", "tftp"}
      /\ time_handler' \in {"none", "tftp", "start_again"}
      /\ udp_handler = "none" => udp_handler' = "none"
      /\ time_handler' = "tftp" => time_handler = "tftp"
  <2>1. CASE net_start_again(time_handler)  BY Zenon, <1>4, <2>1, StartAgainType
  <2>2. CASE ~net_start_again(time_handler)
    <3>1. UNCHANGED <<net_try_count, udp_handler, time_handler>>
      BY Zenon, <2>2 DEF Ignore, RecvError, RecvDataSame
    <3>2. net_state' \in {net_state, "FAIL"}
      BY Zenon, <2>2 DEF Ignore, RecvError, RecvDataSame
    <3> QED BY Zenon, <1>4, <3>1, <3>2 DEF TypeOK, LoopType
  <2> QED BY Zenon, <2>1, <2>2
<1>6. FlagType'  BY Zenon, <1>2, <1>3, <1>4 DEF TypeOK, FlagType
<1>7. LoopType'  BY Zenon, <1>2, <1>4, <1>5 DEF TypeOK, LoopType
<1>8. ConnType'  BY Zenon, <1>3, <1>4 DEF TypeOK, ConnType
<1>9. CountType'  BY <1>2, <1>3, <1>4 DEF TypeOK, CountType
<1>10. TimeoutBound'  BY Zenon, <1>2, <1>3, <1>5, BoundStep
<1> QED BY Zenon, <1>2, <1>3, <1>6, <1>7, <1>8, <1>9, <1>10
        DEF TypeInv, TypeOK, PacketType, Started

\* An acknowledgement while putting a file.
LEMMA RecvAckType ==
  ASSUME TypeInv, NEW m \in net, RecvAck(m)
  PROVE  TypeInv'
<1> USE TftpAssumption DEF loadVars, blockVars, connVars
<1>1. Arrives(m)  BY Zenon DEF RecvAck
<1>2. /\ m.num \in Nat /\ m.hdr \in 0..(SeqSize - 1)
      /\ running' /\ Started /\ in_switch = FALSE /\ in_switch' = FALSE
      /\ UNCHANGED <<ncmd, protocol, icmp_handler, lost>>
      /\ seen' \in [Tids -> Nat] /\ SessType'
      /\ \A p \in Taken(m) : PacketType(p)
  BY Zenon, <1>1, ArrivesType
<1>3. /\ UNCHANGED <<net_try_count, udp_handler, time_handler, loadVars, connVars,
                     timeout_count_max, tftp_put_active, tftp_prev_block>>
      /\ net_state' \in {net_state, "SUCCESS"}
      /\ timeout_count' \in {0, timeout_count}
  BY Zenon DEF RecvAck
<1>4. TypeOK /\ FlagType /\ LoopType /\ ConnType /\ CountType
  BY Zenon DEF TypeInv, TypeOK
<1>12. Started'  BY Zenon, <1>2, <1>3 DEF Started
<1>5. /\ tftp_cur_block' \in Nat /\ cur_num' \in Nat
      /\ tftp_block_wrap_offset' \in Nat
  <2>1. CASE tftp_put_final_block_sent
    BY Zenon, <1>4, <2>1 DEF RecvAck, CountType
  <2>2. CASE ~tftp_put_final_block_sent
    <3>1. /\ tftp_cur_block' = (m.hdr + 1) % SeqSize /\ cur_num' = m.num + 1
          /\ tftp_block_wrap_offset' = update_block_number(tftp_cur_block')
      BY Zenon, <2>2 DEF RecvAck
    <3>2. tftp_block_size * SeqSize \in Nat  BY <1>4 DEF ConnType
    <3>3. tftp_block_wrap_offset' \in Nat
      BY <1>4, <3>1, <3>2 DEF update_block_number, CountType
    <3> QED BY <1>2, <3>1, <3>3
  <2> QED BY Zenon, <2>1, <2>2
<1>6. /\ \A p \in net' : PacketType(p)
      /\ tftp_put_final_block_sent' \in BOOLEAN
  <2>0. tftp_put_final_block_sent \in BOOLEAN /\ tftp_put_active' \in BOOLEAN
    BY Zenon, <1>3, <1>4 DEF FlagType
  <2>1. CASE net' = Taken(m) /\ UNCHANGED tftp_put_final_block_sent
    BY Zenon, <1>2, <2>0, <2>1
  <2>2. CASE tftp_send(Taken(m), tftp_put_final_block_sent)
    BY Zenon, <1>2, <1>12, <2>0, <2>2, SendType
  <2> QED BY Zenon, <2>1, <2>2 DEF RecvAck
<1>7. TimeoutBound' /\ timeout_count' \in 0..(TIMEOUT_COUNT + 1)
  BY Zenon, <1>2, <1>3, BoundStep
<1>8. FlagType'  BY Zenon, <1>2, <1>3, <1>4, <1>6 DEF FlagType
<1>9. LoopType'  BY Zenon, <1>2, <1>3, <1>4 DEF LoopType
<1>10. ConnType'  BY Zenon, <1>3, <1>4 DEF ConnType
<1>11. CountType'  BY Zenon, <1>3, <1>4, <1>5, <1>7 DEF CountType
<1> QED BY Zenon, <1>2, <1>6, <1>7, <1>8, <1>9, <1>10, <1>11, <1>12
        DEF TypeInv, TypeOK, PacketType

\* A write request and an option acknowledgement.
LEMMA RecvWrqOackType ==
  ASSUME TypeInv, NEW m \in net, RecvWrq(m) \/ RecvOack(m)
  PROVE  TypeInv'
<1> USE TftpAssumption DEF loadVars, blockVars, connVars, countVars
<1>1. Arrives(m)  BY Zenon DEF RecvWrq, RecvOack
<1>2. /\ m.tid \in Tids /\ m.num \in Nat /\ m.hdr \in 0..(SeqSize - 1)
      /\ m.len \in Int /\ (m.op = "OACK" => m.len \in {DefBlk, OptBlk})
      /\ running' /\ Started /\ in_switch = FALSE /\ in_switch' = FALSE
      /\ UNCHANGED <<ncmd, protocol, icmp_handler, lost>>
      /\ seen' \in [Tids -> Nat] /\ SessType'
      /\ \A p \in Taken(m) : PacketType(p)
  BY Zenon, <1>1, ArrivesType
<1>3. FlagType /\ LoopType /\ ConnType /\ CountType  BY Zenon DEF TypeInv, TypeOK
<1>4. /\ UNCHANGED <<net_state, net_try_count, udp_handler, time_handler,
                     loadVars, countVars, tftp_put_active>>
      /\ tftp_remote_port' = m.tid
      /\ tftp_our_port' \in Ports \cup {tftp_our_port}
      /\ tftp_block_size' \in {DefBlk, OptBlk}
      /\ tftp_cur_block' \in {tftp_cur_block, tftp_cur_block + 1}
      /\ cur_num' \in {cur_num, cur_num + 1}
      /\ tftp_prev_block' \in {0, tftp_prev_block}
      /\ tftp_block_wrap_offset' \in {0, tftp_block_wrap_offset}
      /\ Started'
  <2>1. CASE RecvWrq(m)  BY Zenon, <1>2, <1>3, <2>1 DEF RecvWrq, Started, ConnType
  <2>2. CASE RecvOack(m)
    <3>0. m.op = "OACK" /\ tftp_block_size' = m.len  BY Zenon, <2>2 DEF RecvOack
    <3>1. /\ tftp_block_size' \in {DefBlk, OptBlk}
          /\ UNCHANGED <<tftp_our_port, tftp_prev_block, tftp_block_wrap_offset>>
          /\ tftp_remote_port' = m.tid
          /\ UNCHANGED <<net_state, net_try_count, udp_handler, time_handler,
                         loadVars, countVars, tftp_put_active>>
      BY Zenon, <1>2, <2>2, <3>0 DEF RecvOack
    <3>2. CASE tftp_put_active  BY Zenon, <2>2, <3>1, <3>2 DEF RecvOack, Started
    <3>3. CASE ~tftp_put_active  BY Zenon, <2>2, <3>1, <3>3 DEF RecvOack, Started
    <3> QED BY Zenon, <3>2, <3>3
  <2> QED BY Zenon, <2>1, <2>2
<1>5. \E f \in {tftp_put_final_block_sent, FALSE} : tftp_send(Taken(m), f)
  BY Zenon DEF RecvWrq, RecvOack
<1>6. /\ \A p \in net' : PacketType(p)
      /\ tftp_put_final_block_sent' \in BOOLEAN
  <2>0. tftp_put_final_block_sent \in BOOLEAN /\ tftp_put_active' \in BOOLEAN
    BY Zenon, <1>3, <1>4 DEF FlagType
  <2>1. CASE tftp_send(Taken(m), tftp_put_final_block_sent)
    BY Zenon, <1>2, <1>4, <2>0, <2>1, SendType
  <2>2. CASE tftp_send(Taken(m), FALSE)
    BY Zenon, <1>2, <1>4, <2>0, <2>2, SendType
  <2> QED BY Zenon, <1>5, <2>1, <2>2
<1>7. TimeoutBound'  BY Zenon, <1>2, <1>4, BoundStep
<1>8. FlagType'  BY Zenon, <1>2, <1>3, <1>4, <1>6 DEF FlagType
<1>9. LoopType'  BY Zenon, <1>2, <1>3, <1>4 DEF LoopType
<1>10. ConnType'  BY Zenon, <1>2, <1>3, <1>4 DEF ConnType, Started
<1>11. CountType'  BY <1>3, <1>4 DEF CountType
<1> QED BY Zenon, <1>2, <1>4, <1>6, <1>7, <1>8, <1>9, <1>10, <1>11
        DEF TypeInv, TypeOK, PacketType

\* The first block is not block 1.
LEMMA RecvDataNotFirstType ==
  ASSUME TypeInv, NEW m \in net, RecvDataNotFirst(m)
  PROVE  TypeInv'
<1> USE TftpAssumption DEF loadVars
<1>1. Arrives(m)  BY Zenon DEF RecvDataNotFirst
<1>2. /\ m.tid \in Tids /\ m.num \in Nat /\ m.hdr \in 0..(SeqSize - 1)
      /\ m.len \in Int /\ (m.op = "OACK" => m.len \in {DefBlk, OptBlk})
      /\ running' /\ Started /\ in_switch = FALSE /\ in_switch' = FALSE
      /\ UNCHANGED <<ncmd, protocol, icmp_handler, lost>>
      /\ seen' \in [Tids -> Nat] /\ SessType'
      /\ \A p \in Taken(m) : PacketType(p)
  BY Zenon, <1>1, ArrivesType
<1>3. FlagType /\ LoopType /\ ConnType /\ CountType  BY Zenon DEF TypeInv, TypeOK
<1>4. TypeOK /\ time_handler \in {"none", "tftp", "start_again"}
  BY Zenon, <1>3 DEF TypeOK, LoopType
<1>5. /\ net_state' \in {"CONTINUE", "RESTART", "SUCCESS", "FAIL", "ABORT"}
      /\ net_try_count' \in Nat
      /\ udp_handler' \in {"none", "tftp"}
      /\ time_handler' \in {"none", "tftp", "start_again"}
      /\ udp_handler = "none" => udp_handler' = "none"
      /\ time_handler' = "tftp" => time_handler = "tftp"
  BY Zenon, <1>4, StartAgainType DEF RecvDataNotFirst
<1>6. /\ net' = Taken(m) /\ tftp_cur_block' = m.hdr /\ cur_num' = m.num
      /\ timeout_count' \in {0, timeout_count}
      /\ tftp_state' = "DATA" /\ tftp_remote_port' = m.tid
      /\ tftp_prev_block' = 0 /\ tftp_block_wrap_offset' = 0
      /\ tftp_put_final_block_sent' = FALSE
      /\ UNCHANGED <<loadVars, tftp_our_port, tftp_block_size,
                     timeout_count_max, tftp_put_active>>
  BY Zenon DEF RecvDataNotFirst
<1>7. TimeoutBound' /\ timeout_count' \in 0..(TIMEOUT_COUNT + 1)
  BY Zenon, <1>2, <1>5, <1>6, BoundStep
<1>8. FlagType'  BY Zenon, <1>2, <1>3, <1>6 DEF FlagType
<1>9. LoopType'  BY Zenon, <1>2, <1>3, <1>5 DEF LoopType
<1>10. ConnType'  BY Zenon, <1>2, <1>3, <1>6 DEF ConnType
<1>11. CountType'  BY ONLY TftpAssumption, <1>2, <1>3, <1>6, <1>7 DEF CountType
<1>12. Started'  BY Zenon, <1>6 DEF Started
<1> QED BY Zenon, <1>2, <1>6, <1>7, <1>8, <1>9, <1>10, <1>11, <1>12
        DEF TypeInv, TypeOK, PacketType

\* A block to store.
LEMMA RecvDataType ==
  ASSUME TypeInv, NEW m \in net, RecvData(m)
  PROVE  TypeInv'
<1> USE TftpAssumption
<1>1. Arrives(m)  BY Zenon DEF RecvData
<1>2. /\ m.tid \in Tids /\ m.num \in Nat /\ m.hdr \in 0..(SeqSize - 1)
      /\ m.len \in Int /\ (m.op = "OACK" => m.len \in {DefBlk, OptBlk})
      /\ running' /\ Started /\ in_switch = FALSE /\ in_switch' = FALSE
      /\ UNCHANGED <<ncmd, protocol, icmp_handler, lost>>
      /\ seen' \in [Tids -> Nat] /\ SessType'
      /\ \A p \in Taken(m) : PacketType(p)
  BY Zenon, <1>1, ArrivesType
<1>3. FlagType /\ LoopType /\ ConnType /\ CountType  BY Zenon DEF TypeInv, TypeOK
<1>4. /\ tftp_cur_block' = m.hdr /\ cur_num' = m.num /\ tftp_prev_block' = m.hdr
      /\ timeout_count' \in {0, timeout_count}
      /\ tftp_state' \in {tftp_state, "DATA"}
      /\ tftp_remote_port' \in {tftp_remote_port, m.tid}
      /\ timeout_count_max' = TIMEOUT_COUNT /\ time_handler' = "tftp"
      /\ udp_handler = "tftp"
      /\ net_state' \in {net_state, "SUCCESS"}
      /\ UNCHANGED <<tftp_our_port, tftp_block_size, tftp_put_active,
                     net_try_count, udp_handler>>
      /\ tftp_send(Taken(m), tftp_put_final_block_sent /\ ~AwaitingFirst)
  BY Zenon DEF RecvData, Accepted
<1>5. Started'  BY Zenon, <1>2, <1>4 DEF Started
<1>6. /\ \A p \in net' : PacketType(p)
      /\ tftp_put_final_block_sent' \in BOOLEAN
  <2>1. (tftp_put_final_block_sent /\ ~AwaitingFirst) \in BOOLEAN  BY Zenon
  <2>2. tftp_put_active' \in BOOLEAN  BY Zenon, <1>3, <1>4 DEF FlagType
  <2> QED BY Zenon, <1>2, <1>4, <1>5, <2>1, <2>2, SendType
<1>7. tftp_block_wrap_offset' \in Nat
  <2>1. tftp_block_size * SeqSize \in Nat  BY <1>3 DEF ConnType
  <2>2. update_block_number(m.hdr) \in Nat
    BY <1>3, <2>1 DEF update_block_number, CountType
  <2> QED BY Zenon, <2>2 DEF RecvData
<1>8. net_boot_file_size' \in Nat
  <2>1. PICK off : /\ off = (m.hdr - 1) * tftp_block_size + tftp_block_wrap_offset'
                   /\ store_block(off, m)
    BY Zenon DEF RecvData
  <2>2. (m.hdr - 1) * tftp_block_size \in Int  BY <1>2, <1>3 DEF ConnType
  <2>3. off \in Int  BY <1>7, <2>1, <2>2
  <2> QED BY ONLY <1>2, <1>3, <2>1, <2>3 DEF store_block, CountType
<1>9. TimeoutBound' /\ timeout_count' \in 0..(TIMEOUT_COUNT + 1)
  BY Zenon, <1>2, <1>4, BoundStep
<1>10. FlagType'  BY ZenonT(30), <1>2, <1>3, <1>4, <1>6 DEF FlagType
<1>11. LoopType'  BY Zenon, <1>2, <1>3, <1>4 DEF LoopType
<1>12. ConnType'  BY Zenon, <1>2, <1>3, <1>4 DEF ConnType
<1>13. CountType'  BY ONLY <1>2, <1>3, <1>4, <1>7, <1>8, <1>9 DEF CountType
<1> QED BY Zenon, <1>2, <1>5, <1>6, <1>9, <1>10, <1>11, <1>12, <1>13
        DEF TypeInv, TypeOK, PacketType

-----------------------------------------------------------------------------
\* The end of net_loop.
LEMMA LeaveType ==
  ASSUME TypeInv, Leave, net_try_count' \in Nat
  PROVE  TypeInv'
<1> USE DEF Leave, loadVars, blockVars, connVars, countVars, putVars, peerVars
<1>1. FlagType /\ LoopType /\ ConnType /\ CountType  BY Zenon DEF TypeInv, TypeOK
<1>2. FlagType'  BY Zenon, <1>1 DEF FlagType
<1>3. LoopType'  BY Zenon, <1>1 DEF LoopType
<1>4. ConnType'  BY Zenon, <1>1 DEF ConnType
<1>5. CountType'  BY Zenon, <1>1 DEF CountType
<1>6. SessType'  BY Zenon DEF TypeInv, SessType
<1> QED BY Zenon, <1>2, <1>3, <1>4, <1>5, <1>6
        DEF TypeInv, TypeOK, PacketType, TimeoutBound

\* A port unreachable message.
LEMMA RecvIcmpType ==
  ASSUME TypeInv, RecvIcmp
  PROVE  TypeInv'
<1> USE DEF loadVars, blockVars, connVars, countVars, putVars, peerVars
<1>1. FlagType /\ LoopType /\ ConnType /\ CountType /\ TypeOK
  BY Zenon DEF TypeInv, TypeOK
<1>2. /\ UNCHANGED <<running, in_switch, ncmd, protocol, icmp_handler, loadVars,
                     blockVars, connVars, countVars, putVars, net, peerVars>>
      /\ ~in_switch
  BY Zenon DEF RecvIcmp
<1>3. /\ net_state' \in {"CONTINUE", "RESTART", "SUCCESS", "FAIL", "ABORT"}
      /\ net_try_count' \in Nat
      /\ udp_handler' \in {"none", "tftp"}
      /\ time_handler' \in {"none", "tftp", "start_again"}
      /\ udp_handler = "none" => udp_handler' = "none"
      /\ time_handler' = "tftp" => time_handler = "tftp"
  BY Zenon, <1>1, StartAgainType DEF RecvIcmp, LoopType
<1>4. in_switch = FALSE  BY Zenon, <1>1, <1>2 DEF FlagType
<1>5. TimeoutBound'  BY ZenonT(30), <1>2, <1>3, <1>4, BoundStep
<1>6. FlagType'  BY Zenon, <1>1, <1>2 DEF FlagType
<1>7. LoopType'  BY Zenon, <1>1, <1>2, <1>3 DEF LoopType
<1>8. ConnType'  BY Zenon, <1>1, <1>2 DEF ConnType
<1>9. CountType'  BY Zenon, <1>1, <1>2 DEF CountType
<1>10. SessType'  BY Zenon, <1>2 DEF TypeInv, SessType
<1> QED BY Zenon, <1>2, <1>5, <1>6, <1>7, <1>8, <1>9, <1>10
        DEF TypeInv, TypeOK, PacketType, Started

\* The time-out handlers: a time-out past the limit disarms the timer until
\* the protocol starts again.
LEMMA TimerType ==
  ASSUME TypeInv, Timer
  PROVE  TypeInv'
<1> USE TftpAssumption DEF loadVars, blockVars, connVars, peerVars
<1>1. FlagType /\ LoopType /\ ConnType /\ CountType /\ TypeOK /\ running /\ Started
  BY Zenon DEF TypeInv, TypeOK, Timer, tftp_timeout_handler, start_again_timeout_handler
<1>2. CASE start_again_timeout_handler
  <2> USE <1>2 DEF start_again_timeout_handler, countVars, putVars
  <2>1. FlagType'  BY Zenon, <1>1 DEF FlagType
  <2>2. LoopType'  BY Zenon, <1>1 DEF LoopType
  <2>3. ConnType'  BY Zenon, <1>1 DEF ConnType
  <2>4. CountType'  BY Zenon, <1>1 DEF CountType
  <2>5. SessType'  BY Zenon DEF TypeInv, SessType
  <2> QED BY Zenon, <1>1, <2>1, <2>2, <2>3, <2>4, <2>5
          DEF TypeInv, TypeOK, PacketType, TimeoutBound, Started
<1>3. CASE tftp_timeout_handler
  <2>1. /\ UNCHANGED <<running, ncmd, protocol, icmp_handler, loadVars, blockVars,
                       connVars, timeout_count_max, tftp_put_active, peerVars>>
        /\ time_handler = "tftp" /\ in_switch' = (net_state' # "CONTINUE")
        /\ timeout_count' = timeout_count + 1
    BY Zenon, <1>3 DEF tftp_timeout_handler
  <2>2. /\ timeout_count \in 0..TIMEOUT_COUNT
        /\ timeout_count_max = TIMEOUT_COUNT
        /\ timeout_count' \in 0..(TIMEOUT_COUNT + 1)
    BY <1>1, <2>1 DEF TypeInv, TimeoutBound, CountType
  <2>3. ConnType' /\ CountType' /\ SessType' /\ Started'
    BY Zenon, <1>1, <2>1, <2>2 DEF ConnType, CountType, TypeInv, SessType, Started
  <2>4. CASE timeout_count' > timeout_count_max
    <3>1. /\ net_start_again("none") /\ UNCHANGED <<net, tftp_put_final_block_sent>>
      BY Zenon, <1>3, <2>4 DEF tftp_timeout_handler, Exceeded
    <3>2. /\ net_state' \in {"CONTINUE", "RESTART", "SUCCESS", "FAIL", "ABORT"}
          /\ net_try_count' \in Nat
          /\ udp_handler' \in {"none", "tftp"}
          /\ time_handler' \in {"none", "tftp", "start_again"}
          /\ time_handler' # "tftp"
      BY <1>1, <3>1, StartAgainType
    <3>3. in_switch' \/ udp_handler' = "none"
      BY ZenonT(30), <2>1, <3>1 DEF net_start_again
    <3>4. FlagType'  BY Zenon, <1>1, <2>1, <3>1 DEF FlagType
    <3>5. LoopType'  BY Zenon, <1>1, <2>1, <3>2 DEF LoopType
    <3> QED BY Zenon, <2>1, <2>3, <3>1, <3>2, <3>3, <3>4, <3>5
            DEF TypeInv, TypeOK, PacketType, TimeoutBound
  <2>5. CASE ~(timeout_count' > timeout_count_max)
    <3>1. /\ time_handler' = "tftp"
          /\ UNCHANGED <<net_state, net_try_count, udp_handler>>
          /\ \/ tftp_send(net, tftp_put_final_block_sent)
             \/ UNCHANGED <<net, tftp_put_final_block_sent>>
      BY Zenon, <1>3, <2>5 DEF tftp_timeout_handler, Exceeded
    <3>2. /\ \A p \in net' : PacketType(p)
          /\ tftp_put_final_block_sent' \in BOOLEAN
      <4>1. tftp_put_final_block_sent \in BOOLEAN /\ tftp_put_active' \in BOOLEAN
        BY Zenon, <1>1, <2>1 DEF FlagType
      <4>2. \A p \in net : PacketType(p)  BY Zenon DEF TypeInv
      <4>3. CASE tftp_send(net, tftp_put_final_block_sent)
        BY Zenon, <2>3, <4>1, <4>2, <4>3, SendType
      <4> QED BY Zenon, <3>1, <4>1, <4>2, <4>3
    <3>3. FlagType'  BY Zenon, <1>1, <2>1, <3>2 DEF FlagType
    <3>4. LoopType'  BY Zenon, <1>1, <2>1, <3>1 DEF LoopType
    <3>5. TimeoutBound'  BY Zenon, <2>2, <2>5 DEF TimeoutBound
    <3> QED BY Zenon, <2>3, <3>2, <3>3, <3>4, <3>5 DEF TypeInv, TypeOK, PacketType
  <2> QED BY Zenon, <2>4, <2>5
<1> QED BY Zenon, <1>2, <1>3 DEF Timer
-----------------------------------------------------------------------------
\* A step of the peers or the network that keeps their own types.
LEMMA PeerType ==
  ASSUME TypeInv, UNCHANGED hostVars, UNCHANGED seen, lost' \in 0..MaxLoss,
         SessType', \A p \in net' : p \in net \/ PacketType(p)
  PROVE  TypeInv'
<1> USE DEF hostVars, loopVars, handlerVars, loadVars, blockVars, connVars,
            countVars, putVars
<1>1. FlagType /\ LoopType /\ ConnType /\ CountType  BY Zenon DEF TypeInv, TypeOK
<1>2. FlagType'  BY Zenon, <1>1 DEF FlagType
<1>3. LoopType'  BY Zenon, <1>1 DEF LoopType
<1>4. ConnType'  BY Zenon, <1>1 DEF ConnType
<1>5. CountType'  BY Zenon, <1>1 DEF CountType
<1>6. TimeoutBound' /\ (running' => Started')
  BY Zenon DEF TypeInv, TimeoutBound, Started
<1> QED BY Zenon, <1>2, <1>3, <1>4, <1>5, <1>6 DEF TypeInv, TypeOK, PacketType

\* What the peer of a session sends is well typed.
LEMMA LastPacketType ==
  ASSUME NEW t \in Tids, SessType', sess'[t].kind # "none",
         NEW p, p = LastPacket(t)'
  PROVE  PacketType(p)
<1> USE TftpAssumption
<1> PICK s : s = sess'[t]  BY Zenon
<1>1. s.kind \in {"send", "recv"} /\ s.num \in Nat /\ s.bs \in {DefBlk, OptBlk}
  BY Zenon DEF SessType
<1>2. s.bs \in Nat /\ s.num % SeqSize \in 0..(SeqSize - 1) /\ 0 \in 0..(SeqSize - 1)
  BY <1>1
<1>3. BlockLen(s.num, s.bs) \in Int
  <2>1. s.num * s.bs \in Int /\ (s.num - 1) * s.bs \in Int  BY ONLY <1>1, <1>2
  <2> QED BY ONLY TftpAssumption, <1>2, <2>1 DEF BlockLen
<1>4. CASE s.num = 0
  <2>1. p = Packet("host", s.hello, t, s.port, 0, 0, 0, s.bs)
    BY <1>4 DEF LastPacket
  <2> QED BY ONLY <1>1, <1>2, <2>1 DEF PacketType, Packet
<1>5. CASE s.num > 0 /\ s.kind = "send"
  <2>1. p = Packet("host", "DATA", t, s.port, s.num, s.num % SeqSize,
                   (s.num - 1) * s.bs, BlockLen(s.num, s.bs))
    BY <1>5 DEF LastPacket
  <2> QED BY ONLY Zenon, <1>1, <1>2, <1>3, <2>1 DEF PacketType, Packet
<1>6. CASE s.num > 0 /\ s.kind = "recv"
  <2>1. p = Packet("host", "ACK", t, s.port, s.num, s.num % SeqSize, 0, 0)
    BY <1>6 DEF LastPacket
  <2> QED BY ONLY <1>1, <1>2, <2>1 DEF PacketType, Packet
<1> QED BY ONLY <1>1, <1>4, <1>5, <1>6

\* A session changes only by opening and by counting up.
LEMMA SessStep ==
  ASSUME SessType, NEW t \in Tids, NEW s, sess' = [sess EXCEPT ![t] = s],
         DOMAIN s = {"kind", "hello", "port", "num", "bs", "data"},
         s.kind \in {"send", "recv"}, s.num \in Nat, s.bs \in {DefBlk, OptBlk}
  PROVE  SessType' /\ sess'[t].kind # "none"
<1>1. DOMAIN sess' = Tids /\ sess'[t] = s  BY Zenon DEF SessType
<1>2. \A u \in Tids : u # t => sess'[u] = sess[u]  BY Zenon DEF SessType
<1> QED BY Zenon, <1>1, <1>2 DEF SessType

\* The steps of the peers.
LEMMA PeersType ==
  ASSUME TypeInv, Peer \/ Lose
  PROVE  TypeInv'
<1> USE TftpAssumption
<1>1. SessType /\ lost \in 0..MaxLoss  BY Zenon DEF TypeInv, TypeOK, LoopType
<1>2. ASSUME UNCHANGED <<hostVars, seen, lost>>, UNCHANGED sess, NEW t \in Tids,
             sess[t].kind # "none",
             \A p \in net' : p \in net \/ p = LastPacket(t)
      PROVE  TypeInv'
  <2>1. SessType' /\ LastPacket(t) = LastPacket(t)' /\ sess'[t].kind # "none"
    BY Zenon, <1>1, <1>2 DEF SessType, LastPacket
  <2> PICK p : p = LastPacket(t)'  BY Zenon
  <2>2. PacketType(p)  BY Zenon, <2>1, LastPacketType
  <2> QED BY Zenon, <1>1, <1>2, <2>1, <2>2, PeerType
<1>3. ASSUME UNCHANGED <<hostVars, seen, lost>>, NEW t \in Tids, NEW s,
             sess' = [sess EXCEPT ![t] = s],
             DOMAIN s = {"kind", "hello", "port", "num", "bs", "data"},
             s.kind \in {"send", "recv"}, s.num \in Nat, s.bs \in {DefBlk, OptBlk},
             \A p \in net' : p \in net \/ p = LastPacket(t)'
      PROVE  TypeInv'
  <2>1. SessType' /\ sess'[t].kind # "none"  BY ZenonT(30), <1>1, <1>3, SessStep
  <2> PICK p : p = LastPacket(t)'  BY Zenon
  <2>2. PacketType(p)  BY Zenon, <2>1, LastPacketType
  <2> QED BY Zenon, <1>1, <1>3, <2>1, <2>2, PeerType
<1>4. ASSUME UNCHANGED <<hostVars, seen>>, UNCHANGED sess, lost' \in 0..MaxLoss,
             \A p \in net' : p \in net \/ PacketType(p)
      PROVE  TypeInv'
  <2>1. SessType'  BY Zenon, <1>1, <1>4 DEF SessType
  <2> QED BY Zenon, <1>4, <2>1, PeerType
<1>5. ASSUME NEW m PROVE \A p \in Taken(m) : p \in net  BY Zenon DEF Taken
<1>6. ASSUME NEW m \in net, ServerRequest(m) PROVE TypeInv'
  <2>0. UNCHANGED <<hostVars, seen, lost>>  BY ZenonT(30), <1>6 DEF ServerRequest
  <2>1. CASE \E t \in Tids, opt \in ServerOpts :
          /\ sess[t].kind = "none"
          /\ sess' = [sess EXCEPT ![t] =
               [kind  |-> IF m.op = "RRQ" THEN "send" ELSE "recv",
                hello |-> IF opt THEN "OACK" ELSE "ACK",
                port  |-> m.port,
                num   |-> IF m.op = "RRQ" /\ ~opt THEN 1 ELSE 0,
                bs    |-> IF opt THEN OptBlk ELSE DefBlk,
                data  |-> <<>>]]
          /\ net' = Taken(m) \cup {LastPacket(t)'}
    <3>0. PICK t \in Tids, opt \in ServerOpts :
            /\ sess' = [sess EXCEPT ![t] =
                 [kind  |-> IF m.op = "RRQ" THEN "send" ELSE "recv",
                  hello |-> IF opt THEN "OACK" ELSE "ACK",
                  port  |-> m.port,
                  num   |-> IF m.op = "RRQ" /\ ~opt THEN 1 ELSE 0,
                  bs    |-> IF opt THEN OptBlk ELSE DefBlk,
                  data  |-> <<>>]]
            /\ net' = Taken(m) \cup {LastPacket(t)'}
      BY ZenonT(30), <2>1
    <3>1. PICK s :
            /\ s = [kind  |-> IF m.op = "RRQ" THEN "send" ELSE "recv",
                    hello |-> IF opt THEN "OACK" ELSE "ACK",
                    port  |-> m.port,
                    num   |-> IF m.op = "RRQ" /\ ~opt THEN 1 ELSE 0,
                    bs    |-> IF opt THEN OptBlk ELSE DefBlk,
                    data  |-> <<>>]
            /\ sess' = [sess EXCEPT ![t] = s]
      BY ZenonT(30), <3>0
    <3>2. /\ DOMAIN s = {"kind", "hello", "port", "num", "bs", "data"}
          /\ s.kind \in {"send", "recv"} /\ s.num \in Nat /\ s.bs \in {DefBlk, OptBlk}
      BY Zenon, <3>1
    <3> QED BY ZenonT(30), <1>3, <1>5, <2>0, <3>0, <3>1, <3>2
  <2>2. CASE \E t \in Tids, err \in {"notfound", "error"} \cap Faults :
          /\ net' = Taken(m) \cup
               {Packet("host", IF err = "error" THEN "ERR_OTHER"
                                                ELSE "ERR_FILE_NOT_FOUND",
                       t, m.port, 0, 0, 0, 0)}
          /\ UNCHANGED sess
    <3>0. PICK t \in Tids, err \in {"notfound", "error"} \cap Faults :
            /\ net' = Taken(m) \cup
                 {Packet("host", IF err = "error" THEN "ERR_OTHER"
                                                  ELSE "ERR_FILE_NOT_FOUND",
                         t, m.port, 0, 0, 0, 0)}
            /\ UNCHANGED sess
      BY Zenon, <2>2
    <3>1. PICK p :
            /\ p = Packet("host", IF err = "error" THEN "ERR_OTHER"
                                                   ELSE "ERR_FILE_NOT_FOUND",
                          t, m.port, 0, 0, 0, 0)
            /\ net' = Taken(m) \cup {p}
      BY Zenon, <3>0
    <3>2. PacketType(p)  BY <3>1 DEF PacketType, Packet
    <3>3. lost' \in 0..MaxLoss  BY Zenon, <1>1, <2>0
    <3> QED BY Zenon, <1>4, <1>5, <2>0, <3>0, <3>1, <3>2, <3>3
  <2>3. CASE \E t \in Tids :
          /\ sess[t].kind # "none" /\ sess[t].port = m.port
          /\ net' = Taken(m) \cup {LastPacket(t)}
          /\ UNCHANGED sess
    BY Zenon, <1>2, <1>5, <2>0, <2>3
  <2> QED BY ZenonT(30), <1>6, <2>1, <2>2, <2>3 DEF ServerRequest
<1>7. ASSUME NEW m \in net, NEW t \in Tids, SenderAck(m, t) PROVE TypeInv'
  <2>0. UNCHANGED <<hostVars, seen, lost>> /\ sess[t].kind = "send"
    BY Zenon, <1>7 DEF SenderAck, Reaches
  <2>1. CASE /\ sess' = [sess EXCEPT ![t].num = @ + 1, ![t].port = m.port]
             /\ net' = Taken(m) \cup {LastPacket(t)'}
    <3> PICK s : s = [sess[t] EXCEPT !.num = @ + 1, !.port = m.port]  BY Zenon
    <3>1. sess' = [sess EXCEPT ![t] = s]  BY Zenon, <1>1, <2>1 DEF SessType
    <3>2. /\ DOMAIN s = {"kind", "hello", "port", "num", "bs", "data"}
          /\ s.kind \in {"send", "recv"} /\ s.num \in Nat /\ s.bs \in {DefBlk, OptBlk}
      BY <1>1, <2>0 DEF SessType
    <3> HIDE DEF SessType
    <3> QED BY Zenon, <1>3, <1>5, <2>0, <2>1, <3>1, <3>2
  <2>2. CASE net' = Taken(m) \cup {LastPacket(t)} /\ UNCHANGED sess
    BY Zenon, <1>2, <1>5, <2>0, <2>2
  <2> QED BY Zenon, <1>7, <2>1, <2>2 DEF SenderAck
<1>8. ASSUME NEW m \in net, NEW t \in Tids, ReceiverData(m, t) PROVE TypeInv'
  <2>0. UNCHANGED <<hostVars, seen, lost>> /\ sess[t].kind = "recv"
    BY Zenon, <1>8 DEF ReceiverData, Reaches
  <2>1. CASE /\ sess' = [sess EXCEPT
                  ![t].num = @ + 1,
                  ![t].data = @ \o [i \in 1..m.len |-> m.off + i - 1]]
             /\ net' = Taken(m) \cup {LastPacket(t)'}
    <3> PICK s : s = [sess[t] EXCEPT !.num = @ + 1,
                        !.data = @ \o [i \in 1..m.len |-> m.off + i - 1]]
      BY Zenon
    <3>1. sess' = [sess EXCEPT ![t] = s]  BY ZenonT(30), <1>1, <2>1 DEF SessType
    <3>2. /\ DOMAIN s = {"kind", "hello", "port", "num", "bs", "data"}
          /\ s.kind \in {"send", "recv"} /\ s.num \in Nat /\ s.bs \in {DefBlk, OptBlk}
      BY <1>1, <2>0 DEF SessType
    <3> QED BY Zenon, <1>3, <1>5, <2>0, <2>1, <3>1, <3>2
  <2>2. CASE net' = Taken(m) \cup {LastPacket(t)} /\ UNCHANGED sess
    BY Zenon, <1>2, <1>5, <2>0, <2>2
  <2>3. CASE net' = Taken(m) /\ UNCHANGED sess
    BY Zenon, <1>1, <1>4, <1>5, <2>0, <2>3
  <2> QED BY Zenon, <1>8, <2>1, <2>2, <2>3 DEF ReceiverData
<1>9. CASE RemoteWrq
  <2>0. PICK t \in Tids :
          /\ sess' = [sess EXCEPT ![t] =
               [kind |-> "send", hello |-> "WRQ", port |-> WellKnown,
                num |-> 0, bs |-> DefBlk, data |-> <<>>]]
          /\ net' = net \cup {LastPacket(t)'}
    BY Zenon, <1>9 DEF RemoteWrq
  <2>1. PICK s :
          /\ s = [kind |-> "send", hello |-> "WRQ", port |-> WellKnown,
                  num |-> 0, bs |-> DefBlk, data |-> <<>>]
          /\ sess' = [sess EXCEPT ![t] = s]
    BY ZenonT(30), <2>0
  <2>2. /\ DOMAIN s = {"kind", "hello", "port", "num", "bs", "data"}
        /\ s.kind \in {"send", "recv"} /\ s.num \in Nat /\ s.bs \in {DefBlk, OptBlk}
    BY Zenon, <2>1
  <2> QED BY ZenonT(30), <1>3, <1>9, <2>0, <2>1, <2>2 DEF RemoteWrq
<1>10. CASE PeerTimeout
  BY Zenon, <1>2, <1>10 DEF PeerTimeout, peerVars
<1>11. CASE Lose
  <2>1. lost' \in 0..MaxLoss  BY <1>1, <1>11 DEF Lose
  <2> QED BY Zenon, <1>4, <1>11, <2>1 DEF Lose
<1> QED BY Zenon, <1>6, <1>7, <1>8, <1>9, <1>10, <1>11 DEF Peer

\* Every step keeps the types.
LEMMA NextType ==
  ASSUME TypeInv, [Next]_vars
  PROVE  TypeInv'
<1> USE TftpAssumption
<1>1. FlagType /\ LoopType  BY Zenon DEF TypeInv, TypeOK
<1>2. CASE net_loop
  <2>1. ncmd' \in 0..MaxCmds  BY <1>1, <1>2 DEF net_loop, LoopType
  <2> QED BY Zenon, <1>2, <2>1, StartType DEF net_loop
<1>3. CASE Receive
  BY Zenon, <1>3, QuietType, RecvAckType, RecvWrqOackType, RecvDataNotFirstType,
     RecvDataType, RecvIcmpType DEF Receive
<1>4. CASE Timer  BY Zenon, <1>4, TimerType
<1>5. CASE Switch
  <2>1. CASE SwitchRestart \/ SwitchRetry
    <3>1. StartProtocol /\ UNCHANGED <<running, ncmd, protocol>>
      BY Zenon, <2>1 DEF SwitchRestart, SwitchRetry
    <3>2. protocol' \in Commands
      BY Zenon, <1>1, <3>1 DEF StartProtocol, LoopType
    <3>3. net_try_count' \in Nat
      BY <1>1, <2>1 DEF SwitchRestart, SwitchRetry, LoopType
    <3>4. running' \in BOOLEAN /\ ncmd' \in 0..MaxCmds
      BY Zenon, <1>1, <3>1 DEF FlagType, LoopType
    <3> QED BY Zenon, <3>1, <3>2, <3>3, <3>4, StartType
  <2>2. CASE SwitchSuccess \/ SwitchFail
    <3>1. net_try_count' \in Nat /\ Leave
      BY <1>1, <2>2 DEF SwitchSuccess, SwitchFail, LoopType
    <3> QED BY Zenon, <3>1, LeaveType
  <2> QED BY Zenon, <1>5, <2>1, <2>2 DEF Switch
<1>6. CASE CtrlC
  <2> USE <1>6 DEF CtrlC, loadVars, blockVars, connVars, countVars, putVars, peerVars
  <2>1. ConnType /\ CountType  BY Zenon DEF TypeInv, TypeOK
  <2>2. FlagType'  BY ZenonT(30), <1>1 DEF FlagType
  <2>3. LoopType'  BY Zenon, <1>1 DEF LoopType
  <2>4. ConnType'  BY Zenon, <2>1 DEF ConnType
  <2>5. CountType'  BY Zenon, <2>1 DEF CountType
  <2>6. SessType'  BY Zenon DEF TypeInv, SessType
  <2> QED BY Zenon, <2>2, <2>3, <2>4, <2>5, <2>6
          DEF TypeInv, TypeOK, PacketType, TimeoutBound
<1>7. CASE Peer \/ Lose  BY Zenon, <1>7, PeersType
<1>8. CASE UNCHANGED vars
  <2> USE <1>8 DEF vars, peerVars
  <2>1. UNCHANGED <<hostVars, seen>>  BY Zenon DEF hostVars
  <2>2. SessType'  BY Zenon DEF TypeInv, SessType
  <2>3. lost' \in 0..MaxLoss  BY Zenon, <1>1 DEF LoopType
  <2> QED BY Zenon, <2>1, <2>2, <2>3, PeerType
<1> QED BY Zenon, <1>2, <1>3, <1>4, <1>5, <1>6, <1>7, <1>8 DEF Next

\* Type correctness, for every command, peer and network.
THEOREM TypeCorrect == Spec => []TypeOK
<1>1. Init => TypeInv  BY Zenon, InitType
<1>2. TypeInv /\ [Next]_vars => TypeInv'  BY Zenon, NextType
<1>3. TypeInv => TypeOK  BY Zenon DEF TypeInv
<1> QED BY <1>1, <1>2, <1>3, PTL DEF Spec
-----------------------------------------------------------------------------
\* What tftp_send puts on the wire: a request, a block or an acknowledgement.
LEMMA SendPacket ==
  ASSUME NEW STATE inFlight, NEW STATE final, tftp_send(inFlight, final),
         Started', tftp_put_active' \in BOOLEAN
  PROVE  \E p :
           /\ net' = inFlight \cup {p}
           /\ p.to = "peer" /\ p.tid = tftp_remote_port' /\ p.port = tftp_our_port'
           /\ tftp_state' = "SEND_RRQ" => p.op = "RRQ"
           /\ tftp_state' = "SEND_WRQ" => p.op = "WRQ"
           /\ tftp_state' \in {"OACK", "RECV_WRQ", "DATA"} =>
                IF tftp_put_active'
                THEN /\ p.op = "DATA" /\ p.hdr = tftp_cur_block' % SeqSize
                     /\ p.off = LoadOffset /\ p.len = load_block
                ELSE p.op = "ACK"
<1>1. CASE tftp_state' = "SEND_RRQ"
  <2>1. PICK p : /\ net' = inFlight \cup {p}
                 /\ p = Packet("peer", "RRQ", tftp_remote_port', tftp_our_port',
                               0, 0, 0, 0)
    BY Zenon, <1>1 DEF tftp_send
  <2> QED BY <1>1, <2>1 DEF Packet
<1>2. CASE tftp_state' = "SEND_WRQ"
  <2>1. PICK p : /\ net' = inFlight \cup {p}
                 /\ p = Packet("peer", "WRQ", tftp_remote_port', tftp_our_port',
                               0, 0, 0, 0)
    BY Zenon, <1>2 DEF tftp_send
  <2> QED BY <1>2, <2>1 DEF Packet
<1>3. CASE tftp_state' \in {"OACK", "RECV_WRQ", "DATA"} /\ tftp_put_active'
  <2>1. PICK p : /\ net' = inFlight \cup {p}
                 /\ p = Packet("peer", "DATA", tftp_remote_port', tftp_our_port',
                               cur_num', tftp_cur_block' % SeqSize, LoadOffset, load_block)
    BY Zenon, <1>3 DEF tftp_send
  <2> QED BY <1>3, <2>1 DEF Packet
<1>4. CASE tftp_state' \in {"OACK", "RECV_WRQ", "DATA"} /\ ~tftp_put_active'
  <2>1. PICK p : /\ net' = inFlight \cup {p}
                 /\ p = Packet("peer", "ACK", tftp_remote_port', tftp_our_port',
                               cur_num', tftp_cur_block' % SeqSize, 0, 0)
    BY Zenon, <1>4 DEF tftp_send
  <2> QED BY <1>4, <2>1 DEF Packet
<1> QED BY Zenon, <1>1, <1>2, <1>3, <1>4 DEF Started

\* A peer repeats its request, its OACK, its block or its acknowledgement.
LEMMA LastPacketIs ==
  ASSUME NEW t \in Tids, SessType', sess'[t].kind # "none",
         NEW p, p = LastPacket(t)'
  PROVE  /\ p.to = "host" /\ p.tid = t /\ p.port = sess'[t].port
         /\ sess'[t].num = 0 => p.op = sess'[t].hello /\ p.len = sess'[t].bs
         /\ sess'[t].num # 0 => p.op = IF sess'[t].kind = "send" THEN "DATA" ELSE "ACK"
<1> PICK s : s = sess'[t]  BY Zenon
<1>1. s.kind \in {"send", "recv"} /\ s.num \in Nat  BY Zenon DEF SessType
<1>2. CASE s.num = 0
  <2>1. p = Packet("host", s.hello, t, s.port, 0, 0, 0, s.bs)
    BY <1>2 DEF LastPacket
  <2> QED BY ONLY Zenon, <1>2, <2>1, s = sess'[t] DEF Packet
<1>3. CASE s.num > 0 /\ s.kind = "send"
  <2>1. p = Packet("host", "DATA", t, s.port, s.num, s.num % SeqSize,
                   (s.num - 1) * s.bs, BlockLen(s.num, s.bs))
    BY <1>3 DEF LastPacket
  <2> QED BY ONLY <1>3, <2>1, s = sess'[t] DEF Packet
<1>4. CASE s.num > 0 /\ s.kind = "recv"
  <2>1. p = Packet("host", "ACK", t, s.port, s.num, s.num % SeqSize, 0, 0)
    BY <1>4 DEF LastPacket
  <2> QED BY ONLY <1>4, <2>1, s = sess'[t] DEF Packet
<1> QED BY ONLY <1>1, <1>2, <1>3, <1>4

\* Taking a packet adds none.
LEMMA TakenKeeps == \A m : \A p \in Taken(m) : p \in net
  BY Zenon DEF Taken
-----------------------------------------------------------------------------
\* Only tftpsrv itself is run, or transfers whose ports are never reused and
\* which leave no tftp_put_active behind.
SrvAlone == MaxCmds <= 1 \/ (FreshPorts /\ "TFTPPUT" \notin Commands)

\* Nothing has been sent yet when tftpsrv starts.
LEMMA InitSrv == Init => SrvInv
<1> SUFFICES ASSUME Init PROVE SrvInv  BY Zenon
<1>1. \A t \in Tids : sess[t].kind = "none"  BY Zenon DEF Init, NoSession
<1>2. net = {} /\ protocol = "none" /\ ncmd = 0 /\ ~running /\ ~tftp_put_active
  BY Zenon DEF Init
<1> QED BY Zenon, <1>1, <1>2 DEF SrvInv, Quiet, Offered

\* A step of ours in net_loop, told by what it sends and from where.
LEMMA SrvHostStep ==
  ASSUME SrvInv, SrvAlone, running,
         UNCHANGED <<protocol, ncmd, sess, tftp_put_active>>,
         tftp_our_port' = tftp_our_port
         \/ (tftp_our_port' # WellKnown /\ (FreshPorts => tftp_our_port' \notin UsedPorts)),
         protocol = "TFTPSRV" =>
           /\ tftp_state' \in {"RECV_WRQ", "OACK", "DATA"}
           /\ tftp_our_port' = WellKnown => tftp_state' = "RECV_WRQ",
         \A p \in net' :
           \/ p \in net
           \/ /\ p.to = "peer" /\ p.port = tftp_our_port' /\ p.port # WellKnown
              /\ protocol = "TFTPSRV" => p.op = "ACK"
  PROVE  SrvInv'
<1>1. protocol' # "none" /\ ncmd' # 0  BY Zenon DEF SrvInv, Quiet
<1>2. \A t \in Tids : sess'[t].kind # "none" /\ sess'[t].port = WellKnown => Offered(t)'
  BY Zenon DEF SrvInv, Offered
<1>3. \A m \in net' : m.port = WellKnown => Offer(m)  BY Zenon DEF SrvInv
<1>4. ASSUME protocol' = "TFTPSRV", NEW m \in net', m.to = "peer",
             MaxCmds <= 1 \/ m.port = tftp_our_port'
      PROVE  m.op = "ACK"
  <2>1. CASE m \notin net  BY Zenon, <1>4, <2>1
  <2>2. CASE m \in net /\ (MaxCmds <= 1 \/ tftp_our_port' = tftp_our_port)
    BY Zenon, <1>4, <2>2 DEF SrvInv
  <2>3. CASE m \in net /\ ~(MaxCmds <= 1) /\ tftp_our_port' \notin UsedPorts
    BY Zenon, <1>4, <2>3 DEF UsedPorts
  <2> QED BY Zenon, <2>1, <2>2, <2>3 DEF SrvAlone
<1> QED BY Zenon, <1>1, <1>2, <1>3, <1>4 DEF SrvInv, Quiet

\* The packet handlers: to its well-known port tftpsrv is only sent offers,
\* and it answers them from another port.
LEMMA SrvReceive ==
  ASSUME TypeInv, SrvInv, SrvAlone, Receive
  PROVE  SrvInv'
<1> USE DEF connVars, putVars
<1>0. tftp_put_active \in BOOLEAN  BY Zenon DEF TypeInv, TypeOK, FlagType
<1>1. ASSUME NEW m \in net, Arrives(m)
      PROVE  /\ UNCHANGED <<protocol, ncmd, sess>> /\ running /\ m.to = "host" /\ Started
             /\ Accepted(m) /\ m.op # "WRQ" => tftp_our_port # WellKnown
             /\ \A p \in Taken(m) : p \in net
  <2>1. Accepted(m) /\ m.op # "WRQ" => tftp_our_port # WellKnown
    BY Zenon DEF SrvInv, Offer, Accepted, PortsOK
  <2> QED BY Zenon, <1>1, <2>1, TakenKeeps DEF Arrives, TypeInv
<1>2. ASSUME running, tftp_our_port # WellKnown, Started',
             UNCHANGED <<protocol, ncmd, sess, tftp_put_active, tftp_our_port>>,
             protocol = "TFTPSRV" => tftp_state' \in {"RECV_WRQ", "OACK", "DATA"},
             \/ \A p \in net' : p \in net
             \/ \E m \in net, final \in BOOLEAN : tftp_send(Taken(m), final)
      PROVE  SrvInv'
  <2>1. CASE \A p \in net' : p \in net  BY Zenon, <1>2, <2>1, SrvHostStep
  <2>2. CASE \E m \in net, final \in BOOLEAN : tftp_send(Taken(m), final)
    <3>0. PICK m \in net, final \in BOOLEAN : tftp_send(Taken(m), final)  BY Zenon, <2>2
    <3>1. tftp_put_active' \in BOOLEAN  BY Zenon, <1>0, <1>2
    <3>2. PICK p :
            /\ net' = Taken(m) \cup {p} /\ p.to = "peer" /\ p.port = tftp_our_port'
            /\ tftp_state' \in {"OACK", "RECV_WRQ", "DATA"} /\ ~tftp_put_active' =>
                 p.op = "ACK"
      BY ZenonT(30), <1>2, <3>0, <3>1, SendPacket
    <3>3. protocol = "TFTPSRV" => p.op = "ACK"  BY Zenon, <1>2, <3>2 DEF SrvInv
    <3>4. \A q \in net' : q \in net \/ q = p  BY Zenon, <3>2, TakenKeeps
    <3> QED BY Zenon, <1>2, <3>2, <3>3, <3>4, SrvHostStep
  <2> QED BY Zenon, <1>2, <2>1, <2>2
<1>3. ASSUME NEW m \in net, Ignore(m) \/ RecvDataSame(m) \/ RecvError(m) PROVE SrvInv'
  <2>1. Arrives(m) /\ net' = Taken(m) /\ UNCHANGED <<connVars, putVars>>
    BY Zenon, <1>3 DEF Ignore, RecvDataSame, RecvError
  <2>2. \A p \in net' : p \in net  BY Zenon, <2>1, TakenKeeps
  <2> QED BY Zenon, <1>1, <2>1, <2>2, SrvHostStep DEF SrvInv
<1>4. ASSUME NEW m \in net, RecvAck(m) PROVE SrvInv'
  <2>1. /\ Arrives(m) /\ Accepted(m) /\ m.op = "ACK" /\ UNCHANGED <<connVars, tftp_put_active>>
        /\ net' = Taken(m) \/ tftp_send(Taken(m), tftp_put_final_block_sent)
    BY Zenon, <1>4 DEF RecvAck
  <2>2. tftp_put_final_block_sent \in BOOLEAN  BY Zenon DEF TypeInv, TypeOK, FlagType
  <2> QED BY Zenon, <1>1, <1>2, <2>1, <2>2 DEF SrvInv, Started
<1>5. ASSUME NEW m \in net, RecvOack(m) PROVE SrvInv'
  <2>1. /\ Arrives(m) /\ Accepted(m) /\ m.op = "OACK" /\ tftp_state' \in {"OACK", "DATA"}
        /\ UNCHANGED <<tftp_our_port, tftp_put_active>>
        /\ tftp_send(Taken(m), tftp_put_final_block_sent)
    BY Zenon, <1>5 DEF RecvOack
  <2>2. tftp_put_final_block_sent \in BOOLEAN  BY Zenon DEF TypeInv, TypeOK, FlagType
  <2> QED BY Zenon, <1>1, <1>2, <2>1, <2>2 DEF Started
<1>6. ASSUME NEW m \in net, RecvDataNotFirst(m) PROVE SrvInv'
  <2>1. /\ Arrives(m) /\ Accepted(m) /\ m.op = "DATA" /\ tftp_state' = "DATA"
        /\ UNCHANGED <<tftp_our_port, tftp_put_active>> /\ net' = Taken(m)
    BY Zenon, <1>6 DEF RecvDataNotFirst
  <2> QED BY Zenon, <1>1, <1>2, <2>1 DEF Started
<1>7. ASSUME NEW m \in net, RecvData(m) PROVE SrvInv'
  <2>1. /\ Arrives(m) /\ Accepted(m) /\ m.op = "DATA" /\ tftp_state' \in {"DATA", tftp_state}
        /\ UNCHANGED <<tftp_our_port, tftp_put_active>>
        /\ tftp_send(Taken(m), tftp_put_final_block_sent /\ ~AwaitingFirst)
    BY Zenon, <1>7 DEF RecvData
  <2>2. (tftp_put_final_block_sent /\ ~AwaitingFirst) \in BOOLEAN  BY Zenon
  <2>3. Started' /\ (protocol = "TFTPSRV" => tftp_state' \in {"RECV_WRQ", "OACK", "DATA"})
    BY Zenon, <1>1, <2>1 DEF Started, SrvInv
  <2> QED BY Zenon, <1>1, <1>2, <2>1, <2>2, <2>3
<1>8. ASSUME NEW m \in net, RecvWrq(m) PROVE SrvInv'
  <2>1. /\ Arrives(m) /\ UNCHANGED <<tftp_state, tftp_put_active>>
        /\ tftp_our_port' \in Ports /\ (FreshPorts => tftp_our_port' \notin UsedPorts)
        /\ tftp_send(Taken(m), FALSE)
    BY Zenon, <1>8 DEF RecvWrq
  <2>2. tftp_our_port' # WellKnown  BY Zenon, <2>1, TftpAssumption
  <2>3. Started' /\ tftp_put_active' \in BOOLEAN  BY Zenon, <1>0, <1>1, <2>1 DEF Started
  <2>4. PICK p :
          /\ net' = Taken(m) \cup {p} /\ p.to = "peer" /\ p.port = tftp_our_port'
          /\ tftp_state' \in {"OACK", "RECV_WRQ", "DATA"} /\ ~tftp_put_active' =>
               p.op = "ACK"
    BY ZenonT(30), <2>1, <2>3, SendPacket
  <2>5. protocol = "TFTPSRV" => /\ tftp_state' \in {"RECV_WRQ", "OACK", "DATA"}
                                /\ p.op = "ACK"
    BY Zenon, <2>1, <2>4 DEF SrvInv
  <2>6. \A q \in net' : q \in net \/ q = p  BY Zenon, <2>4, TakenKeeps
  <2> QED BY Zenon, <1>1, <2>1, <2>2, <2>4, <2>5, <2>6, SrvHostStep
<1>9. CASE RecvIcmp
  BY Zenon, <1>9, SrvHostStep DEF RecvIcmp, peerVars, SrvInv
<1> QED BY Zenon, <1>3, <1>4, <1>5, <1>6, <1>7, <1>8, <1>9 DEF Receive

\* The timers: tftp_timeout_handler is silent while tftpsrv waits for an offer.
LEMMA SrvTimer ==
  ASSUME TypeInv, SrvInv, SrvAlone, Timer
  PROVE  SrvInv'
<1> USE DEF connVars, putVars, peerVars
<1>1. /\ running /\ UNCHANGED <<protocol, ncmd, sess, tftp_put_active, connVars>>
      /\ net' = net \/ (tftp_state # "RECV_WRQ" /\ tftp_send(net, tftp_put_final_block_sent))
  BY Zenon DEF Timer, tftp_timeout_handler, start_again_timeout_handler
<1>2. Started' /\ tftp_put_active' \in BOOLEAN
  BY Zenon, <1>1 DEF TypeInv, TypeOK, FlagType, Started
<1>3. CASE net' = net  BY Zenon, <1>1, <1>3, SrvHostStep DEF SrvInv
<1>4. CASE tftp_state # "RECV_WRQ" /\ tftp_send(net, tftp_put_final_block_sent)
  <2>1. PICK p :
          /\ net' = net \cup {p} /\ p.to = "peer" /\ p.port = tftp_our_port'
          /\ tftp_state' \in {"OACK", "RECV_WRQ", "DATA"} /\ ~tftp_put_active' =>
               p.op = "ACK"
    BY ZenonT(30), <1>2, <1>4, SendPacket
  <2>2. protocol # "none"  BY Zenon, <1>1 DEF SrvInv, Quiet
  <2>3. protocol \in {"TFTPGET", "TFTPPUT", "TFTPSRV"}
    BY ONLY Zenon, <2>2, TypeInv, TftpAssumption DEF TypeInv, TypeOK, LoopType
  <2>4. tftp_our_port' # WellKnown  BY Zenon, <1>1, <1>4, <2>3 DEF SrvInv
  <2>5. protocol = "TFTPSRV" => p.op = "ACK"  BY Zenon, <1>1, <2>1 DEF SrvInv
  <2> QED BY Zenon, <1>1, <2>1, <2>4, <2>5, SrvHostStep DEF SrvInv
<1> QED BY Zenon, <1>1, <1>3, <1>4

\* net_loop starts tftpsrv on its well-known port, with tftp_put_active as it
\* was, and the clients on a port of their own.
LEMMA SrvStart ==
  ASSUME TypeInv, SrvInv, SrvAlone, net_loop \/ SwitchRestart \/ SwitchRetry
  PROVE  SrvInv'
<1> USE DEF peerVars, putVars
<1>1. protocol \in Commands \cup {"none"} /\ ncmd \in 0..MaxCmds
      /\ tftp_put_active \in BOOLEAN
  BY Zenon DEF TypeInv, TypeOK, LoopType, FlagType
<1>2. /\ StartProtocol /\ UNCHANGED <<sess, seen, lost>>
      /\ \/ ncmd < MaxCmds /\ ncmd' = ncmd + 1 /\ protocol' \in Commands
         \/ running /\ UNCHANGED <<protocol, ncmd>>
  BY Zenon DEF net_loop, SwitchRestart, SwitchRetry, StartProtocol
<1>3. \/ "TFTPPUT" \notin Commands /\ MaxCmds > 1
      \/ protocol = "none"
      \/ protocol' = protocol
  BY ONLY TftpAssumption, SrvAlone, SrvInv, <1>1, <1>2 DEF SrvAlone, SrvInv, Quiet
<1>4. protocol' # "none" /\ ncmd' # 0
  <2>1. protocol' # "none"
    BY ONLY Zenon, TftpAssumption, <1>2, SrvInv DEF SrvInv, Quiet
  <2>2. ncmd' # 0
    BY ONLY TftpAssumption, <1>1, <1>2, SrvInv DEF SrvInv, Quiet
  <2> QED BY Zenon, <2>1, <2>2
<1>5. \A t \in Tids : sess'[t].kind # "none" /\ sess'[t].port = WellKnown => Offered(t)'
  BY Zenon, <1>2 DEF SrvInv, Offered
<1>6. CASE protocol' = "TFTPSRV"
  <2>1. tftp_start_server  BY Zenon, <1>2, <1>6 DEF StartProtocol
  <2>2. /\ net' = net /\ tftp_put_active' = tftp_put_active
        /\ tftp_our_port' = WellKnown /\ tftp_state' = "RECV_WRQ"
    BY Zenon, <2>1 DEF tftp_start_server
  <2>3. ~tftp_put_active'
    <3>1. CASE "TFTPPUT" \notin Commands /\ MaxCmds > 1
      BY Zenon, <1>1, <2>2, <3>1 DEF SrvInv
    <3>2. CASE protocol = "none"  BY Zenon, <2>2, <3>2 DEF SrvInv, Quiet
    <3>3. CASE protocol' = protocol  BY Zenon, <1>6, <2>2, <3>3 DEF SrvInv
    <3> QED BY Zenon, <1>3, <3>1, <3>2, <3>3
  <2>4. ASSUME NEW m \in net', m.to = "peer", MaxCmds <= 1 \/ m.port = tftp_our_port'
        PROVE  m.op = "ACK"
    <3>1. ~Offer(m)  BY Zenon, <2>4 DEF Offer
    <3>2. m.port # WellKnown  BY Zenon, <2>2, <3>1 DEF SrvInv
    <3>3. MaxCmds <= 1 /\ protocol # "none"  BY Zenon, <2>2, <2>4, <3>1, <3>2 DEF SrvInv, Quiet
    <3>4. protocol' = protocol  BY ONLY TftpAssumption, <1>3, <3>3
    <3> QED BY Zenon, <1>6, <2>2, <2>4, <3>3, <3>4 DEF SrvInv
  <2>5. \A m \in net' : m.port = WellKnown => Offer(m)  BY Zenon, <2>2 DEF SrvInv
  <2> QED BY Zenon, <1>4, <1>5, <1>6, <2>2, <2>3, <2>4, <2>5 DEF SrvInv, Quiet
<1>7. CASE protocol' # "TFTPSRV"
  <2>1. tftp_start  BY Zenon, <1>2, <1>7 DEF StartProtocol
  <2>2. /\ tftp_put_active' = (protocol' = "TFTPPUT") /\ tftp_our_port' \in Ports
        /\ tftp_state' \in {"SEND_RRQ", "SEND_WRQ"}
        /\ tftp_send(net, tftp_put_final_block_sent /\ ~tftp_put_active')
    BY Zenon, <2>1 DEF tftp_start
  <2>3. tftp_our_port' # WellKnown  BY ONLY Zenon, <2>2, TftpAssumption
  <2>4. Started' /\ tftp_put_active' \in BOOLEAN  BY Zenon, <2>2 DEF Started
  <2>5. PICK p : net' = net \cup {p} /\ p.port = tftp_our_port'
    BY ZenonT(30), <2>2, <2>4, SendPacket
  <2>6. \A m \in net' : m.port = WellKnown => Offer(m)  BY Zenon, <2>3, <2>5 DEF SrvInv
  <2>7. tftp_put_active' => protocol' = "TFTPPUT"  BY Zenon, <2>2
  <2> QED BY Zenon, <1>4, <1>5, <1>7, <2>3, <2>6, <2>7 DEF SrvInv, Quiet
<1> QED BY Zenon, <1>6, <1>7

\* A step of the peers or the network, told by what it sends and opens.
LEMMA SrvPeerStep ==
  ASSUME SrvInv, UNCHANGED hostVars,
         \A t \in Tids :
           \/ sess'[t] = sess[t]
           \/ Offered(t)'
           \/ protocol # "none" /\ sess'[t].port # WellKnown,
         \A p \in net' :
           \/ p \in net
           \/ Offer(p)
           \/ protocol # "none" /\ p.to = "host" /\ p.port # WellKnown
  PROVE  SrvInv'
<1> USE DEF hostVars, loopVars, handlerVars, loadVars, blockVars, connVars,
            countVars, putVars
<1>1. UNCHANGED <<protocol, ncmd, running, tftp_put_active, tftp_our_port, tftp_state>>
  BY Zenon
<1> HIDE DEF hostVars
<1>2. \A t \in Tids : sess'[t] = sess[t] /\ Offered(t) => Offered(t)'  BY Zenon DEF Offered
<1>3. \A t \in Tids : sess'[t].kind # "none" /\ sess'[t].port = WellKnown => Offered(t)'
  BY Zenon, <1>2 DEF SrvInv
<1>4. \A m \in net' : m.port = WellKnown => Offer(m)  BY Zenon DEF SrvInv
<1>5. Quiet'  BY Zenon, <1>1, <1>2 DEF SrvInv, Quiet
<1>6. \A m \in net' : m.to = "peer" => m \in net  BY Zenon DEF Offer
<1> QED BY Zenon, <1>1, <1>3, <1>4, <1>5, <1>6 DEF SrvInv

\* The steps of the peers and of the network: a session other than an offer
\* has the port we sent from.
LEMMA SrvPeers ==
  ASSUME TypeInv, TypeInv', SrvInv, Peer \/ Lose
  PROVE  SrvInv'
<1>0. SessType /\ SessType'  BY Zenon DEF TypeInv
<1>1. ASSUME NEW m \in net, m.to = "peer"
      PROVE  protocol # "none" /\ m.port # WellKnown
  BY Zenon, <1>1 DEF SrvInv, Quiet, Offer
<1>2. ASSUME NEW t \in Tids, sess'[t].kind # "none",
             Offered(t)' \/ (protocol # "none" /\ sess'[t].port # WellKnown),
             NEW p, p = LastPacket(t)'
      PROVE  Offer(p) \/ (protocol # "none" /\ p.to = "host" /\ p.port # WellKnown)
  <2>0. SessType' /\ sess'[t].kind # "none" /\ p = LastPacket(t)'  BY Zenon, <1>0, <1>2
  <2>1. /\ p.to = "host" /\ p.port = sess'[t].port
        /\ sess'[t].num = 0 => p.op = sess'[t].hello
    BY ONLY <2>0, t \in Tids, LastPacketIs
  <2> QED BY Zenon, <1>2, <2>1 DEF Offer, Offered
<1>3. ASSUME UNCHANGED hostVars, UNCHANGED sess, NEW t \in Tids, sess[t].kind # "none",
             \A p \in net' : p \in net \/ p = LastPacket(t)
      PROVE  SrvInv'
  <2>1. LastPacket(t) = LastPacket(t)'  BY Zenon, <1>3 DEF LastPacket
  <2>2. Offered(t)' \/ (protocol # "none" /\ sess'[t].port # WellKnown)
    BY Zenon, <1>3 DEF SrvInv, Quiet, Offered
  <2> QED BY Zenon, <1>2, <1>3, <2>1, <2>2, SrvPeerStep
<1>4. ASSUME UNCHANGED hostVars, NEW t \in Tids, NEW s, sess' = [sess EXCEPT ![t] = s],
             sess'[t].kind # "none",
             Offered(t)' \/ (protocol # "none" /\ s.port # WellKnown),
             \A p \in net' : p \in net \/ p = LastPacket(t)'
      PROVE  SrvInv'
  <2>1. sess'[t] = s /\ \A u \in Tids : u # t => sess'[u] = sess[u]
    BY Zenon, <1>0, <1>4 DEF SessType
  <2> QED BY Zenon, <1>2, <1>4, <2>1, SrvPeerStep
<1>5. ASSUME NEW m \in net, ServerRequest(m) PROVE SrvInv'
  <2>0. UNCHANGED hostVars /\ m.to = "peer"  BY Zenon, <1>5 DEF ServerRequest
  <2>1. protocol # "none" /\ m.port # WellKnown  BY Zenon, <1>1, <2>0
  <2>2. CASE \E t \in Tids : \E s :
               /\ sess' = [sess EXCEPT ![t] = s] /\ s.port = m.port /\ s.kind # "none"
               /\ net' = Taken(m) \cup {LastPacket(t)'}
    <3>0. PICK t \in Tids : \E s :
            /\ sess' = [sess EXCEPT ![t] = s] /\ s.port = m.port /\ s.kind # "none"
            /\ net' = Taken(m) \cup {LastPacket(t)'}
      BY Zenon, <2>2
    <3>1. PICK s :
            /\ sess' = [sess EXCEPT ![t] = s] /\ s.port = m.port /\ s.kind # "none"
            /\ net' = Taken(m) \cup {LastPacket(t)'}
      BY Zenon, <3>0
    <3>2. sess'[t].kind # "none"  BY Zenon, <1>0, <3>1 DEF SessType
    <3> QED BY Zenon, <1>4, <2>0, <2>1, <3>1, <3>2, TakenKeeps
  <2>3. CASE \E p : /\ net' = Taken(m) \cup {p} /\ UNCHANGED sess
                    /\ p.to = "host" /\ p.port = m.port
    BY Zenon, <2>0, <2>1, <2>3, TakenKeeps, SrvPeerStep
  <2>4. CASE \E t \in Tids : /\ sess[t].kind # "none" /\ UNCHANGED sess
                             /\ net' = Taken(m) \cup {LastPacket(t)}
    BY Zenon, <1>3, <2>0, <2>4, TakenKeeps
  <2> QED
    <3>1. CASE \E t \in Tids, opt \in ServerOpts :
          /\ sess[t].kind = "none"
          /\ sess' = [sess EXCEPT ![t] =
               [kind  |-> IF m.op = "RRQ" THEN "send" ELSE "recv",
                hello |-> IF opt THEN "OACK" ELSE "ACK",
                port  |-> m.port,
                num   |-> IF m.op = "RRQ" /\ ~opt THEN 1 ELSE 0,
                bs    |-> IF opt THEN OptBlk ELSE DefBlk,
                data  |-> <<>>]]
          /\ net' = Taken(m) \cup {LastPacket(t)'}
      <4>0. PICK t \in Tids, opt \in ServerOpts :
              /\ sess' = [sess EXCEPT ![t] =
                   [kind  |-> IF m.op = "RRQ" THEN "send" ELSE "recv",
                    hello |-> IF opt THEN "OACK" ELSE "ACK",
                    port  |-> m.port,
                    num   |-> IF m.op = "RRQ" /\ ~opt THEN 1 ELSE 0,
                    bs    |-> IF opt THEN OptBlk ELSE DefBlk,
                    data  |-> <<>>]]
              /\ net' = Taken(m) \cup {LastPacket(t)'}
        BY Zenon, <3>1
      <4>1. PICK s :
              /\ s = [kind  |-> IF m.op = "RRQ" THEN "send" ELSE "recv",
                      hello |-> IF opt THEN "OACK" ELSE "ACK",
                      port  |-> m.port,
                      num   |-> IF m.op = "RRQ" /\ ~opt THEN 1 ELSE 0,
                      bs    |-> IF opt THEN OptBlk ELSE DefBlk,
                      data  |-> <<>>]
              /\ sess' = [sess EXCEPT ![t] = s]
        BY ZenonT(30), <4>0
      <4>2. s.port = m.port /\ s.kind # "none"  BY Zenon, <4>1
      <4> QED BY Zenon, <2>2, <4>0, <4>1, <4>2
    <3>2. CASE \E t \in Tids, err \in {"notfound", "error"} \cap Faults :
          /\ net' = Taken(m) \cup
               {Packet("host", IF err = "error" THEN "ERR_OTHER"
                                                ELSE "ERR_FILE_NOT_FOUND",
                       t, m.port, 0, 0, 0, 0)}
          /\ UNCHANGED sess
      <4>1. PICK p : \E t, op :
              /\ net' = Taken(m) \cup {p} /\ UNCHANGED sess
              /\ p = Packet("host", op, t, m.port, 0, 0, 0, 0)
        BY Zenon, <3>2
      <4>2. p.to = "host" /\ p.port = m.port  BY ONLY <4>1 DEF Packet
      <4> QED BY Zenon, <2>3, <4>1, <4>2
    <3> QED BY ZenonT(30), <1>5, <2>4, <3>1, <3>2 DEF ServerRequest
<1>6. ASSUME NEW m \in net, NEW t \in Tids, SenderAck(m, t) PROVE SrvInv'
  <2>0. UNCHANGED hostVars /\ m.to = "peer" /\ sess[t].kind = "send"
    BY Zenon, <1>6 DEF SenderAck, Reaches
  <2>1. protocol # "none" /\ m.port # WellKnown  BY Zenon, <1>1, <2>0
  <2>2. CASE /\ sess' = [sess EXCEPT ![t].num = @ + 1, ![t].port = m.port]
             /\ net' = Taken(m) \cup {LastPacket(t)'}
    <3>1. PICK s : s = [sess[t] EXCEPT !.num = @ + 1, !.port = m.port]  BY Zenon
    <3>2. sess' = [sess EXCEPT ![t] = s]  BY Zenon, <1>0, <2>2, <3>1 DEF SessType
    <3>3. s.port = m.port /\ s.kind = "send"  BY Zenon, <1>0, <2>0, <3>1 DEF SessType
    <3>4. sess'[t].kind # "none"  BY Zenon, <1>0, <3>2, <3>3 DEF SessType
    <3> QED BY Zenon, <1>4, <2>0, <2>1, <2>2, <3>2, <3>3, <3>4, TakenKeeps
  <2>3. CASE net' = Taken(m) \cup {LastPacket(t)} /\ UNCHANGED sess
    BY Zenon, <1>3, <2>0, <2>3, TakenKeeps
  <2> QED BY Zenon, <1>6, <2>2, <2>3 DEF SenderAck
<1>7. ASSUME NEW m \in net, NEW t \in Tids, ReceiverData(m, t) PROVE SrvInv'
  <2>0. UNCHANGED hostVars /\ m.to = "peer" /\ sess[t].kind = "recv" /\ m.port = sess[t].port
    BY Zenon, <1>7 DEF ReceiverData, Reaches
  <2>1. protocol # "none" /\ m.port # WellKnown  BY Zenon, <1>1, <2>0
  <2>2. CASE /\ sess' = [sess EXCEPT
                  ![t].num = @ + 1,
                  ![t].data = @ \o [i \in 1..m.len |-> m.off + i - 1]]
             /\ net' = Taken(m) \cup {LastPacket(t)'}
    <3>1. PICK s : s = [sess[t] EXCEPT !.num = @ + 1,
                          !.data = @ \o [i \in 1..m.len |-> m.off + i - 1]]
      BY Zenon
    <3>2. sess' = [sess EXCEPT ![t] = s]  BY ZenonT(30), <1>0, <2>2, <3>1 DEF SessType
    <3>3. s.port = m.port /\ s.kind = "recv"  BY Zenon, <1>0, <2>0, <3>1 DEF SessType
    <3>4. sess'[t].kind # "none"  BY Zenon, <1>0, <3>2, <3>3 DEF SessType
    <3> QED BY Zenon, <1>4, <2>0, <2>1, <2>2, <3>2, <3>3, <3>4, TakenKeeps
  <2>3. CASE net' = Taken(m) \cup {LastPacket(t)} /\ UNCHANGED sess
    BY Zenon, <1>3, <2>0, <2>3, TakenKeeps
  <2>4. CASE net' = Taken(m) /\ UNCHANGED sess
    BY Zenon, <2>0, <2>4, TakenKeeps, SrvPeerStep
  <2> QED BY Zenon, <1>7, <2>2, <2>3, <2>4 DEF ReceiverData
<1>8. CASE RemoteWrq
  <2>0. PICK t \in Tids :
          /\ sess' = [sess EXCEPT ![t] =
               [kind |-> "send", hello |-> "WRQ", port |-> WellKnown,
                num |-> 0, bs |-> DefBlk, data |-> <<>>]]
          /\ net' = net \cup {LastPacket(t)'}
    BY Zenon, <1>8 DEF RemoteWrq
  <2>1. PICK s :
          /\ s = [kind |-> "send", hello |-> "WRQ", port |-> WellKnown,
                  num |-> 0, bs |-> DefBlk, data |-> <<>>]
          /\ sess' = [sess EXCEPT ![t] = s]
    BY ZenonT(30), <2>0
  <2>2. sess'[t] = s  BY Zenon, <1>0, <2>1 DEF SessType
  <2>3. s.kind = "send" /\ s.hello = "WRQ" /\ s.num = 0 /\ s.port = WellKnown
    BY Zenon, <2>1
  <2>4. Offered(t)'  BY Zenon, <2>2, <2>3 DEF Offered
  <2>5. sess' = [sess EXCEPT ![t] = s] /\ sess'[t].kind # "none"  BY Zenon, <2>1, <2>2, <2>3
  <2>6. UNCHANGED hostVars  BY Zenon, <1>8 DEF RemoteWrq
  <2> QED BY Zenon, <1>4, <2>0, <2>4, <2>5, <2>6
<1>9. CASE PeerTimeout
  BY Zenon, <1>3, <1>9 DEF PeerTimeout, peerVars
<1>10. CASE Lose
  BY Zenon, <1>10, SrvPeerStep DEF Lose
<1> QED BY Zenon, <1>5, <1>6, <1>7, <1>8, <1>9, <1>10 DEF Peer

\* Every step keeps SrvInv.
LEMMA SrvNext ==
  ASSUME SrvAlone, TypeInv, TypeInv', SrvInv, [Next]_vars
  PROVE  SrvInv'
<1>1. CASE SwitchSuccess \/ SwitchFail \/ CtrlC
  <2>1. running /\ UNCHANGED <<protocol, ncmd, connVars, putVars, net, peerVars>>
    BY Zenon, <1>1 DEF SwitchSuccess, SwitchFail, Leave, CtrlC
  <2> QED BY Zenon, <2>1, SrvHostStep DEF SrvInv, connVars, putVars, peerVars
<1>2. CASE UNCHANGED vars
  BY Zenon, <1>2, SrvPeerStep DEF vars, hostVars, peerVars
<1> QED BY Zenon, <1>1, <1>2, SrvReceive, SrvTimer, SrvStart, SrvPeers
        DEF Next, Switch

\* tftpsrv sends nothing but acknowledgements, over any network and with any
\* peers: tftp_send never takes tftp_put_active from an earlier tftpput, and
\* nothing is sent from the well-known port.
THEOREM SrvSendsAcksHolds ==
  ASSUME SrvAlone
  PROVE  Spec => []SrvSendsAcks
<1>1. Init => TypeInv /\ SrvInv  BY Zenon, InitType, InitSrv
<1>2. TypeInv /\ SrvInv /\ [Next]_vars => TypeInv' /\ SrvInv'  BY Zenon, NextType, SrvNext
<1>3. SrvInv => SrvSendsAcks  BY Zenon DEF SrvInv, SrvSendsAcks
<1> QED BY <1>1, <1>2, <1>3, PTL DEF Spec
-----------------------------------------------------------------------------
\* One command, or only tftpput.
OneCommand == MaxCmds <= 1 \/ Commands = {"TFTPPUT"}

\* The file has fewer blocks than there are block numbers, and fewer OACKs
\* than that come to one tftpput.
FewBlocks ==
  MaxCur <= SeqSize /\ \A b \in {DefBlk, OptBlk} : FileLen < (SeqSize - 1) * b

\* A block number the server expects tells which block it is.
LEMMA ExpectedBlock ==
  ASSUME FewBlocks, NEW bs \in {DefBlk, OptBlk}, NEW num \in Nat, NEW c \in 0..SeqSize,
         num * bs <= FileLen, c % SeqSize = (num + 1) % SeqSize
  PROVE  c = num + 1
<1>1. SeqSize \in Nat /\ SeqSize > 1 /\ bs \in Nat /\ bs > 0  BY TftpAssumption
<1>2. num * bs < (SeqSize - 1) * bs
  <2>1. num * bs \in Nat /\ (SeqSize - 1) * bs \in Nat  BY ONLY <1>1, num \in Nat
  <2>2. FileLen \in Nat /\ FileLen < (SeqSize - 1) * bs  BY Zenon, TftpAssumption DEF FewBlocks
  <2> QED BY ONLY <2>1, <2>2, num * bs <= FileLen
<1>3. num < SeqSize - 1
  <2>1. ASSUME num >= SeqSize - 1 PROVE FALSE
    <3>0. PICK d : d = num - (SeqSize - 1)  BY Zenon
    <3>1. d \in Nat /\ num = (SeqSize - 1) + d
      BY ONLY <1>1, <2>1, <3>0, num \in Nat
    <3>2. num * bs = (SeqSize - 1) * bs + d * bs /\ d * bs \in Nat
      BY ONLY <1>1, <3>1, num \in Nat
    <3> QED BY ONLY <1>1, <1>2, <3>1, <3>2
  <2> QED BY ONLY <1>1, <2>1, num \in Nat
<1>4. (num + 1) % SeqSize = num + 1  BY ONLY <1>1, <1>3, num \in Nat
<1>5. SeqSize % SeqSize = 0  BY ONLY <1>1
<1>6. c # SeqSize => c % SeqSize = c  BY ONLY <1>1, c \in 0..SeqSize
<1> QED BY ONLY <1>1, <1>4, <1>5, <1>6, c % SeqSize = (num + 1) % SeqSize, num \in Nat

\* The second part of a concatenation.
LEMMA ConcatTail ==
  ASSUME NEW a \in Seq(Int), NEW b \in Seq(Int), NEW i \in Int,
         i > Len(a), i <= Len(a) + Len(b)
  PROVE  (a \o b)[i] = b[i - Len(a)]
  OBVIOUS

\* A server that appends the block it expects still has a prefix.
LEMMA AppendBlock ==
  ASSUME FewBlocks, NEW bs \in {DefBlk, OptBlk}, NEW num \in Nat, NEW c \in 0..SeqSize,
         NEW data, HasBlocks(data, num, bs), Len(data) = num * bs,
         c % SeqSize = (num + 1) % SeqSize,
         NEW off, off = (c - 1) * bs, NEW len, len = Loaded(off, bs),
         NEW more, more = data \o [i \in 1..len |-> off + i - 1]
  PROVE  HasBlocks(more, num + 1, bs)
<1>0. /\ data \in Seq(Int) /\ \A i \in 1..Len(data) : data[i] = i - 1
      /\ Len(data) = IF num * bs <= FileLen THEN num * bs ELSE FileLen
  BY Zenon DEF HasBlocks
<1>1. FileLen \in Nat /\ bs \in Nat /\ bs > 0 /\ num * bs <= FileLen
  <2>1. FileLen \in Nat /\ bs \in Nat /\ bs > 0  BY TftpAssumption
  <2>2. num * bs \in Nat  BY ONLY <2>1, num \in Nat
  <2> QED BY ONLY <1>0, <2>1, <2>2, Len(data) = num * bs
<1>2. c = num + 1  BY Zenon, ExpectedBlock, <1>1
<1>3. off = num * bs /\ off \in Nat /\ (num + 1) * bs = off + bs
  BY ONLY <1>1, <1>2, off = (c - 1) * bs, num \in Nat
<1>4. len \in Nat /\ off + len = IF off + bs <= FileLen THEN off + bs ELSE FileLen
  BY ONLY <1>1, <1>3, len = Loaded(off, bs) DEF Loaded
<1>5. PICK tail : tail = [i \in 1..len |-> off + i - 1]  BY Zenon
<1>6. tail \in Seq(Int) /\ Len(tail) = len /\ \A i \in 1..len : tail[i] = off + i - 1
  BY ONLY <1>3, <1>4, <1>5
<1>7. more \in Seq(Int) /\ Len(more) = off + len
  BY ONLY <1>3, <1>4, <1>5, <1>6, <1>0, Len(data) = num * bs,
          more = data \o [i \in 1..len |-> off + i - 1]
<1>8. ASSUME NEW i \in 1..Len(more) PROVE more[i] = i - 1
  <2>1. more = data \o tail /\ Len(data) = off /\ i \in 1..(off + len)
    BY ONLY Zenon, <1>3, <1>5, <1>7, Len(data) = num * bs, i \in 1..Len(more),
            more = data \o [j \in 1..len |-> off + j - 1]
  <2>2. CASE i <= off
    <3>1. more[i] = data[i] /\ i \in 1..Len(data)
      BY ONLY <1>3, <1>6, <2>1, <2>2, <1>0, <1>4
    <3> QED BY ONLY Zenon, <1>0, <3>1
  <2>3. CASE i > off
    <3>0. i \in Int /\ off \in Int /\ len \in Int /\ i - off \in 1..len
      BY ONLY <1>3, <1>4, <2>1, <2>3
    <3>1. /\ data \in Seq(Int) /\ tail \in Seq(Int) /\ Len(tail) = len
          /\ i <= Len(data) + Len(tail) /\ i > Len(data) /\ i \in Int
      BY ONLY <1>0, <1>6, <2>1, <2>3, <3>0
    <3>2. more[i] = tail[i - off]  BY ZenonT(30), ConcatTail, <2>1, <3>1
    <3> QED BY ONLY <1>6, <3>0, <3>2
  <2>4. i <= off \/ i > off  BY ONLY <1>3, <1>4, <2>1
  <2> QED BY Zenon, <2>2, <2>3, <2>4
<1> QED BY ONLY Zenon, <1>3, <1>4, <1>7, <1>8 DEF HasBlocks
-----------------------------------------------------------------------------
\* Before the first command there is nothing of a tftpput.
LEMMA InitPut == Init => PutInv
<1> SUFFICES ASSUME Init PROVE PutInv  BY Zenon
<1>1. \A t \in Tids : sess[t].kind = "none"  BY Zenon DEF Init, NoSession
<1>2. net = {} /\ protocol = "none" /\ ncmd = 0 /\ ~running /\ ~tftp_put_active
      /\ tftp_state = "none"
  BY Zenon DEF Init
<1> QED BY Zenon, <1>1, <1>2 DEF PutInv, Quiet, Offered, NoPut

\* What was true of a packet stays true while the sessions keep their kind
\* and block size.
LEMMA PutPacketKept ==
  ASSUME NEW m, PutPacket(m),
         \A t \in Tids : sess[t].kind = "recv" =>
                           sess'[t].kind = "recv" /\ sess'[t].bs = sess[t].bs
  PROVE  PutPacket(m)'
  BY Zenon DEF PutPacket, Offer

\* A step of ours in net_loop, told by what it sends.
LEMMA PutHostStep ==
  ASSUME PutInv, running, UNCHANGED <<protocol, ncmd, sess>>,
         protocol = "TFTPPUT" => PutHost',
         protocol # "TFTPPUT" => tftp_state' # "SEND_WRQ",
         \A p \in net' :
           \/ p \in net
           \/ /\ protocol # "TFTPPUT" => p.op # "WRQ"
              /\ protocol = "TFTPPUT" => PutPacket(p)'
  PROVE  PutInv'
<1>1. protocol' # "none" /\ ncmd' # 0  BY Zenon DEF PutInv, Quiet
<1>2. CASE protocol # "TFTPPUT"
  BY Zenon, <1>1, <1>2 DEF PutInv, Quiet, NoPut
<1>3. CASE protocol = "TFTPPUT"
  <2>1. \A t \in Tids : PutSession(t)'  BY Zenon, <1>3 DEF PutInv, PutSession, Offered
  <2>2. \A m \in net' : PutPacket(m)'  BY Zenon, <1>3, PutPacketKept DEF PutInv
  <2> QED BY Zenon, <1>1, <1>3, <2>1, <2>2 DEF PutInv, Quiet
<1> QED BY Zenon, <1>2, <1>3

\* tftp_send during a tftpput: the request, or the block tftp_cur_block in the
\* block size of the session it goes to.
LEMMA PutSend ==
  ASSUME NEW STATE inFlight, NEW STATE final, tftp_send(inFlight, final), PutHost',
         TypeInv'
  PROVE  \E p : net' = inFlight \cup {p} /\ PutPacket(p)'
<1>1. Started' /\ tftp_put_active' \in BOOLEAN  BY Zenon DEF PutHost, Started
<1>2. PICK p :
        /\ net' = inFlight \cup {p} /\ p.to = "peer" /\ p.tid = tftp_remote_port'
        /\ tftp_state' = "SEND_WRQ" => p.op = "WRQ"
        /\ tftp_state' = "DATA" =>
             /\ p.op = "DATA" /\ p.hdr = tftp_cur_block' % SeqSize
             /\ p.off = LoadOffset /\ p.len = load_block
  BY ZenonT(30), <1>1, SendPacket DEF PutHost
<1>3. CASE tftp_state' = "SEND_WRQ"  BY Zenon, <1>2, <1>3 DEF PutPacket
<1>4. CASE tftp_state' = "DATA"
  <2>1. PICK bs : bs = sess'[tftp_remote_port'].bs  BY Zenon
  <2>2. /\ tftp_block_size' = bs /\ tftp_block_wrap_offset' = 0
        /\ net_boot_file_size' = FileLen /\ tftp_cur_block' \in 0..SeqSize
        /\ tftp_remote_port' \in Tids /\ sess'[tftp_remote_port'].kind = "recv"
    BY Zenon, <1>4, <2>1 DEF PutHost
  <2>3. bs \in {DefBlk, OptBlk}  BY Zenon, <2>2 DEF TypeInv, TypeOK, ConnType
  <2>4. LoadOffset = (tftp_cur_block' - 1) * bs
    BY ONLY TftpAssumption, <2>2, <2>3 DEF LoadOffset
  <2>5. p.len = Loaded(p.off, bs)  BY Zenon, <1>2, <1>4, <2>2 DEF load_block, Loaded
  <2> QED BY Zenon, <1>2, <1>4, <2>1, <2>2, <2>4, <2>5 DEF PutPacket
<1> QED BY Zenon, <1>2, <1>3, <1>4 DEF PutHost

\* The packet handlers of a tftpput.
LEMMA PutReceive ==
  ASSUME TypeInv, TypeInv', PutInv, FewBlocks, Receive, protocol = "TFTPPUT"
  PROVE  PutInv'
<1> USE DEF connVars, putVars, loadVars, blockVars
<1>0. PutHost  BY Zenon DEF PutInv
<1>1. ASSUME NEW m \in net, Arrives(m)
      PROVE  /\ UNCHANGED <<protocol, ncmd, sess>> /\ running /\ m.to = "host"
             /\ PutPacket(m) /\ \A p \in Taken(m) : p \in net
  BY Zenon, <1>1, TakenKeeps DEF Arrives, PutInv
<1>2. ASSUME NEW m \in net, Arrives(m), PutHost',
             net' = Taken(m) \/ (\E final \in BOOLEAN : tftp_send(Taken(m), final))
      PROVE  PutInv'
  <2>1. CASE net' = Taken(m)  BY Zenon, <1>1, <1>2, <2>1, PutHostStep
  <2>2. CASE \E final \in BOOLEAN : tftp_send(Taken(m), final)
    <3>0. PICK final \in BOOLEAN : tftp_send(Taken(m), final)  BY Zenon, <2>2
    <3>1. PICK p : net' = Taken(m) \cup {p} /\ PutPacket(p)'
      BY Zenon, <1>2, <3>0, PutSend
    <3>2. \A q \in net' : q \in net \/ q = p  BY Zenon, <3>1, TakenKeeps
    <3> QED BY Zenon, <1>1, <1>2, <3>1, <3>2, PutHostStep
  <2> QED BY Zenon, <1>2, <2>1, <2>2
<1>3. tftp_put_final_block_sent \in BOOLEAN /\ tftp_cur_block \in Nat
  BY Zenon DEF TypeInv, TypeOK, FlagType, CountType
<1>4. ASSUME NEW m \in net, Ignore(m) \/ RecvError(m) PROVE PutInv'
  <2>1. /\ Arrives(m) /\ net' = Taken(m)
        /\ UNCHANGED <<connVars, putVars, loadVars, blockVars>>
    BY Zenon, <1>4 DEF Ignore, RecvError
  <2>2. PutHost'  BY Zenon, <1>0, <1>1, <2>1 DEF PutHost
  <2> QED BY Zenon, <1>2, <2>1, <2>2
<1>5. ASSUME NEW m \in net, RecvAck(m) PROVE PutInv'
  <2>1. /\ Arrives(m) /\ UNCHANGED <<connVars, tftp_put_active, loadVars, tftp_prev_block>>
        /\ net' = Taken(m) \/ tftp_send(Taken(m), tftp_put_final_block_sent)
        /\ \/ UNCHANGED blockVars
           \/ /\ tftp_cur_block' = (m.hdr + 1) % SeqSize
              /\ tftp_block_wrap_offset' = update_block_number(tftp_cur_block')
    BY Zenon, <1>5 DEF RecvAck
  <2>2. m.hdr \in 0..(SeqSize - 1)  BY Zenon, <2>1, ArrivesType
  <2>3. (m.hdr + 1) % SeqSize \in 0..SeqSize  BY ONLY TftpAssumption, <2>2
  <2>4. tftp_cur_block' \in 0..SeqSize /\ tftp_block_wrap_offset' = 0
    BY Zenon, <1>0, <2>1, <2>3 DEF PutHost, update_block_number, Wrapped
  <2>5. PutHost'  BY Zenon, <1>0, <1>1, <2>1, <2>4 DEF PutHost
  <2> QED BY Zenon, <1>2, <1>3, <2>1, <2>5
<1>6. ASSUME NEW m \in net, RecvOack(m) PROVE PutInv'
  <2>1. /\ Arrives(m) /\ m.op = "OACK" /\ tftp_cur_block < MaxCur
        /\ tftp_remote_port' = m.tid /\ tftp_block_size' = m.len /\ tftp_state' = "DATA"
        /\ tftp_cur_block' = tftp_cur_block + 1
        /\ UNCHANGED <<tftp_our_port, tftp_prev_block, tftp_block_wrap_offset, loadVars,
                       tftp_put_active>>
        /\ tftp_send(Taken(m), tftp_put_final_block_sent)
    BY Zenon, <1>0, <1>6 DEF RecvOack, PutHost
  <2>2. m.tid \in Tids /\ sess[m.tid].kind = "recv" /\ m.len = sess[m.tid].bs
    BY Zenon, <1>1, <2>1 DEF PutPacket, Offer
  <2>3. tftp_cur_block' \in 0..SeqSize
    BY ONLY TftpAssumption, FewBlocks, <1>3, <2>1 DEF FewBlocks
  <2>4. PutHost'  BY Zenon, <1>0, <1>1, <2>1, <2>2, <2>3 DEF PutHost
  <2> QED BY Zenon, <1>2, <1>3, <2>1, <2>4
<1>7. ASSUME NEW m \in net, RecvWrq(m) PROVE FALSE
  <2>1. Arrives(m) /\ m.op = "WRQ" /\ m.port = tftp_our_port
    BY Zenon, <1>7 DEF RecvWrq, Accepted, PortsOK
  <2> QED BY Zenon, <1>0, <1>1, <2>1 DEF PutPacket, Offer, PutHost
<1>8. ASSUME NEW m \in net, RecvDataNotFirst(m) \/ RecvDataSame(m) \/ RecvData(m)
      PROVE  FALSE
  <2>1. Arrives(m) /\ m.op = "DATA"
    BY Zenon, <1>8 DEF RecvDataNotFirst, RecvDataSame, RecvData
  <2> QED BY Zenon, <1>1, <2>1 DEF PutPacket, Offer
<1>9. CASE RecvIcmp
  <2>1. /\ running /\ UNCHANGED <<protocol, ncmd, sess, net>>
        /\ UNCHANGED <<connVars, putVars, loadVars, blockVars>>
    BY Zenon, <1>9 DEF RecvIcmp, peerVars
  <2>2. PutHost'  BY Zenon, <1>0, <2>1 DEF PutHost
  <2> QED BY Zenon, <2>1, <2>2, PutHostStep
<1> QED BY Zenon, <1>4, <1>5, <1>6, <1>7, <1>8, <1>9 DEF Receive

\* The other protocols never enter the state of a tftpput.
LEMMA NoPutReceive ==
  ASSUME TypeInv, PutInv, Receive, protocol # "TFTPPUT"
  PROVE  PutInv'
<1> USE DEF connVars, putVars
<1>0. tftp_put_active \in BOOLEAN /\ tftp_put_final_block_sent \in BOOLEAN
  BY Zenon DEF TypeInv, TypeOK, FlagType
<1>1. ASSUME running, UNCHANGED <<protocol, ncmd, sess>>, tftp_state' # "SEND_WRQ",
             \A p \in net' : p \in net
      PROVE  PutInv'
  BY Zenon, <1>1, PutHostStep
<1>2. ASSUME NEW m \in net, Arrives(m), UNCHANGED tftp_put_active,
             tftp_state' \in {tftp_state, "OACK", "DATA"},
             net' = Taken(m) \/ (\E final \in BOOLEAN : tftp_send(Taken(m), final))
      PROVE  PutInv'
  <2>0. running /\ Started /\ UNCHANGED <<protocol, ncmd, sess>>
    BY Zenon, <1>2 DEF Arrives, TypeInv
  <2>1. tftp_state' # "SEND_WRQ" /\ Started' /\ tftp_put_active' \in BOOLEAN
    BY Zenon, <1>0, <1>2, <2>0 DEF PutInv, NoPut, Started
  <2>2. CASE net' = Taken(m)  BY Zenon, <1>1, <2>0, <2>1, <2>2, TakenKeeps
  <2>3. CASE \E final \in BOOLEAN : tftp_send(Taken(m), final)
    <3>0. PICK final \in BOOLEAN : tftp_send(Taken(m), final)  BY Zenon, <2>3
    <3>1. PICK p :
            /\ net' = Taken(m) \cup {p}
            /\ tftp_state' = "SEND_RRQ" => p.op = "RRQ"
            /\ tftp_state' \in {"OACK", "RECV_WRQ", "DATA"} => p.op \in {"DATA", "ACK"}
      BY ZenonT(30), <2>1, <3>0, SendPacket
    <3>2. p.op # "WRQ"  BY Zenon, <2>1, <3>1 DEF Started
    <3>3. \A q \in net' : q \in net \/ q = p  BY Zenon, <3>1, TakenKeeps
    <3> QED BY Zenon, <2>0, <2>1, <3>2, <3>3, PutHostStep
  <2> QED BY Zenon, <1>2, <2>2, <2>3
<1>3. ASSUME NEW m \in net, Ignore(m) \/ RecvDataSame(m) \/ RecvError(m) \/ RecvDataNotFirst(m)
      PROVE PutInv'
  <2>1. /\ Arrives(m) /\ net' = Taken(m) /\ UNCHANGED tftp_put_active
        /\ tftp_state' \in {tftp_state, "OACK", "DATA"}
    BY Zenon, <1>3 DEF Ignore, RecvDataSame, RecvError, RecvDataNotFirst
  <2> QED BY Zenon, <1>2, <2>1
<1>4. ASSUME NEW m \in net, RecvAck(m) PROVE PutInv'
  <2>1. /\ Arrives(m) /\ UNCHANGED <<connVars, tftp_put_active>>
        /\ net' = Taken(m) \/ tftp_send(Taken(m), tftp_put_final_block_sent)
    BY Zenon, <1>4 DEF RecvAck
  <2> QED BY Zenon, <1>0, <1>2, <2>1
<1>5. ASSUME NEW m \in net, RecvOack(m) PROVE PutInv'
  <2>1. /\ Arrives(m) /\ UNCHANGED tftp_put_active /\ tftp_state' \in {"OACK", "DATA"}
        /\ tftp_send(Taken(m), tftp_put_final_block_sent)
    BY Zenon, <1>5 DEF RecvOack
  <2> QED BY Zenon, <1>0, <1>2, <2>1
<1>6. ASSUME NEW m \in net, RecvData(m) PROVE PutInv'
  <2>1. /\ Arrives(m) /\ UNCHANGED tftp_put_active /\ tftp_state' \in {tftp_state, "DATA"}
        /\ tftp_send(Taken(m), tftp_put_final_block_sent /\ ~AwaitingFirst)
    BY Zenon, <1>6 DEF RecvData
  <2>2. (tftp_put_final_block_sent /\ ~AwaitingFirst) \in BOOLEAN  BY Zenon
  <2> QED BY Zenon, <1>2, <2>1, <2>2
<1>7. ASSUME NEW m \in net, RecvWrq(m) PROVE PutInv'
  <2>1. Arrives(m) /\ UNCHANGED <<tftp_state, tftp_put_active>> /\ tftp_send(Taken(m), FALSE)
    BY Zenon, <1>7 DEF RecvWrq
  <2>2. FALSE \in BOOLEAN  BY Zenon
  <2> QED BY Zenon, <1>2, <2>1, <2>2
<1>8. CASE RecvIcmp
  BY Zenon, <1>1, <1>8 DEF RecvIcmp, peerVars, PutInv, NoPut
<1> QED BY Zenon, <1>3, <1>4, <1>5, <1>6, <1>7, <1>8 DEF Receive

\* The timers.
LEMMA PutTimer ==
  ASSUME TypeInv, TypeInv', PutInv, Timer
  PROVE  PutInv'
<1> USE DEF connVars, putVars, peerVars, loadVars, blockVars
<1>1. /\ running /\ UNCHANGED <<protocol, ncmd, sess, tftp_put_active>>
      /\ UNCHANGED <<connVars, loadVars, blockVars>>
      /\ net' = net \/ tftp_send(net, tftp_put_final_block_sent)
  BY Zenon DEF Timer, tftp_timeout_handler, start_again_timeout_handler
<1>2. protocol = "TFTPPUT" => PutHost'  BY Zenon, <1>1 DEF PutInv, PutHost
<1>3. protocol # "TFTPPUT" => tftp_state' # "SEND_WRQ"  BY Zenon, <1>1 DEF PutInv, NoPut
<1>4. CASE net' = net  BY Zenon, <1>1, <1>2, <1>3, <1>4, PutHostStep
<1>5. CASE tftp_send(net, tftp_put_final_block_sent) /\ protocol = "TFTPPUT"
  <2>1. PICK p : net' = net \cup {p} /\ PutPacket(p)'  BY Zenon, <1>2, <1>5, PutSend
  <2> QED BY Zenon, <1>1, <1>2, <1>5, <2>1, PutHostStep
<1>6. CASE tftp_send(net, tftp_put_final_block_sent) /\ protocol # "TFTPPUT"
  <2>1. Started' /\ tftp_put_active' \in BOOLEAN
    BY Zenon, <1>1 DEF TypeInv, TypeOK, FlagType, Started
  <2>2. PICK p :
          /\ net' = net \cup {p}
          /\ tftp_state' = "SEND_RRQ" => p.op = "RRQ"
          /\ tftp_state' \in {"OACK", "RECV_WRQ", "DATA"} => p.op \in {"DATA", "ACK"}
    BY ZenonT(30), <1>6, <2>1, SendPacket
  <2>3. p.op # "WRQ"  BY Zenon, <1>3, <1>6, <2>1, <2>2 DEF Started
  <2> QED BY Zenon, <1>1, <1>3, <1>6, <2>2, <2>3, PutHostStep
<1> QED BY Zenon, <1>1, <1>4, <1>5, <1>6

\* Starting a protocol: a tftpput counts its blocks anew.
LEMMA PutStart ==
  ASSUME TypeInv, TypeInv', PutInv, OneCommand, net_loop \/ SwitchRestart \/ SwitchRetry
  PROVE  PutInv'
<1> USE DEF peerVars, putVars
<1>1. protocol \in Commands \cup {"none"} /\ ncmd \in 0..MaxCmds
  BY Zenon DEF TypeInv, TypeOK, LoopType
<1>2. /\ StartProtocol /\ UNCHANGED <<sess, seen, lost>>
      /\ \/ ncmd < MaxCmds /\ ncmd' = ncmd + 1 /\ protocol' \in Commands
         \/ running /\ UNCHANGED <<protocol, ncmd>>
  BY Zenon DEF net_loop, SwitchRestart, SwitchRetry, StartProtocol
<1>3. protocol = "none" \/ protocol' = protocol
  BY ONLY TftpAssumption, OneCommand, PutInv, <1>1, <1>2 DEF OneCommand, PutInv, Quiet
<1>4. protocol' # "none" /\ ncmd' # 0
  <2>1. protocol' # "none"
    BY ONLY Zenon, TftpAssumption, <1>2, PutInv DEF PutInv, Quiet
  <2>2. ncmd' # 0
    BY ONLY TftpAssumption, <1>1, <1>2, PutInv DEF PutInv, Quiet
  <2> QED BY Zenon, <2>1, <2>2
<1>5. CASE protocol' = "TFTPSRV"
  <2>1. tftp_start_server  BY Zenon, <1>2, <1>5 DEF StartProtocol
  <2>2. net' = net /\ tftp_state' = "RECV_WRQ"  BY Zenon, <2>1 DEF tftp_start_server
  <2>3. NoPut  BY Zenon, <1>3, <1>5 DEF PutInv
  <2>4. NoPut'  BY Zenon, <1>2, <2>2, <2>3 DEF NoPut
  <2> QED BY Zenon, <1>4, <1>5, <2>4 DEF PutInv, Quiet
<1>6. CASE protocol' = "TFTPPUT"
  <2>1. tftp_start  BY Zenon, <1>2, <1>6 DEF StartProtocol
  <2>2. /\ tftp_put_active' = (protocol' = "TFTPPUT") /\ tftp_our_port' \in Ports
        /\ tftp_state' = IF tftp_put_active' THEN "SEND_WRQ" ELSE "SEND_RRQ"
        /\ net_boot_file_size' = IF tftp_put_active' THEN FileLen ELSE 0
        /\ tftp_put_active' => tftp_prev_block' = 0 /\ tftp_block_wrap_offset' = 0
        /\ tftp_cur_block' = 0
        /\ tftp_send(net, tftp_put_final_block_sent /\ ~tftp_put_active')
    BY Zenon, <2>1 DEF tftp_start
  <2>3. tftp_our_port' # WellKnown /\ 0 \in 0..SeqSize  BY ONLY <2>2, TftpAssumption
  <2>4. PutHost'  BY Zenon, <1>6, <2>2, <2>3 DEF PutHost
  <2>5. PICK p : net' = net \cup {p} /\ PutPacket(p)'  BY Zenon, <2>2, <2>4, PutSend
  <2>6. ASSUME NEW m \in net PROVE PutPacket(m)
    BY Zenon, <1>3, <1>6 DEF PutInv, Quiet, PutPacket
  <2>7. \A m \in net' : PutPacket(m)'  BY Zenon, <1>2, <2>5, <2>6, PutPacketKept
  <2>8. \A t \in Tids : PutSession(t)
    BY Zenon, <1>3, <1>6 DEF PutInv, Quiet, PutSession
  <2>9. \A t \in Tids : PutSession(t)'  BY Zenon, <1>2, <2>8 DEF PutSession, Offered
  <2> QED BY Zenon, <1>4, <1>6, <2>4, <2>7, <2>9 DEF PutInv, Quiet
<1>7. CASE protocol' = "TFTPGET"
  <2>1. tftp_start  BY Zenon, <1>2, <1>7 DEF StartProtocol
  <2>2. /\ tftp_put_active' = (protocol' = "TFTPPUT")
        /\ tftp_state' = IF tftp_put_active' THEN "SEND_WRQ" ELSE "SEND_RRQ"
        /\ tftp_send(net, tftp_put_final_block_sent /\ ~tftp_put_active')
    BY Zenon, <2>1 DEF tftp_start
  <2>3. tftp_state' = "SEND_RRQ" /\ Started' /\ tftp_put_active' \in BOOLEAN
    BY Zenon, <1>7, <2>2 DEF Started
  <2>4. PICK p : net' = net \cup {p} /\ p.op = "RRQ"
    BY ZenonT(30), <2>2, <2>3, SendPacket
  <2>5. NoPut  BY Zenon, <1>3, <1>7 DEF PutInv
  <2>6. NoPut'  BY Zenon, <1>2, <2>3, <2>4, <2>5 DEF NoPut
  <2> QED BY Zenon, <1>4, <1>7, <2>6 DEF PutInv, Quiet
<1> QED BY Zenon, <1>2, <1>5, <1>6, <1>7 DEF StartProtocol

\* A step of the peers or the network, told by what it sends and opens.
LEMMA PutPeerStep ==
  ASSUME PutInv, UNCHANGED hostVars,
         \A t \in Tids : sess[t].kind = "recv" =>
                           sess'[t].kind = "recv" /\ sess'[t].bs = sess[t].bs,
         \A t \in Tids :
           \/ sess'[t] = sess[t]
           \/ Offered(t)'
           \/ protocol \notin {"none", "TFTPPUT"} /\ sess'[t].kind # "recv"
           \/ protocol = "TFTPPUT" /\ PutSession(t)',
         \A p \in net' :
           \/ p \in net
           \/ Offer(p)
           \/ protocol \notin {"none", "TFTPPUT"} /\ p.to = "host"
           \/ protocol = "TFTPPUT" /\ PutPacket(p)'
  PROVE  PutInv'
<1> USE DEF hostVars, loopVars, handlerVars, loadVars, blockVars, connVars,
            countVars, putVars
<1>1. UNCHANGED <<protocol, ncmd, running, tftp_put_active, tftp_state>>  BY Zenon
<1>2. UNCHANGED <<tftp_our_port, net_boot_file_size, tftp_cur_block, tftp_prev_block,
                  tftp_block_wrap_offset, tftp_remote_port, tftp_block_size>>
  BY Zenon
<1> HIDE DEF hostVars
<1>3. \A t \in Tids : sess'[t] = sess[t] /\ Offered(t) => Offered(t)'  BY Zenon DEF Offered
<1>4. Quiet'
  <2>1. protocol = "none" => (\A m \in net' : Offer(m)) /\ (\A t \in Tids : Offered(t)')
    BY Zenon, <1>3 DEF PutInv, Quiet
  <2> QED BY Zenon, <1>1, <2>1 DEF PutInv, Quiet
<1>5. CASE protocol # "TFTPPUT"
  <2>1. \A t \in Tids : sess'[t].kind # "recv"
    BY Zenon, <1>5 DEF PutInv, NoPut, Offered
  <2>2. \A m \in net' : m.to = "peer" => m.op # "WRQ"
    BY Zenon, <1>5 DEF PutInv, NoPut, Offer
  <2>3. NoPut'  BY Zenon, <1>1, <1>5, <2>1, <2>2 DEF PutInv, NoPut
  <2> QED BY Zenon, <1>1, <1>4, <1>5, <2>3 DEF PutInv
<1>6. CASE protocol = "TFTPPUT"
  <2>1. PutHost'  BY Zenon, <1>1, <1>2, <1>6 DEF PutInv, PutHost
  <2>2. ASSUME NEW t \in Tids, sess'[t] = sess[t] PROVE PutSession(t)'
    <3>1. PutSession(t)  BY Zenon, <1>6 DEF PutInv
    <3> QED BY ONLY Zenon, <2>2, <3>1 DEF PutSession, Offered
  <2>3. \A t \in Tids : PutSession(t)'  BY Zenon, <1>6, <2>2 DEF PutSession
  <2>4. \A m \in net' : Offer(m) => PutPacket(m)'  BY Zenon DEF PutPacket, Offer
  <2>5. \A m \in net' : m \in net => PutPacket(m)'
    BY Zenon, <1>6, PutPacketKept DEF PutInv
  <2>6. \A m \in net' : PutPacket(m)'  BY Zenon, <1>6, <2>4, <2>5
  <2> QED BY Zenon, <1>1, <1>4, <1>6, <2>1, <2>3, <2>6 DEF PutInv
<1> QED BY Zenon, <1>5, <1>6

\* What a server or an offering client repeats is a packet of a tftpput.
LEMMA PutLastPacket ==
  ASSUME NEW t \in Tids, SessType', sess'[t].kind # "none", PutSession(t)',
         NEW p, p = LastPacket(t)'
  PROVE  PutPacket(p)'
<1>1. /\ p.to = "host" /\ p.tid = t /\ p.port = sess'[t].port
      /\ sess'[t].num = 0 => p.op = sess'[t].hello /\ p.len = sess'[t].bs
      /\ sess'[t].num # 0 => p.op = IF sess'[t].kind = "send" THEN "DATA" ELSE "ACK"
  BY ONLY LastPacketIs, t \in Tids, SessType', sess'[t].kind # "none", p = LastPacket(t)'
<1>2. CASE Offered(t)'
  <2>1. Offer(p)  BY Zenon, <1>1, <1>2 DEF Offered, Offer
  <2> QED BY Zenon, <2>1 DEF PutPacket, Offer
<1>3. CASE sess'[t].kind = "recv" /\ sess'[t].hello \in {"OACK", "ACK"}
  BY Zenon, <1>1, <1>3 DEF PutPacket
<1> QED BY Zenon, <1>2, <1>3 DEF PutSession

\* The server of a tftpput appends the block it expects.
LEMMA PutReceiver ==
  ASSUME TypeInv, TypeInv', PutInv, FewBlocks,
         NEW m \in net, NEW t \in Tids, ReceiverData(m, t), protocol = "TFTPPUT"
  PROVE  PutInv'
<1>0. SessType /\ SessType' /\ PutSession(t) /\ PutPacket(m)
  BY Zenon DEF TypeInv, PutInv
<1>1. /\ UNCHANGED hostVars /\ m.to = "peer" /\ m.tid = t /\ m.op = "DATA"
      /\ sess[t].kind = "recv" /\ (\A p \in Taken(m) : p \in net)
  BY Zenon, TakenKeeps DEF ReceiverData, Reaches
<1>2. ASSUME UNCHANGED sess, \A p \in net' : p \in net \/ p = LastPacket(t)
      PROVE  PutInv'
  <2>1. LastPacket(t) = LastPacket(t)'  BY Zenon, <1>2 DEF LastPacket
  <2>2. PutSession(t)' /\ sess'[t].kind # "none"
    BY Zenon, <1>0, <1>1, <1>2 DEF PutSession, Offered
  <2>3. \A p : p = LastPacket(t)' => PutPacket(p)'
    BY Zenon, <1>0, <2>2, PutLastPacket
  <2> QED BY Zenon, <1>1, <1>2, <2>1, <2>3, PutPeerStep
<1>3. CASE /\ m.hdr = (sess[t].num + 1) % SeqSize
           /\ Len(sess[t].data) = sess[t].num * sess[t].bs
           /\ sess' = [sess EXCEPT
                ![t].num = @ + 1,
                ![t].data = @ \o [i \in 1..m.len |-> m.off + i - 1]]
           /\ net' = Taken(m) \cup {LastPacket(t)'}
  <2>1. PICK s : s = [sess[t] EXCEPT !.num = @ + 1,
                        !.data = @ \o [i \in 1..m.len |-> m.off + i - 1]]
    BY Zenon
  <2>2. sess' = [sess EXCEPT ![t] = s]  BY ZenonT(30), <1>0, <1>3, <2>1 DEF SessType
  <2>3. /\ sess'[t] = s /\ \A u \in Tids : u # t => sess'[u] = sess[u]
    BY Zenon, <1>0, <2>2 DEF SessType
  <2>4. PICK num, bs, data : num = sess[t].num /\ bs = sess[t].bs /\ data = sess[t].data
    BY Zenon
  <2>5. num \in Nat /\ bs \in {DefBlk, OptBlk}  BY Zenon, <1>0, <2>4 DEF SessType
  <2>6. /\ s.kind = "recv" /\ s.hello = sess[t].hello /\ s.bs = bs /\ s.num = num + 1
        /\ s.data = data \o [i \in 1..m.len |-> m.off + i - 1]
    <3>1. DOMAIN sess[t] = {"kind", "hello", "port", "num", "bs", "data"}
      BY Zenon, <1>0 DEF SessType
    <3>2. s.kind = sess[t].kind /\ s.hello = sess[t].hello /\ s.bs = sess[t].bs
      BY Zenon, <2>1, <3>1
    <3>3. s.num = sess[t].num + 1  BY Zenon, <2>1, <3>1
    <3>4. s.data = sess[t].data \o [i \in 1..m.len |-> m.off + i - 1]
      BY Zenon, <2>1, <3>1
    <3> QED BY Zenon, <1>1, <2>4, <3>2, <3>3, <3>4
  <2>7. sess[t].hello \in {"OACK", "ACK"} /\ HasBlocks(data, num, bs)
    BY Zenon, <1>0, <1>1, <2>4 DEF PutSession, Offered
  <2>8. PICK c \in 0..SeqSize :
          m.hdr = c % SeqSize /\ m.off = (c - 1) * bs /\ m.len = Loaded(m.off, bs)
    BY Zenon, <1>0, <1>1, <2>4 DEF PutPacket, Offer
  <2>9. c % SeqSize = (num + 1) % SeqSize /\ Len(data) = num * bs
    BY Zenon, <1>3, <2>4, <2>8
  <2>10. HasBlocks(s.data, num + 1, bs)
    <3>1. /\ bs \in {DefBlk, OptBlk} /\ num \in Nat /\ c \in 0..SeqSize
          /\ HasBlocks(data, num, bs) /\ Len(data) = num * bs
          /\ c % SeqSize = (num + 1) % SeqSize
          /\ m.off = (c - 1) * bs /\ m.len = Loaded(m.off, bs)
          /\ s.data = data \o [i \in 1..m.len |-> m.off + i - 1]
      BY Zenon, <2>5, <2>6, <2>7, <2>8, <2>9
    <3> QED BY Zenon, AppendBlock, <3>1
  <2>11. PutSession(t)'  BY Zenon, <2>3, <2>6, <2>7, <2>10 DEF PutSession
  <2>12. \A u \in Tids : sess[u].kind = "recv" =>
                          sess'[u].kind = "recv" /\ sess'[u].bs = sess[u].bs
    BY Zenon, <2>3, <2>4, <2>6
  <2>13. sess'[t].kind # "none"  BY Zenon, <2>3, <2>6
  <2>14. \A p : p = LastPacket(t)' => PutPacket(p)'
    BY Zenon, <1>0, <2>11, <2>13, PutLastPacket
  <2> QED BY Zenon, <1>1, <1>3, <2>3, <2>11, <2>12, <2>14, PutPeerStep
<1>4. CASE net' = Taken(m) \cup {LastPacket(t)} /\ UNCHANGED sess
  BY Zenon, <1>1, <1>2, <1>4
<1>5. CASE net' = Taken(m) /\ UNCHANGED sess  BY Zenon, <1>1, <1>2, <1>5
<1> QED BY Zenon, <1>3, <1>4, <1>5 DEF ReceiverData

\* The steps of the peers and of the network.
LEMMA PutPeers ==
  ASSUME TypeInv, TypeInv', PutInv, FewBlocks, Peer \/ Lose
  PROVE  PutInv'
<1>0. SessType /\ SessType'  BY Zenon DEF TypeInv
<1>1. ASSUME NEW m \in net, m.to = "peer"
      PROVE  /\ protocol # "none"
             /\ protocol = "TFTPPUT" => m.op \in {"WRQ", "DATA"}
             /\ protocol # "TFTPPUT" => m.op # "WRQ"
  BY Zenon, <1>1 DEF PutInv, Quiet, PutPacket, Offer, NoPut
<1>2. ASSUME NEW t \in Tids, sess'[t].kind # "none",
             \/ Offered(t)'
             \/ protocol \notin {"none", "TFTPPUT"}
             \/ protocol = "TFTPPUT" /\ PutSession(t)',
             NEW p, p = LastPacket(t)'
      PROVE  \/ Offer(p)
             \/ protocol \notin {"none", "TFTPPUT"} /\ p.to = "host"
             \/ protocol = "TFTPPUT" /\ PutPacket(p)'
  <2>0. SessType' /\ sess'[t].kind # "none" /\ p = LastPacket(t)'  BY Zenon, <1>0, <1>2
  <2>1. /\ p.to = "host" /\ p.port = sess'[t].port
        /\ sess'[t].num = 0 => p.op = sess'[t].hello
    BY ONLY <2>0, t \in Tids, LastPacketIs
  <2>2. CASE Offered(t)'  BY Zenon, <1>2, <2>1, <2>2 DEF Offer, Offered
  <2>3. CASE PutSession(t)' /\ protocol = "TFTPPUT"  BY Zenon, <2>0, <2>3, PutLastPacket
  <2> QED BY Zenon, <1>2, <2>1, <2>2, <2>3
<1>3. ASSUME UNCHANGED hostVars, UNCHANGED sess, NEW t \in Tids, sess[t].kind # "none",
             \A p \in net' : p \in net \/ p = LastPacket(t)
      PROVE  PutInv'
  <2>1. LastPacket(t) = LastPacket(t)'  BY Zenon, <1>3 DEF LastPacket
  <2>2. protocol = "TFTPPUT" => PutSession(t)'
    BY Zenon, <1>3 DEF PutInv, PutSession, Offered
  <2>3. protocol = "none" => Offered(t)'
    BY Zenon, <1>3 DEF PutInv, Quiet, Offered
  <2>4. \A p \in net' :
          \/ p \in net \/ Offer(p)
          \/ protocol \notin {"none", "TFTPPUT"} /\ p.to = "host"
          \/ protocol = "TFTPPUT" /\ PutPacket(p)'
    BY Zenon, <1>2, <1>3, <2>1, <2>2, <2>3
  <2> QED BY Zenon, <1>3, <2>4, PutPeerStep
<1>4. ASSUME UNCHANGED hostVars, NEW t \in Tids, NEW s, sess' = [sess EXCEPT ![t] = s],
             s.kind # "none", sess[t].kind # "recv",
             \/ Offered(t)'
             \/ protocol \notin {"none", "TFTPPUT"} /\ s.kind # "recv"
             \/ protocol = "TFTPPUT" /\ PutSession(t)',
             \A p \in net' : p \in net \/ p = LastPacket(t)'
      PROVE  PutInv'
  <2>1. sess'[t] = s /\ \A u \in Tids : u # t => sess'[u] = sess[u]
    BY Zenon, <1>0, <1>4 DEF SessType
  <2>2. \A p \in net' :
          \/ p \in net \/ Offer(p)
          \/ protocol \notin {"none", "TFTPPUT"} /\ p.to = "host"
          \/ protocol = "TFTPPUT" /\ PutPacket(p)'
    BY Zenon, <1>2, <1>4, <2>1
  <2> QED BY Zenon, <1>4, <2>1, <2>2, PutPeerStep
<1>5. ASSUME NEW m \in net, ServerRequest(m) PROVE PutInv'
  <2>0. UNCHANGED hostVars /\ m.to = "peer" /\ m.op \in {"RRQ", "WRQ"}
    BY Zenon, <1>5 DEF ServerRequest
  <2>1. /\ protocol # "none" /\ (protocol = "TFTPPUT" => m.op = "WRQ")
        /\ protocol # "TFTPPUT" => m.op = "RRQ"
    BY Zenon, <1>1, <2>0
  <2>2. CASE \E t \in Tids, opt \in ServerOpts :
          /\ sess[t].kind = "none"
          /\ sess' = [sess EXCEPT ![t] =
               [kind  |-> IF m.op = "RRQ" THEN "send" ELSE "recv",
                hello |-> IF opt THEN "OACK" ELSE "ACK",
                port  |-> m.port,
                num   |-> IF m.op = "RRQ" /\ ~opt THEN 1 ELSE 0,
                bs    |-> IF opt THEN OptBlk ELSE DefBlk,
                data  |-> <<>>]]
          /\ net' = Taken(m) \cup {LastPacket(t)'}
    <3>0. PICK t \in Tids, opt \in ServerOpts :
            /\ sess[t].kind = "none"
            /\ sess' = [sess EXCEPT ![t] =
                 [kind  |-> IF m.op = "RRQ" THEN "send" ELSE "recv",
                  hello |-> IF opt THEN "OACK" ELSE "ACK",
                  port  |-> m.port,
                  num   |-> IF m.op = "RRQ" /\ ~opt THEN 1 ELSE 0,
                  bs    |-> IF opt THEN OptBlk ELSE DefBlk,
                  data  |-> <<>>]]
            /\ net' = Taken(m) \cup {LastPacket(t)'}
      BY Zenon, <2>2
    <3>1. PICK s :
            /\ s = [kind  |-> IF m.op = "RRQ" THEN "send" ELSE "recv",
                    hello |-> IF opt THEN "OACK" ELSE "ACK",
                    port  |-> m.port,
                    num   |-> IF m.op = "RRQ" /\ ~opt THEN 1 ELSE 0,
                    bs    |-> IF opt THEN OptBlk ELSE DefBlk,
                    data  |-> <<>>]
            /\ sess' = [sess EXCEPT ![t] = s]
      BY ZenonT(30), <3>0
    <3>2. /\ s.kind = IF m.op = "RRQ" THEN "send" ELSE "recv"
          /\ s.hello \in {"OACK", "ACK"} /\ s.data = <<>> /\ s.bs \in {DefBlk, OptBlk}
          /\ m.op = "WRQ" => s.num = 0
      BY Zenon, <3>1
    <3>3. sess'[t] = s  BY Zenon, <1>0, <3>1 DEF SessType
    <3>4. HasBlocks(<<>>, 0, s.bs)
      <4>1. s.bs \in Nat /\ FileLen \in Nat  BY ONLY Zenon, TftpAssumption, <3>2
      <4>2. 0 * s.bs = 0  BY ONLY <4>1
      <4> QED BY ONLY <4>1, <4>2 DEF HasBlocks
    <3>5. protocol = "TFTPPUT" => PutSession(t)'
      BY Zenon, <2>1, <3>2, <3>3, <3>4 DEF PutSession
    <3>6. s.kind # "none" /\ (protocol # "TFTPPUT" => s.kind # "recv")
      BY Zenon, <2>0, <2>1, <3>2
    <3>7. /\ sess' = [sess EXCEPT ![t] = s] /\ sess[t].kind # "recv"
          /\ \A p \in net' : p \in net \/ p = LastPacket(t)'
      BY Zenon, <3>0, <3>1, TakenKeeps
    <3> QED BY Zenon, <1>4, <2>0, <2>1, <3>5, <3>6, <3>7
  <2>3. CASE \E t \in Tids, err \in {"notfound", "error"} \cap Faults :
          /\ net' = Taken(m) \cup
               {Packet("host", IF err = "error" THEN "ERR_OTHER"
                                                ELSE "ERR_FILE_NOT_FOUND",
                       t, m.port, 0, 0, 0, 0)}
          /\ UNCHANGED sess
    <3>1. PICK p : \E t : \E op \in {"ERR_OTHER", "ERR_FILE_NOT_FOUND"} :
            /\ net' = Taken(m) \cup {p} /\ UNCHANGED sess
            /\ p = Packet("host", op, t, m.port, 0, 0, 0, 0)
      BY Zenon, <2>3
    <3>2. p.to = "host" /\ p.op \in {"ERR_OTHER", "ERR_FILE_NOT_FOUND"}
      BY ONLY <3>1 DEF Packet
    <3>3. PutPacket(p)'  BY Zenon, <3>2 DEF PutPacket
    <3>4. \A q \in net' : q \in net \/ q = p  BY Zenon, <3>1, TakenKeeps
    <3>5. \A q \in net' :
            \/ q \in net
            \/ Offer(q)
            \/ protocol \notin {"none", "TFTPPUT"} /\ q.to = "host"
            \/ protocol = "TFTPPUT" /\ PutPacket(q)'
      BY Zenon, <2>1, <3>2, <3>3, <3>4
    <3>6. UNCHANGED hostVars /\ \A t \in Tids : sess'[t] = sess[t]
      BY Zenon, <2>0, <3>1
    <3>7. \A t \in Tids : sess[t].kind = "recv" =>
                            sess'[t].kind = "recv" /\ sess'[t].bs = sess[t].bs
      BY Zenon, <3>6
    <3> QED BY Zenon, <3>5, <3>6, <3>7, PutPeerStep
  <2>4. CASE \E t \in Tids : /\ sess[t].kind # "none" /\ UNCHANGED sess
                             /\ net' = Taken(m) \cup {LastPacket(t)}
    BY Zenon, <1>3, <2>0, <2>4, TakenKeeps
  <2> QED BY ZenonT(30), <1>5, <2>2, <2>3, <2>4 DEF ServerRequest
<1>6. ASSUME NEW m \in net, NEW t \in Tids, SenderAck(m, t) PROVE PutInv'
  <2>0. /\ UNCHANGED hostVars /\ m.to = "peer" /\ m.op = "ACK" /\ sess[t].kind = "send"
    BY Zenon, <1>6 DEF SenderAck, Reaches
  <2>1. protocol \notin {"none", "TFTPPUT"}  BY Zenon, <1>1, <2>0
  <2>2. CASE /\ sess' = [sess EXCEPT ![t].num = @ + 1, ![t].port = m.port]
             /\ net' = Taken(m) \cup {LastPacket(t)'}
    <3>1. PICK s : s = [sess[t] EXCEPT !.num = @ + 1, !.port = m.port]  BY Zenon
    <3>2. sess' = [sess EXCEPT ![t] = s]  BY Zenon, <1>0, <2>2, <3>1 DEF SessType
    <3>3. s.kind = "send"  BY Zenon, <1>0, <2>0, <3>1 DEF SessType
    <3> QED BY Zenon, <1>4, <2>0, <2>1, <2>2, <3>2, <3>3, TakenKeeps
  <2>3. CASE net' = Taken(m) \cup {LastPacket(t)} /\ UNCHANGED sess
    BY Zenon, <1>3, <2>0, <2>3, TakenKeeps
  <2> QED BY Zenon, <1>6, <2>2, <2>3 DEF SenderAck
<1>7. ASSUME NEW m \in net, NEW t \in Tids, ReceiverData(m, t) PROVE PutInv'
  <2>1. m.to = "peer" /\ m.op = "DATA" /\ sess[t].kind = "recv"
    BY Zenon, <1>7 DEF ReceiverData, Reaches
  <2>2. protocol = "TFTPPUT"  BY Zenon, <2>1 DEF PutInv, NoPut
  <2> QED BY Zenon, <1>7, <2>2, PutReceiver
<1>8. CASE RemoteWrq
  <2>0. PICK t \in Tids :
          /\ sess[t].kind = "none"
          /\ sess' = [sess EXCEPT ![t] =
               [kind |-> "send", hello |-> "WRQ", port |-> WellKnown,
                num |-> 0, bs |-> DefBlk, data |-> <<>>]]
          /\ net' = net \cup {LastPacket(t)'}
    BY Zenon, <1>8 DEF RemoteWrq
  <2>1. PICK s :
          /\ s = [kind |-> "send", hello |-> "WRQ", port |-> WellKnown,
                  num |-> 0, bs |-> DefBlk, data |-> <<>>]
          /\ sess' = [sess EXCEPT ![t] = s]
    BY ZenonT(30), <2>0
  <2>2. sess'[t] = s  BY Zenon, <1>0, <2>1 DEF SessType
  <2>3. s.kind = "send" /\ s.hello = "WRQ" /\ s.num = 0 /\ s.port = WellKnown
    BY Zenon, <2>1
  <2>4. Offered(t)'  BY Zenon, <2>2, <2>3 DEF Offered
  <2>5. sess' = [sess EXCEPT ![t] = s]  BY Zenon, <2>1
  <2>6. UNCHANGED hostVars  BY Zenon, <1>8 DEF RemoteWrq
  <2> QED BY Zenon, <1>4, <2>0, <2>3, <2>4, <2>5, <2>6
<1>9. CASE PeerTimeout
  BY Zenon, <1>3, <1>9 DEF PeerTimeout, peerVars
<1>10. CASE Lose
  <2>1. UNCHANGED <<hostVars, sess>> /\ \A p \in net' : p \in net  BY Zenon, <1>10 DEF Lose
  <2> QED BY Zenon, <2>1, PutPeerStep
<1> QED BY Zenon, <1>5, <1>6, <1>7, <1>8, <1>9, <1>10 DEF Peer

\* Every step keeps PutInv.
LEMMA PutNext ==
  ASSUME OneCommand, FewBlocks, TypeInv, TypeInv', PutInv, [Next]_vars
  PROVE  PutInv'
<1>1. CASE SwitchSuccess \/ SwitchFail \/ CtrlC
  <2> USE DEF connVars, putVars, peerVars, loadVars, blockVars
  <2>1. running /\ UNCHANGED <<protocol, ncmd, connVars, putVars, loadVars, blockVars,
                               net, peerVars>>
    BY Zenon, <1>1 DEF SwitchSuccess, SwitchFail, Leave, CtrlC
  <2>2. protocol = "TFTPPUT" => PutHost'  BY Zenon, <2>1 DEF PutInv, PutHost
  <2> QED BY Zenon, <2>1, <2>2, PutHostStep DEF PutInv, NoPut
<1>2. CASE UNCHANGED vars
  BY Zenon, <1>2, PutPeerStep DEF vars, hostVars, peerVars
<1>3. CASE Receive  BY Zenon, <1>3, PutReceive, NoPutReceive
<1> QED BY Zenon, <1>1, <1>2, <1>3, PutTimer, PutStart, PutPeers DEF Next, Switch

\* PutInv tells that a server has a prefix.
LEMMA PutInvPrefix == TypeInv /\ PutInv => PutPrefix
<1> SUFFICES ASSUME TypeInv, PutInv, NEW t \in Tids, sess[t].kind = "recv"
             PROVE  /\ Len(sess[t].data) <= FileLen
                    /\ \A i \in 1..Len(sess[t].data) : sess[t].data[i] = i - 1
  BY Zenon DEF PutPrefix
<1>1. PICK num, bs, data : num = sess[t].num /\ bs = sess[t].bs /\ data = sess[t].data
  BY Zenon
<1>2. HasBlocks(data, num, bs)
  BY Zenon, <1>1 DEF PutInv, NoPut, PutSession, Offered
<1>3. num \in Nat /\ bs \in {DefBlk, OptBlk}  BY Zenon, <1>1 DEF TypeInv, SessType
<1>4. num * bs \in Int /\ FileLen \in Int  BY ONLY TftpAssumption, <1>3
<1>5. Len(data) <= FileLen  BY ONLY <1>2, <1>4 DEF HasBlocks
<1> QED BY Zenon, <1>1, <1>2, <1>5 DEF HasBlocks

\* What a server has stored of a tftpput is a prefix of the file, over a
\* network that loses, duplicates and reorders at will: load_block sends what
\* the block number says in the block size of the session it goes to.
THEOREM PutPrefixHolds ==
  ASSUME OneCommand, FewBlocks
  PROVE  Spec => []PutPrefix
<1>1. Init => TypeInv /\ PutInv  BY Zenon, InitType, InitPut
<1>2. TypeInv /\ PutInv /\ [Next]_vars => TypeInv' /\ PutInv'  BY Zenon, NextType, PutNext
<1>3. TypeInv /\ PutInv => PutPrefix  BY Zenon, PutInvPrefix
<1> QED BY <1>1, <1>2, <1>3, PTL DEF Spec
=============================================================================
