----------------------------- MODULE TftpProofs -----------------------------
(***************************************************************************)
(* Proofs about tftpboot: over a network that loses and duplicates packets *)
(* but keeps the order of one session, a reported success means that the   *)
(* file is in memory, however often the 16 bit block counter wraps.        *)
(*                                                                         *)
(* First the arithmetic of the block counter; then that GetInv holds       *)
(* initially, and that the steps of the TFTP servers and of the network    *)
(* preserve it; then that those of tftp.c and of net_loop do, the arrival  *)
(* of a new block last.                                                    *)
(***************************************************************************)
EXTENDS TftpGetInv, TLAPS

(* Arithmetic of the block counter.                                        *)

\* Quotient and remainder.
LEMMA ModDiv ==
  ASSUME NEW n \in Nat, NEW S \in Nat, S > 1
  PROVE  /\ n = S * (n \div S) + (n % S)
         /\ n \div S \in Nat /\ n % S \in 0..(S - 1)
  OBVIOUS

\* Multiplication by a natural number is monotone.
LEMMA MulMono ==
  ASSUME NEW S \in Nat, NEW a \in Int, NEW b \in Int, a <= b
  PROVE  S * a <= S * b
  OBVIOUS

\* The remainder is unique.
LEMMA ModUnique ==
  ASSUME NEW S \in Nat, S > 1,
         NEW q1 \in Int, NEW r1 \in 0..(S - 1),
         NEW q2 \in Int, NEW r2 \in 0..(S - 1),
         S * q1 + r1 = S * q2 + r2
  PROVE  r1 = r2 /\ q1 = q2
<1>1. CASE q1 + 1 <= q2
  <2>1. S * (q1 + 1) <= S * q2  BY <1>1, MulMono
  <2>2. S * (q1 + 1) = S * q1 + S  OBVIOUS
  <2> QED BY <2>1, <2>2
<1>2. CASE q2 + 1 <= q1
  <2>1. S * (q2 + 1) <= S * q1  BY <1>2, MulMono
  <2>2. S * (q2 + 1) = S * q2 + S  OBVIOUS
  <2> QED BY <2>1, <2>2
<1>3. CASE q1 = q2  BY <1>3
<1> QED BY <1>1, <1>2, <1>3

\* A number written with a remainder in range has that remainder.
LEMMA ModIs ==
  ASSUME NEW S \in Nat, S > 1, NEW n \in Nat, NEW q \in Int,
         NEW r \in 0..(S - 1), n = S * q + r
  PROVE  n % S = r
<1> DEFINE q1 == n \div S
           r1 == n % S
<1>1. n = S * q1 + r1 /\ q1 \in Int /\ r1 \in 0..(S - 1)  BY ModDiv
<1> HIDE DEF q1, r1
<1>2. r1 = r  BY Zenon, <1>1, ModUnique
<1> QED BY Zenon, <1>2 DEF r1

\* Counting up: the remainder goes up by one, or wraps to 0.
LEMMA ModSucc ==
  ASSUME NEW n \in Nat, NEW S \in Nat, S > 1
  PROVE  (n + 1) % S = IF n % S = S - 1 THEN 0 ELSE (n % S) + 1
<1> DEFINE q == n \div S
           r == n % S
           n1 == n + 1
           r1 == r + 1
<1>0. n = S * q + r /\ q \in Nat /\ r \in 0..(S - 1)  BY Zenon, ModDiv
<1>1. ASSUME r = S - 1 PROVE n1 % S = 0
  <2>1. n1 = S * (q + 1) + 0 /\ n1 \in Nat /\ q + 1 \in Int /\ 0 \in 0..(S - 1)
    BY <1>0, <1>1
  <2> HIDE DEF n1, q, r
  <2> QED BY Zenon, <2>1, ModIs
<1>2. ASSUME r # S - 1 PROVE n1 % S = r1
  <2>1. n1 = S * q + r1 /\ n1 \in Nat /\ q \in Int /\ r1 \in 0..(S - 1)
    BY <1>0, <1>2
  <2> HIDE DEF n1, r1, q
  <2> QED BY Zenon, <2>1, ModIs
<1> QED BY Zenon, <1>1, <1>2

\* A remainder in range is its own remainder.
LEMMA ModSmall ==
  ASSUME NEW S \in Nat, S > 1, NEW r \in 0..(S - 1)
  PROVE  r % S = r
  OBVIOUS

\* A remainder is its own remainder.
LEMMA ModMod ==
  ASSUME NEW n \in Nat, NEW S \in Nat, S > 1
  PROVE  (n % S) % S = n % S
BY Zenon, ModDiv, ModSmall

\* The counter has more than one value.
LEMMA CounterSize == SeqSize \in Nat /\ SeqSize > 1
BY TftpAssumption

\* Facts of order for the leaves that need little arithmetic.
LEMMA NatOrder ==
  ASSUME NEW n \in Nat
  PROVE  n <= n /\ \A k \in Nat : (k <= n => k <= n + 1) /\ n * k \in Int
  OBVIOUS

\* Two consecutive numbers have different remainders.
LEMMA ModNext ==
  ASSUME NEW n \in Nat, NEW S \in Nat, S > 1
  PROVE  (n + 1) % S # n % S
<1> DEFINE r == n % S
           r1 == (n + 1) % S
<1>1. r1 = IF r = S - 1 THEN 0 ELSE r + 1  BY Zenon, ModSucc
<1>2. r \in 0..(S - 1)  BY Zenon, ModDiv
<1> HIDE DEF r, r1
<1>3. r1 # r  BY <1>1, <1>2
<1> QED BY Zenon, <1>3 DEF r, r1
-----------------------------------------------------------------------------
\* The hypotheses of the theorems: tftpboot only, packets of one session
\* arrive in order, and no two transfers share a port.
InOrder == Commands = {"TFTPGET"} /\ Reorder = 0 /\ FreshPorts

\* The initial states satisfy the invariant.
LEMMA InitInv == ASSUME InOrder PROVE Init => GetInv
<1> SUFFICES ASSUME Init PROVE GetInv  BY Zenon
<1> USE TftpAssumption
<1>1. ShapeInv  BY Zenon DEF Init, ShapeInv, Session, NoSession, WellKnown
<1>2. \A t \in Tids : SessInv(t)  BY DEF Init, SessInv, NoSession
<1>3. \A m \in net : PacketInv(m)  BY Zenon DEF Init
<1>4. StateInv  BY Zenon DEF Init, StateInv
<1>5. MemInv /\ DoneInv  BY Zenon DEF Init, MemInv, DoneInv
<1> QED BY Zenon, <1>1, <1>2, <1>3, <1>4, <1>5 DEF GetInv
-----------------------------------------------------------------------------
\* Sessions only move forward, and more of their packets reach us.
Advance ==
  \A t \in Tids :
    /\ seen[t] <= seen'[t]
    /\ sess[t].kind = "send" =>
         /\ sess'[t].kind = "send" /\ sess'[t].port = sess[t].port
         /\ sess'[t].bs = sess[t].bs /\ sess[t].num <= sess'[t].num

\* Sessions that stay as they are have not moved backward.
LEMMA SessionsStay ==
  ASSUME ShapeInv, \A t \in Tids : SessInv(t),
         UNCHANGED <<sess, seen, cur_num, net_boot_file_size>>
  PROVE  ShapeInv' /\ (\A t \in Tids : SessInv(t)') /\ Advance
<1>1. ShapeInv'  BY Zenon DEF ShapeInv
<1>2. \A t \in Tids : SessInv(t)'  BY Zenon DEF SessInv
<1>3. \A t \in Tids : seen[t] \in Nat /\ sess[t].num \in Nat  BY Zenon DEF ShapeInv, Session
<1>4. \A n \in Nat : n <= n  BY Zenon, NatOrder
<1> QED BY Zenon, <1>1, <1>2, <1>3, <1>4 DEF Advance

\* A packet in flight still agrees with its session when sessions advance.
LEMMA PacketStable ==
  ASSUME ShapeInv, ShapeInv', Advance, NEW m, PacketInv(m)
  PROVE  PacketInv(m)'
<1> USE DEF PacketInv
<1>0. \A a \in Nat, b \in Nat, c \in Nat : a <= b /\ b <= c => a <= c  OBVIOUS
<1>n. m.num \in Nat /\ \A t \in Tids : /\ sess[t].num \in Nat /\ sess'[t].num \in Nat
                                       /\ seen[t] \in Nat /\ seen'[t] \in Nat
  BY Zenon DEF ShapeInv, Session
<1>1. CASE m.to = "host" /\ HostPacketInv(m)
  <2>1. m.tid \in Tids  BY Zenon, <1>1 DEF HostPacketInv
  <2>2. CASE m.op \in {"ERR_FILE_NOT_FOUND", "ERR_OTHER"} /\ m.num = 0
    BY Zenon, <1>1, <1>n, <2>1, <2>2 DEF HostPacketInv
  <2>3. CASE sess[m.tid].kind = "send" /\ m.num <= sess[m.tid].num
    <3>1. /\ sess'[m.tid].kind = "send" /\ sess'[m.tid].port = sess[m.tid].port
          /\ sess'[m.tid].bs = sess[m.tid].bs
          /\ sess[m.tid].num <= sess'[m.tid].num
      BY Zenon, <2>1, <2>3 DEF Advance
    <3>2. m.num <= sess'[m.tid].num
      BY Zenon, <1>0, <1>n, <2>1, <2>3, <3>1
    <3> QED BY Zenon, <1>1, <1>n, <2>1, <2>3, <3>1, <3>2 DEF HostPacketInv
  <2> QED BY Zenon, <1>1, <2>2, <2>3 DEF HostPacketInv
<1>2. CASE m.to = "peer" /\ PeerPacketInv(m)
  <2>1. CASE m.op = "RRQ" /\ m.port \in Ports
    BY Zenon, <1>2, <1>n, <2>1 DEF PeerPacketInv
  <2>2. CASE /\ m.op = "ACK" /\ m.tid \in Tids
             /\ sess[m.tid].kind = "send" /\ m.port = sess[m.tid].port
             /\ m.num <= seen[m.tid] /\ m.hdr = m.num % SeqSize
    <3>1. /\ sess'[m.tid].kind = "send" /\ sess'[m.tid].port = sess[m.tid].port
          /\ seen[m.tid] <= seen'[m.tid]
      BY Zenon, <2>2 DEF Advance
    <3>2. m.num <= seen'[m.tid]  BY Zenon, <1>0, <1>n, <2>2, <3>1
    <3> QED BY Zenon, <1>2, <1>n, <2>2, <3>1, <3>2 DEF PeerPacketInv
  <2> QED BY Zenon, <1>2, <2>1, <2>2 DEF PeerPacketInv
<1> QED BY Zenon, <1>1, <1>2

\* What tftp_send puts on the wire while getting a file.
LEMMA GetSend ==
  ASSUME NEW STATE inFlight, NEW STATE final, ~tftp_put_active',
         tftp_state' \in {"SEND_RRQ", "OACK", "DATA"},
         tftp_send(inFlight, final)
  PROVE  net' = inFlight \cup
           {IF tftp_state' = "SEND_RRQ"
            THEN Packet("peer", "RRQ", tftp_remote_port', tftp_our_port',
                        0, 0, 0, 0)
            ELSE Packet("peer", "ACK", tftp_remote_port', tftp_our_port',
                        cur_num', tftp_cur_block' % SeqSize, 0, 0)}
<1>1. CASE tftp_state' = "SEND_RRQ"  BY Zenon, <1>1 DEF tftp_send
<1>2. CASE tftp_state' \in {"OACK", "DATA"}  BY Zenon, <1>2 DEF tftp_send
<1> QED BY Zenon, <1>1, <1>2

\* The last packet of a session agrees with the session.
LEMMA LastPacketInv ==
  ASSUME ShapeInv', NEW t \in Tids, SessInv(t)', (sess[t].kind = "send")',
         NEW p, p = LastPacket(t)'
  PROVE  PacketInv(p)' /\ p.to = "host" /\ p.op # "ACK"
<1> USE TftpAssumption
<1>1. sess'[t] \in Session /\ sess'[t].num \in Nat /\ seen'[t] \in Nat
  BY Zenon DEF ShapeInv, Session
<1>2. CASE sess'[t].num = 0
  <2>1. p = Packet("host", "OACK", t, sess'[t].port, 0, 0, 0, sess'[t].bs)
    BY <1>2 DEF LastPacket, SessInv
  <2> QED BY <1>1, <1>2, <2>1 DEF PacketInv, HostPacketInv, Packet
<1>3. CASE sess'[t].num > 0
  <2>1. p = Packet("host", "DATA", t, sess'[t].port, sess'[t].num,
                   sess'[t].num % SeqSize, (sess'[t].num - 1) * sess'[t].bs,
                   BlockLen(sess'[t].num, sess'[t].bs))
    BY <1>1, <1>3 DEF LastPacket
  <2> QED BY <1>1, <1>3, <2>1 DEF PacketInv, HostPacketInv, Packet
<1> QED BY <1>1, <1>2, <1>3

\* A step of the peers or of the network alone keeps the invariant if it
\* keeps the sessions in step with us.
LEMMA PeerStep ==
  ASSUME InOrder, GetInv, UNCHANGED hostVars, UNCHANGED seen,
         ShapeInv', \A t \in Tids : SessInv(t)', Advance,
         \A t \in Tids : sess'[t] # sess[t] /\ sess'[t].port = tftp_our_port
                         /\ tftp_state = "SEND_RRQ"
           => seen[t] = 0 /\ (sess'[t].num > 0 => sess'[t].bs = DefBlk),
         \A p \in net' : p \in net
                         \/ (PacketInv(p)' /\ p.op # "ACK")
  PROVE  GetInv'
<1> USE TftpAssumption
<1>1. (\A m \in net : PacketInv(m))'
  <2> SUFFICES ASSUME NEW m \in net' PROVE PacketInv(m)'  BY Zenon
  <2>1. CASE m \in net
    <3>1. PacketInv(m) /\ ShapeInv  BY Zenon, <2>1 DEF GetInv
    <3> QED BY Zenon, <3>1, PacketStable
  <2> QED BY Zenon, <2>1
<1>2. \A m \in net' : m.op = "ACK" => m \in net  BY Zenon
<1> USE DEF hostVars, loopVars, handlerVars, loadVars, blockVars, connVars,
            countVars, putVars
<1>3. StateInv'
  <2>1. StateInv  BY Zenon DEF GetInv
  <2>2. tftp_state = "SEND_RRQ" => RequestInv'
    BY Zenon, <2>1, <1>2 DEF StateInv, RequestInv
  <2>3. tftp_state \in {"OACK", "DATA"} => LockedInv'
    BY Zenon, <2>1, <1>2 DEF StateInv, LockedInv, Advance
  <2>4. tftp_state = "DATA" => DataInv'
    BY Zenon, <2>1 DEF StateInv, DataInv, Stored, InMem
  <2> QED BY Zenon, <2>1, <2>2, <2>3, <2>4 DEF StateInv
<1>4. MemInv' /\ DoneInv'  BY Zenon DEF GetInv, MemInv, DoneInv, Stored, InMem
<1> QED BY Zenon, <1>1, <1>3, <1>4 DEF GetInv

\* A server opens a session, reports an error or repeats itself.
LEMMA ServerRequestInv ==
  ASSUME InOrder, GetInv, NEW m \in net, ServerRequest(m)
  PROVE  GetInv'
<1> USE TftpAssumption
<1>1. /\ UNCHANGED hostVars /\ UNCHANGED seen
      /\ ShapeInv /\ PacketInv(m) /\ \A t \in Tids : SessInv(t)
  BY Zenon DEF ServerRequest, GetInv
<1>2. m.op = "RRQ" /\ m.port \in Ports /\ m.port \in Nat
  BY Zenon, <1>1 DEF ServerRequest, PacketInv, PeerPacketInv, HostPacketInv
<1>3. \A p : p \in Taken(m) => p \in net  BY Zenon DEF Taken
<1>4. CASE \E t \in Tids, opt \in ServerOpts :
             /\ sess[t].kind = "none"
             /\ sess' = [sess EXCEPT ![t] =
                  [kind |-> "send", hello |-> IF opt THEN "OACK" ELSE "ACK",
                   port |-> m.port, num |-> IF opt THEN 0 ELSE 1,
                   bs |-> IF opt THEN OptBlk ELSE DefBlk, data |-> <<>>]]
             /\ net' = Taken(m) \cup {LastPacket(t)'}
  <2>1. PICK t \in Tids, opt \in ServerOpts :
             /\ sess[t].kind = "none"
             /\ sess' = [sess EXCEPT ![t] =
                  [kind |-> "send", hello |-> IF opt THEN "OACK" ELSE "ACK",
                   port |-> m.port, num |-> IF opt THEN 0 ELSE 1,
                   bs |-> IF opt THEN OptBlk ELSE DefBlk, data |-> <<>>]]
             /\ net' = Taken(m) \cup {LastPacket(t)'}
    BY Zenon, <1>4
  <2>2. ShapeInv'
    BY Zenon, <1>1, <1>2, <2>1
       DEF ShapeInv, Session, hostVars, blockVars, loadVars
  <2>3. seen[t] = 0
    BY <1>1, <2>1 DEF SessInv, ShapeInv
  <2>4. \A u \in Tids : SessInv(u)'
    <3> SUFFICES ASSUME NEW u \in Tids PROVE SessInv(u)'  BY Zenon
    <3>1. CASE u # t  BY Zenon, <1>1, <2>1, <3>1 DEF SessInv, ShapeInv
    <3>2. CASE u = t
      <4>1. sess'[t] = [kind |-> "send", hello |-> IF opt THEN "OACK" ELSE "ACK",
                   port |-> m.port, num |-> IF opt THEN 0 ELSE 1,
                   bs |-> IF opt THEN OptBlk ELSE DefBlk, data |-> <<>>]
        BY Zenon, <1>1, <2>1 DEF ShapeInv
      <4>2. (sess'[t].num - 1) * sess'[t].bs <= FileLen
        <5>1. CASE opt  BY <4>1, <5>1
        <5>2. CASE ~opt  BY <4>1, <5>2
        <5> QED BY Zenon, <5>1, <5>2
      <4> QED BY ONLY <1>1, <1>2, <2>3, <3>2, <4>1, <4>2 DEF SessInv
    <3> QED BY Zenon, <3>1, <3>2
  <2>5. Advance
    <3> SUFFICES ASSUME NEW u \in Tids
                 PROVE  /\ seen[u] <= seen'[u]
                        /\ sess[u].kind = "send" =>
                             sess'[u] = sess[u] /\ sess[u].num \in Nat
      BY DEF Advance
    <3>1. seen[u] <= seen'[u]  BY <1>1 DEF ShapeInv
    <3>2. u = t => sess[u].kind # "send"  BY Zenon, <2>1
    <3>3. u # t => sess'[u] = sess[u]  BY Zenon, <1>1, <2>1 DEF ShapeInv
    <3> QED BY Zenon, <1>1, <3>1, <3>2, <3>3 DEF ShapeInv, Session
  <2> PICK p : p = LastPacket(t)'  BY Zenon
  <2>6. PacketInv(p)' /\ p.op # "ACK"
    <3>1. (sess[t].kind = "send")'  BY Zenon, <1>1, <2>1 DEF ShapeInv
    <3> QED BY Zenon, <2>2, <2>4, <3>1, LastPacketInv
  <2>7. \A u \in Tids : sess'[u] # sess[u] =>
          seen[u] = 0 /\ (sess'[u].num > 0 => sess'[u].bs = DefBlk)
    BY <1>1, <2>1, <2>3 DEF ShapeInv
  <2> QED BY <1>1, <1>3, <2>1, <2>2, <2>4, <2>5, <2>6, <2>7, PeerStep
<1>5. CASE \E t \in Tids, op \in {"ERR_OTHER", "ERR_FILE_NOT_FOUND"} :
             /\ net' = Taken(m) \cup {Packet("host", op, t, m.port, 0, 0, 0, 0)}
             /\ UNCHANGED sess
  <2>1. PICK t \in Tids, op \in {"ERR_OTHER", "ERR_FILE_NOT_FOUND"} :
             /\ net' = Taken(m) \cup {Packet("host", op, t, m.port, 0, 0, 0, 0)}
             /\ UNCHANGED sess
    BY Zenon, <1>5
  <2> DEFINE p == Packet("host", op, t, m.port, 0, 0, 0, 0)
  <2>2. PacketInv(p)' /\ p.op # "ACK"
    BY Zenon, <2>1 DEF PacketInv, HostPacketInv, Packet
  <2>3. ShapeInv' /\ (\A u \in Tids : SessInv(u)') /\ Advance
    BY Zenon, <1>1, <2>1, SessionsStay DEF GetInv, hostVars, blockVars, loadVars
  <2>4. net' = Taken(m) \cup {p}  BY Zenon, <2>1
  <2> HIDE DEF p
  <2> QED BY Zenon, <1>1, <1>3, <2>1, <2>2, <2>3, <2>4, PeerStep
<1>6. CASE \E t \in Tids :
             /\ sess[t].kind # "none"
             /\ net' = Taken(m) \cup {LastPacket(t)}
             /\ UNCHANGED sess
  <2>1. PICK t \in Tids : /\ sess[t].kind # "none"
                          /\ net' = Taken(m) \cup {LastPacket(t)}
                          /\ UNCHANGED sess
    BY Zenon, <1>6
  <2>2. ShapeInv' /\ (\A u \in Tids : SessInv(u)') /\ Advance
    BY Zenon, <1>1, <2>1, SessionsStay DEF GetInv, hostVars, blockVars, loadVars
  <2>3. LastPacket(t)' = LastPacket(t)  BY Zenon, <2>1 DEF LastPacket
  <2>4. (sess[t].kind = "send")'  BY Zenon, <1>1, <2>1 DEF ShapeInv, Session
  <2> PICK p : p = LastPacket(t)'  BY Zenon
  <2>5. PacketInv(p)' /\ p.op # "ACK"  BY Zenon, <2>2, <2>4, LastPacketInv
  <2> QED BY Zenon, <1>1, <1>3, <2>1, <2>2, <2>3, <2>5, PeerStep
<1> QED
  <2>1. \A err : (IF err = "error" THEN "ERR_OTHER" ELSE "ERR_FILE_NOT_FOUND")
                   \in {"ERR_OTHER", "ERR_FILE_NOT_FOUND"}
    BY Zenon
  <2> QED BY <1>2, <1>4, <1>5, <1>6, <2>1 DEF ServerRequest

\* Moving a session on to the next block changes nothing else.
LEMMA SessionSucc ==
  ASSUME NEW s \in Session
  PROVE  LET s1 == [s EXCEPT !.num = s.num + 1]
         IN  /\ s1 \in Session /\ s1.num = s.num + 1
             /\ s1.port = s.port /\ s1.bs = s.bs
             /\ s1.kind = s.kind /\ s1.hello = s.hello
  BY DEF Session

\* A sender moves on only when we have acknowledged its current block.
LEMMA SenderAckInv ==
  ASSUME InOrder, GetInv, NEW m \in net, NEW t \in Tids, SenderAck(m, t)
  PROVE  GetInv'
<1> USE TftpAssumption
<1>1. /\ UNCHANGED hostVars /\ UNCHANGED seen
      /\ m.to = "peer" /\ m.op = "ACK" /\ m.tid = t
      /\ m.num + 0 >= sess[t].num - 1
      /\ sess[t].kind = "send"
      /\ ShapeInv /\ PacketInv(m) /\ \A u \in Tids : SessInv(u)
  BY Zenon DEF SenderAck, Reaches, GetInv, InOrder
<1>2. /\ sess[t] \in Session /\ sess[t].num \in Nat /\ sess[t].bs \in Nat \ {0}
      /\ seen[t] \in Nat /\ m.num \in Nat
  BY Zenon, <1>1 DEF ShapeInv, Session, PacketInv
<1>3. m.port = sess[t].port /\ m.num <= seen[t] /\ m.hdr = m.num % SeqSize
  BY Zenon, <1>1 DEF PacketInv, PeerPacketInv, HostPacketInv
<1>4. \A p : p \in Taken(m) => p \in net  BY Zenon DEF Taken
<1>5. CASE /\ m.hdr = sess[t].num % SeqSize
           /\ sess[t].num * sess[t].bs <= FileLen
  <2>1. /\ sess' = [sess EXCEPT ![t].num = @ + 1, ![t].port = m.port]
        /\ net' = Taken(m) \cup {LastPacket(t)'}
    BY Zenon, <1>5 DEF SenderAck
  <2>2. m.num = sess[t].num
    <3>1. m.num <= sess[t].num  BY ONLY <1>1, <1>2, <1>3 DEF SessInv
    <3>2. CASE m.num + 1 = sess[t].num
      <4>1. (m.num + 1) % SeqSize # m.num % SeqSize
        BY Zenon, <1>2, CounterSize, ModNext
      <4> QED BY Zenon, <1>3, <1>5, <3>2, <4>1
    <3> QED BY <1>1, <1>2, <3>1, <3>2
  <2>3. /\ sess'[t].num = sess[t].num + 1 /\ sess'[t].port = sess[t].port
        /\ sess'[t].bs = sess[t].bs /\ sess'[t].kind = "send"
        /\ sess'[t].hello = sess[t].hello
        /\ sess' \in [Tids -> Session]
        /\ \A u \in Tids : u # t => sess'[u] = sess[u]
    <3>1. sess \in [Tids -> Session]  BY Zenon, <1>1 DEF ShapeInv
    <3>2. /\ sess'[t] = [[sess[t] EXCEPT !.num = sess[t].num + 1]
                           EXCEPT !.port = m.port]
          /\ \A u \in Tids : u # t => sess'[u] = sess[u]
          /\ DOMAIN sess' = Tids /\ sess' = [u \in Tids |-> sess'[u]]
      BY Zenon, <2>1, <3>1
    <3>3. sess'[t] \in Session /\ sess'[t].num = sess[t].num + 1
          /\ sess'[t].port = sess[t].port /\ sess'[t].bs = sess[t].bs
          /\ sess'[t].kind = sess[t].kind /\ sess'[t].hello = sess[t].hello
      <4> DEFINE s1 == [sess[t] EXCEPT !.num = sess[t].num + 1]
      <4>1. s1 \in Session /\ s1.num = sess[t].num + 1
            /\ s1.port = sess[t].port /\ s1.bs = sess[t].bs
            /\ s1.kind = sess[t].kind /\ s1.hello = sess[t].hello
        BY Zenon, <1>2, SessionSucc
      <4>2. sess'[t] = [s1 EXCEPT !.port = s1.port]
        BY Zenon, <1>3, <3>2, <4>1
      <4> HIDE DEF s1
      <4>3. sess'[t] = s1  BY <4>1, <4>2 DEF Session
      <4> QED BY Zenon, <4>1, <4>3
    <3>4. \A u \in Tids : sess'[u] \in Session
      BY Zenon, <3>1, <3>2, <3>3
    <3> QED BY <1>1, <3>2, <3>3, <3>4
  <2>4. ShapeInv'
    BY Zenon, <1>1, <2>3 DEF ShapeInv, hostVars, blockVars, loadVars
  <2>5. \A u \in Tids : SessInv(u)'
    <3> SUFFICES ASSUME NEW u \in Tids PROVE SessInv(u)'  BY Zenon
    <3>1. CASE u # t  BY <1>1, <2>3, <3>1 DEF SessInv, ShapeInv
    <3>2. CASE u = t
      <4>1. ((sess[t].num - 1) * sess[t].bs <= FileLen)'
        BY ONLY <1>2, <1>5, <2>3
      <4> QED BY ONLY <1>1, <1>2, <1>3, <2>2, <2>3, <3>2, <4>1 DEF SessInv
    <3> QED BY Zenon, <3>1, <3>2
  <2>6. Advance
    <3> SUFFICES ASSUME NEW u \in Tids
                 PROVE  /\ seen[u] <= seen'[u]
                        /\ sess[u].kind = "send" =>
                             /\ sess'[u].kind = "send"
                             /\ sess'[u].port = sess[u].port
                             /\ sess'[u].bs = sess[u].bs
                             /\ sess[u].num <= sess'[u].num
      BY Zenon DEF Advance
    <3>1. seen[u] <= seen'[u] /\ sess[u].num \in Nat
      BY <1>1 DEF ShapeInv, Session
    <3>2. CASE u = t  BY <1>2, <2>3, <3>1, <3>2
    <3>3. CASE u # t  BY <2>3, <3>1, <3>3
    <3> QED BY Zenon, <3>2, <3>3
  <2> PICK p : p = LastPacket(t)'  BY Zenon
  <2>7. PacketInv(p)' /\ p.op # "ACK"
    BY Zenon, <2>3, <2>4, <2>5, LastPacketInv
  <2>8. tftp_state = "SEND_RRQ" => sess'[t].port # tftp_our_port
    <3>1. tftp_state = "SEND_RRQ" => RequestInv  BY Zenon DEF GetInv, StateInv
    <3>2. RequestInv => m.port # tftp_our_port  BY Zenon, <1>1 DEF RequestInv
    <3> QED BY Zenon, <1>3, <2>3, <3>1, <3>2
  <2> QED BY <1>1, <1>4, <2>1, <2>3, <2>4, <2>5, <2>6, <2>7, <2>8, PeerStep
<1>6. CASE ~(/\ m.hdr = sess[t].num % SeqSize
             /\ sess[t].num * sess[t].bs <= FileLen)
  <2>1. UNCHANGED sess /\ net' = Taken(m) \cup {LastPacket(t)}
    BY Zenon, <1>6 DEF SenderAck
  <2>2. ShapeInv' /\ (\A u \in Tids : SessInv(u)') /\ Advance
    BY Zenon, <1>1, <2>1, SessionsStay DEF GetInv, hostVars, blockVars, loadVars
  <2>3. LastPacket(t)' = LastPacket(t)  BY Zenon, <2>1 DEF LastPacket
  <2>4. (sess[t].kind = "send")'  BY Zenon, <1>1, <2>1
  <2> PICK p : p = LastPacket(t)'  BY Zenon
  <2>5. PacketInv(p)' /\ p.op # "ACK"  BY Zenon, <2>2, <2>4, LastPacketInv
  <2> QED BY Zenon, <1>1, <1>4, <2>1, <2>2, <2>3, <2>5, PeerStep
<1> QED BY Zenon, <1>5, <1>6

\* The other steps of the peers and of the network.
LEMMA OtherPeerInv ==
  ASSUME InOrder, GetInv,
         \/ \E m \in net, t \in Tids : ReceiverData(m, t)
         \/ RemoteWrq \/ PeerTimeout \/ Lose
  PROVE  GetInv'
<1> USE TftpAssumption
<1>1. ShapeInv /\ \A t \in Tids : SessInv(t)  BY Zenon DEF GetInv
<1>2. CASE \E m \in net, t \in Tids : ReceiverData(m, t)
  BY ZenonT(30), <1>1, <1>2 DEF ReceiverData, ShapeInv, Session
<1>3. CASE RemoteWrq  BY Zenon, <1>3 DEF RemoteWrq, InOrder
<1>4. CASE PeerTimeout \/ Lose
  <2>1. /\ UNCHANGED hostVars /\ UNCHANGED seen /\ UNCHANGED sess
        /\ \/ \E u \in Tids : sess[u].kind # "none" /\ net' = {LastPacket(u)}
           \/ net' \subseteq net
    BY Zenon, <1>4 DEF PeerTimeout, Lose, peerVars
  <2>2. ShapeInv' /\ (\A u \in Tids : SessInv(u)') /\ Advance
    BY Zenon, <1>1, <2>1, SessionsStay DEF GetInv, hostVars, blockVars, loadVars
  <2>3. ASSUME NEW u \in Tids, sess[u].kind # "none", NEW p, p = LastPacket(u)
        PROVE  PacketInv(p)' /\ p.op # "ACK"
    <3>1. LastPacket(u)' = LastPacket(u)  BY Zenon, <2>1 DEF LastPacket
    <3>2. (sess[u].kind = "send")'  BY Zenon, <1>1, <2>1, <2>3 DEF ShapeInv, Session
    <3> QED BY Zenon, <2>2, <2>3, <3>1, <3>2, LastPacketInv
  <2>4. \A p \in net' : p \in net \/ (PacketInv(p)' /\ p.op # "ACK")
    BY Zenon, <2>1, <2>3
  <2> QED BY Zenon, <2>1, <2>2, <2>4, PeerStep
<1> QED BY Zenon, <1>2, <1>3, <1>4

-----------------------------------------------------------------------------
(* The steps of tftp.c and of net_loop.                                    *)

\* Steps of net_loop that leave the transfer alone, or stop it.
LEMMA QuietStep ==
  ASSUME GetInv,
         UNCHANGED <<loadVars, blockVars, connVars, tftp_put_active, sess, seen>>,
         net' \subseteq net, UNCHANGED protocol,
         running' => running,
         udp_handler' = "tftp" => udp_handler = "tftp",
         time_handler' = "tftp" => time_handler = "tftp",
         net_state' = "SUCCESS" => net_state = "SUCCESS"
  PROVE  GetInv'
<1> USE TftpAssumption DEF loadVars, blockVars, connVars
<1>1. ShapeInv' /\ \A t \in Tids : SessInv(t)'
  BY Zenon DEF GetInv, ShapeInv, SessInv
<1>2. \A m \in net' : PacketInv(m)'
  BY DEF GetInv, PacketInv, HostPacketInv, PeerPacketInv
<1>3. StateInv'
  <2>1. StateInv  BY Zenon DEF GetInv
  <2>2. tftp_state = "SEND_RRQ" => RequestInv'
    BY Zenon, <2>1 DEF StateInv, RequestInv
  <2>3. tftp_state \in {"OACK", "DATA"} => LockedInv'
    BY Zenon, <2>1 DEF StateInv, LockedInv
  <2>4. tftp_state = "DATA" => DataInv'
    BY Zenon, <2>1 DEF StateInv, DataInv, Stored, InMem
  <2> QED BY Zenon, <2>1, <2>2, <2>3, <2>4 DEF StateInv
<1>4. MemInv' /\ DoneInv'  BY Zenon DEF GetInv, MemInv, DoneInv, Stored, InMem
<1> QED BY Zenon, <1>1, <1>2, <1>3, <1>4 DEF GetInv

\* Control-C and the ends of net_loop.
LEMMA LeaveInv ==
  ASSUME GetInv, SwitchSuccess \/ SwitchFail \/ CtrlC
  PROVE  GetInv'
<1> USE DEF loadVars, blockVars, connVars, putVars, peerVars, Leave
<1>1. CASE SwitchSuccess  BY Zenon, <1>1, QuietStep DEF SwitchSuccess
<1>2. CASE SwitchFail  BY Zenon, <1>2, QuietStep DEF SwitchFail
<1>3. CASE CtrlC  BY Zenon, <1>3, QuietStep DEF CtrlC
<1> QED BY Zenon, <1>1, <1>2, <1>3

\* net_start_again stops the transfer or leaves it to net_loop.
LEMMA StartAgain ==
  ASSUME NEW STATE timer, net_start_again(timer),
         timer = "tftp" => time_handler = "tftp"
  PROVE  /\ udp_handler' = "tftp" => udp_handler = "tftp"
         /\ time_handler' = "tftp" => time_handler = "tftp"
         /\ net_state' = "SUCCESS" => net_state = "SUCCESS"
  BY Zenon DEF net_start_again

\* A port unreachable message, and the end of the ten second pause.
LEMMA IcmpInv ==
  ASSUME GetInv, RecvIcmp \/ start_again_timeout_handler
  PROVE  GetInv'
<1> USE DEF loadVars, blockVars, connVars, putVars, peerVars
<1>1. CASE RecvIcmp
  <2>1. net_start_again(time_handler)  BY Zenon, <1>1 DEF RecvIcmp
  <2>2. /\ udp_handler' = "tftp" => udp_handler = "tftp"
        /\ time_handler' = "tftp" => time_handler = "tftp"
        /\ net_state' = "SUCCESS" => net_state = "SUCCESS"
    BY Zenon, <2>1, StartAgain
  <2> QED BY Zenon, <1>1, <2>2, QuietStep DEF RecvIcmp
<1>2. CASE start_again_timeout_handler
  BY Zenon, <1>2, QuietStep DEF start_again_timeout_handler
<1> QED BY Zenon, <1>1, <1>2

\* The packets in flight keep agreeing with the sessions when we send a
\* request or an acknowledgement of a block that has reached us.
LEMMA HostPackets ==
  ASSUME GetInv, ShapeInv', Advance,
         \A p \in net' : p \in net \/ PacketInv(p)'
  PROVE  (\A m \in net : PacketInv(m))'
<1> SUFFICES ASSUME NEW m \in net' PROVE PacketInv(m)'  BY Zenon
<1>1. CASE m \in net
  <2>1. PacketInv(m) /\ ShapeInv  BY Zenon, <1>1 DEF GetInv
  <2> QED BY Zenon, <2>1, PacketStable
<1> QED BY Zenon, <1>1

\* The time-out handler: repeat the last packet, or give up.
LEMMA TimeoutInv ==
  ASSUME GetInv, tftp_timeout_handler
  PROVE  GetInv'
<1> USE TftpAssumption DEF loadVars, blockVars, connVars, peerVars
<1>1. /\ UNCHANGED <<running, protocol, loadVars, blockVars, connVars,
                     tftp_put_active, sess, seen>>
      /\ time_handler = "tftp"
  BY Zenon DEF tftp_timeout_handler
<1>2. CASE timeout_count' > timeout_count_max
  <2>1. net_start_again("none") /\ UNCHANGED net
    BY Zenon, <1>2 DEF tftp_timeout_handler, Exceeded
  <2>2. /\ udp_handler' = "tftp" => udp_handler = "tftp"
        /\ time_handler' = "tftp" => time_handler = "tftp"
        /\ net_state' = "SUCCESS" => net_state = "SUCCESS"
    BY Zenon, <2>1 DEF net_start_again
  <2> QED BY Zenon, <1>1, <2>1, <2>2, QuietStep
<1>3. CASE ~(timeout_count' > timeout_count_max)
  <2>0. StateInv /\ ShapeInv  BY Zenon DEF GetInv
  <2>1. /\ tftp_state \in {"SEND_RRQ", "OACK", "DATA"} /\ ~tftp_put_active
        /\ tftp_send(net, tftp_put_final_block_sent)
        /\ UNCHANGED <<net_state, udp_handler, time_handler>>
    BY Zenon, <1>1, <1>3, <2>0 DEF tftp_timeout_handler, Exceeded, StateInv
  <2> DEFINE rrq == Packet("peer", "RRQ", tftp_remote_port, tftp_our_port,
                           0, 0, 0, 0)
             ack == Packet("peer", "ACK", tftp_remote_port, tftp_our_port,
                           cur_num, tftp_cur_block % SeqSize, 0, 0)
  <2>2. net' = net \cup {IF tftp_state = "SEND_RRQ" THEN rrq ELSE ack}
    BY Zenon, <1>1, <2>1, GetSend
  <2>3. ShapeInv' /\ (\A t \in Tids : SessInv(t)') /\ Advance
    BY Zenon, <1>1, SessionsStay DEF GetInv, blockVars, loadVars
  <2>4. CASE tftp_state = "SEND_RRQ"
    <3>1. RequestInv  BY Zenon, <2>0, <2>4 DEF StateInv
    <3> PICK p : p = rrq  BY Zenon
    <3>2. PacketInv(p)' /\ p.op # "ACK"
      BY Zenon, <1>1, <3>1 DEF PacketInv, PeerPacketInv, Packet, RequestInv
    <3>3. net' = net \cup {p}  BY Zenon, <2>2, <2>4
    <3> HIDE DEF rrq, ack
    <3>4. (\A m \in net : PacketInv(m))'  BY Zenon, <2>3, <3>2, <3>3, HostPackets
    <3>5. RequestInv'  BY Zenon, <1>1, <2>1, <3>1, <3>2, <3>3 DEF RequestInv
    <3>6. StateInv'  BY Zenon, <1>1, <2>0, <2>1, <2>4, <3>5 DEF StateInv
    <3>7. MemInv' /\ DoneInv'
      BY Zenon, <1>1, <2>1 DEF GetInv, MemInv, DoneInv, Stored, InMem
    <3> QED BY Zenon, <2>3, <3>4, <3>6, <3>7 DEF GetInv
  <2>5. CASE tftp_state \in {"OACK", "DATA"}
    <3>1. LockedInv  BY Zenon, <2>0, <2>5 DEF StateInv
    <3>2. tftp_cur_block % SeqSize = cur_num % SeqSize
      <4>1. cur_num \in Nat /\ tftp_cur_block = cur_num % SeqSize
        BY Zenon, <2>0, <3>1 DEF ShapeInv, LockedInv
      <4> QED BY Zenon, <4>1, CounterSize, ModMod
    <3> PICK p : p = ack  BY Zenon
    <3>3. PacketInv(p)' /\ p.num = cur_num
      BY Zenon, <1>1, <2>0, <3>1, <3>2
         DEF PacketInv, PeerPacketInv, Packet, LockedInv, ShapeInv
    <3>4. net' = net \cup {p}  BY Zenon, <2>2, <2>5
    <3> HIDE DEF rrq, ack
    <3>5. (\A m \in net : PacketInv(m))'  BY Zenon, <2>3, <3>3, <3>4, HostPackets
    <3>6. LockedInv'
      BY <1>1, <2>0, <2>1, <3>1, <3>3, <3>4 DEF LockedInv, ShapeInv
    <3>7. tftp_state = "DATA" => DataInv'
      BY Zenon, <1>1, <2>0 DEF StateInv, DataInv, Stored, InMem
    <3>8. StateInv'  BY Zenon, <1>1, <2>0, <2>1, <2>5, <3>6, <3>7 DEF StateInv
    <3>9. MemInv' /\ DoneInv'
      BY Zenon, <1>1, <2>1 DEF GetInv, MemInv, DoneInv, Stored, InMem
    <3> QED BY Zenon, <2>3, <3>5, <3>8, <3>9 DEF GetInv
  <2> QED BY Zenon, <2>1, <2>4, <2>5
<1> QED BY Zenon, <1>2, <1>3

\* Starting a transfer on a port no earlier packet or session knows.
LEMMA StartInv ==
  ASSUME InOrder, GetInv, StartProtocol, protocol' = "TFTPGET"
  PROVE  GetInv'
<1> USE TftpAssumption DEF peerVars
<1>1. tftp_start /\ UNCHANGED <<mem, sess, seen>> /\ net_state' = "CONTINUE"
  BY Zenon DEF StartProtocol
<1>2. /\ ~tftp_put_active' /\ tftp_state' = "SEND_RRQ"
      /\ net_boot_file_size' = 0 /\ cur_num' = 0 /\ tftp_cur_block' = 0
      /\ tftp_block_size' = DefBlk /\ tftp_remote_port' = WellKnown
      /\ tftp_our_port' \in Ports /\ tftp_our_port' \notin UsedPorts
      /\ tftp_send(net, tftp_put_final_block_sent /\ ~tftp_put_active')
  BY ZenonT(30), <1>1 DEF tftp_start, InOrder
<1> DEFINE rrq == Packet("peer", "RRQ", tftp_remote_port', tftp_our_port',
                         0, 0, 0, 0)
<1>3. net' = net \cup {rrq}
  BY Zenon, <1>2 DEF tftp_send
<1>4. /\ \A m \in net : m.port # tftp_our_port'
      /\ \A t \in Tids : sess[t].port # tftp_our_port'
  BY Zenon, <1>2 DEF UsedPorts
<1>5. ShapeInv' /\ (\A t \in Tids : SessInv(t)') /\ Advance
  BY <1>1, <1>2 DEF GetInv, ShapeInv, SessInv, Advance, Session
<1> PICK p : p = rrq  BY Zenon
<1>6. PacketInv(p)' /\ p.op # "ACK"
  BY Zenon, <1>2 DEF PacketInv, PeerPacketInv, Packet
<1>7. (\A m \in net : PacketInv(m))'  BY Zenon, <1>3, <1>5, <1>6, HostPackets
<1>8. RequestInv'  BY Zenon, <1>1, <1>2, <1>3, <1>4, <1>6 DEF RequestInv
<1>9. StateInv'  BY Zenon, <1>2, <1>8 DEF StateInv
<1>10. MemInv' /\ DoneInv'  BY Zenon, <1>1 DEF GetInv, MemInv, DoneInv
<1> QED BY Zenon, <1>5, <1>7, <1>9, <1>10 DEF GetInv
-----------------------------------------------------------------------------
\* A packet that reaches us is the last one its session has sent us, or the
\* next one.
LEMMA ArrivesFacts ==
  ASSUME InOrder, GetInv, NEW m \in net, Arrives(m)
  PROVE  /\ HostPacketInv(m) /\ m.tid \in Tids /\ m.num \in Nat
         /\ running /\ running' /\ protocol = "TFTPGET" /\ UNCHANGED protocol
         /\ tftp_state \in {"SEND_RRQ", "OACK", "DATA"} /\ ~tftp_put_active
         /\ seen[m.tid] <= m.num /\ m.num <= seen[m.tid] + 1
         /\ m.num <= sess[m.tid].num
         /\ UNCHANGED sess /\ seen' = [seen EXCEPT ![m.tid] = m.num]
         /\ seen' \in [Tids -> Nat]
         /\ (\A t \in Tids : SessInv(t)') /\ Advance
<1> USE TftpAssumption
<1>1. ShapeInv /\ (\A t \in Tids : SessInv(t)) /\ PacketInv(m) /\ StateInv
  BY Zenon DEF GetInv
<1>2. /\ running /\ running' /\ m.to = "host" /\ m.num + Reorder >= seen[m.tid]
      /\ seen' = [seen EXCEPT ![m.tid] = IF @ < m.num THEN m.num ELSE @]
      /\ UNCHANGED <<sess, protocol>>
  BY Zenon DEF Arrives
<1>3. HostPacketInv(m) /\ m.tid \in Tids /\ m.num \in Nat
  BY <1>1, <1>2 DEF PacketInv, HostPacketInv
<1>4. sess[m.tid] \in Session /\ seen[m.tid] \in Nat  BY Zenon, <1>1, <1>3 DEF ShapeInv
<1>5. m.num <= sess[m.tid].num
  <2>1. sess[m.tid].num \in Nat  BY Zenon, <1>4 DEF Session
  <2> QED BY <1>3, <2>1 DEF HostPacketInv
<1>6. seen[m.tid] <= m.num  BY <1>2, <1>3, <1>4 DEF InOrder
<1>7. m.num <= seen[m.tid] + 1
  <2>1. sess[m.tid].num \in Nat /\ sess[m.tid].num <= seen[m.tid] + 1
    BY Zenon, <1>1, <1>3, <1>4 DEF SessInv, Session
  <2> QED BY <1>3, <1>4, <1>5, <2>1
<1>8. seen' = [seen EXCEPT ![m.tid] = m.num] /\ seen' \in [Tids -> Nat]
  <2>1. (IF seen[m.tid] < m.num THEN m.num ELSE seen[m.tid]) = m.num
    BY <1>3, <1>4, <1>6
  <2>2. seen' = [seen EXCEPT ![m.tid] = m.num]  BY Zenon, <1>2, <2>1
  <2> QED BY Zenon, <1>1, <1>3, <2>2 DEF ShapeInv
<1>9. \A t \in Tids : SessInv(t)' /\ seen[t] <= seen'[t]
  <2> SUFFICES ASSUME NEW t \in Tids PROVE SessInv(t)' /\ seen[t] <= seen'[t]
    BY Zenon
  <2>1. CASE t = m.tid
    <3>1. seen'[t] = m.num  BY Zenon, <1>1, <1>8, <2>1 DEF ShapeInv
    <3>2. sess[t].num \in Nat  BY Zenon, <1>4, <2>1 DEF Session
    <3>3. /\ seen'[t] <= sess[t].num /\ sess[t].num <= seen'[t] + 1
          /\ seen[t] <= seen'[t]
      <4>1. sess[t].num <= seen[t] + 1  BY Zenon, <1>1 DEF SessInv
      <4>2. m.num \in Nat /\ m.num <= sess[t].num /\ seen[t] \in Nat /\ seen[t] <= m.num
        BY Zenon, <1>3, <1>4, <1>5, <1>6, <2>1
      <4>3. sess[t].num <= m.num + 1  BY ONLY <3>2, <4>1, <4>2
      <4> QED BY Zenon, <3>1, <4>2, <4>3
    <3> QED BY <1>1, <1>2, <2>1, <3>3 DEF SessInv
  <2>2. CASE t # m.tid
    BY <1>1, <1>2, <1>8, <2>2 DEF SessInv, ShapeInv
  <2> QED BY Zenon, <2>1, <2>2
<1>10. Advance
  BY <1>1, <1>2, <1>9 DEF Advance, ShapeInv, Session
<1>11. /\ protocol = "TFTPGET" /\ ~tftp_put_active
       /\ tftp_state \in {"SEND_RRQ", "OACK", "DATA"}
  BY Zenon, <1>1, <1>2 DEF StateInv
<1> QED BY Zenon, <1>2, <1>3, <1>5, <1>6, <1>7, <1>8, <1>9, <1>10, <1>11

\* What Taken leaves in flight was in flight.
LEMMA TakenSub == ASSUME NEW m PROVE Taken(m) \subseteq net
  BY Zenon DEF Taken

\* A packet that tftp_handler drops at its port checks.
LEMMA IgnoreInv ==
  ASSUME InOrder, GetInv, NEW m \in net, Ignore(m)
  PROVE  GetInv'
<1> USE TftpAssumption DEF loadVars, blockVars, connVars, putVars
<1>1. Arrives(m)  BY Zenon DEF Ignore
<1>2. /\ UNCHANGED <<net_state, udp_handler, time_handler, loadVars, blockVars,
                     connVars, putVars>>
      /\ net' \subseteq net
  BY Zenon, TakenSub DEF Ignore
<1>3. /\ HostPacketInv(m) /\ m.tid \in Tids /\ m.num \in Nat
      /\ running /\ running' /\ UNCHANGED <<protocol, sess>>
      /\ seen[m.tid] <= m.num
      /\ seen' = [seen EXCEPT ![m.tid] = m.num] /\ seen' \in [Tids -> Nat]
      /\ (\A t \in Tids : SessInv(t)') /\ Advance
      /\ tftp_state \in {"SEND_RRQ", "OACK", "DATA"}
  BY Zenon, <1>1, ArrivesFacts
<1>4. ShapeInv /\ StateInv  BY Zenon DEF GetInv
<1>5. ShapeInv'  BY Zenon, <1>2, <1>3, <1>4 DEF ShapeInv
<1>6. (\A p \in net : PacketInv(p))'  BY Zenon, <1>2, <1>3, <1>5, HostPackets
<1>7. ASSUME udp_handler = "tftp" PROVE ~PortsOK(m)
  <2>1. m.op # "ACK"  BY Zenon, <1>3 DEF HostPacketInv
  <2> QED BY Zenon, <1>7, <2>1 DEF Ignore, Accepted
<1>8. m.num = 0 => seen' = seen
  BY <1>3, <1>4 DEF ShapeInv
<1>9. m.num # 0 => m.port = sess[m.tid].port
  BY Zenon, <1>3 DEF HostPacketInv
<1>10. CASE tftp_state = "SEND_RRQ"
  <2>1. RequestInv  BY Zenon, <1>4, <1>10 DEF StateInv
  <2>2. ASSUME NEW t \in Tids, sess[t].port = tftp_our_port,
               udp_handler = "tftp"
        PROVE  seen'[t] = 0
    <3>1. seen[t] = 0  BY Zenon, <2>1, <2>2 DEF RequestInv
    <3>2. m.num # 0 => m.tid # t
      BY Zenon, <1>7, <1>9, <1>10, <2>2 DEF PortsOK
    <3> QED BY Zenon, <1>3, <1>4, <1>8, <3>1, <3>2 DEF ShapeInv
  <2>3. RequestInv'  BY Zenon, <1>2, <1>3, <2>1, <2>2 DEF RequestInv
  <2>4. StateInv'  BY Zenon, <1>2, <1>3, <1>4, <1>10, <2>3 DEF StateInv
  <2>5. MemInv' /\ DoneInv'
    BY Zenon, <1>2 DEF GetInv, MemInv, DoneInv, Stored, InMem
  <2> QED BY Zenon, <1>3, <1>5, <1>6, <2>4, <2>5 DEF GetInv
<1>11. CASE tftp_state \in {"OACK", "DATA"}
  <2>1. LockedInv  BY Zenon, <1>4, <1>11 DEF StateInv
  <2>2. tftp_remote_port \in Tids /\ cur_num <= seen'[tftp_remote_port]
    <3> PICK t : t = tftp_remote_port  BY Zenon
    <3>1. t \in Tids /\ cur_num <= seen[t] /\ cur_num \in Nat  BY Zenon, <1>4, <2>1 DEF LockedInv, ShapeInv
    <3>2. seen[t] \in Nat /\ seen'[t] \in Nat /\ seen[t] <= seen'[t]
      BY Zenon, <1>3, <1>4, <3>1 DEF Advance, ShapeInv
    <3>3. cur_num <= seen'[t]  BY ONLY <3>1, <3>2
    <3> QED BY Zenon, <3>1, <3>3
  <2>3. udp_handler = "tftp" => seen'[tftp_remote_port] = seen[tftp_remote_port]
    <3>1. ASSUME udp_handler = "tftp", m.num # 0 PROVE m.tid # tftp_remote_port
      BY Zenon, <1>7, <1>9, <2>1, <3>1 DEF PortsOK, LockedInv
    <3> QED BY Zenon, <1>3, <1>4, <1>8, <2>1, <3>1 DEF ShapeInv, LockedInv
  <2>4. LockedInv'  BY Zenon, <1>2, <1>3, <2>1, <2>2, <2>3 DEF LockedInv
  <2>5. tftp_state = "DATA" => DataInv'
    BY Zenon, <1>2, <1>4 DEF StateInv, DataInv, Stored, InMem
  <2>6. StateInv'  BY Zenon, <1>2, <1>3, <1>4, <1>11, <2>4, <2>5 DEF StateInv
  <2>7. MemInv' /\ DoneInv'
    BY Zenon, <1>2 DEF GetInv, MemInv, DoneInv, Stored, InMem
  <2> QED BY Zenon, <1>3, <1>5, <1>6, <2>6, <2>7 DEF GetInv
<1> QED BY Zenon, <1>3, <1>10, <1>11

\* A packet tftp_handler takes belongs to the session of the transfer, or,
\* before there is one, to a session with our port.
LEMMA AcceptedFacts ==
  ASSUME InOrder, GetInv, NEW m \in net, Arrives(m), Accepted(m)
  PROVE  /\ m.port = tftp_our_port /\ udp_handler = "tftp"
         /\ m.op # "ACK" /\ m.op # "WRQ"
         /\ tftp_state # "SEND_RRQ" =>
              m.tid = tftp_remote_port /\ seen[m.tid] = cur_num
         /\ tftp_state = "SEND_RRQ" /\ sess[m.tid].port = tftp_our_port =>
              seen[m.tid] = 0 /\ cur_num = 0
<1>1. /\ HostPacketInv(m) /\ m.tid \in Tids
      /\ tftp_state \in {"SEND_RRQ", "OACK", "DATA"}
  BY ArrivesFacts
<1>2. StateInv  BY Zenon DEF GetInv
<1>3. /\ m.port = tftp_our_port /\ udp_handler = "tftp"
      /\ tftp_state # "SEND_RRQ" => m.tid = tftp_remote_port
  BY Zenon, <1>1 DEF Accepted, PortsOK
<1>4. m.op # "ACK" /\ m.op # "WRQ"  BY Zenon, <1>1 DEF HostPacketInv
<1>5. tftp_state # "SEND_RRQ" => seen[m.tid] = cur_num
  BY Zenon, <1>1, <1>2, <1>3 DEF StateInv, LockedInv
<1>6. tftp_state = "SEND_RRQ" /\ sess[m.tid].port = tftp_our_port =>
        seen[m.tid] = 0 /\ cur_num = 0
  BY Zenon, <1>1, <1>2, <1>3 DEF StateInv, RequestInv
<1> QED BY Zenon, <1>3, <1>4, <1>5, <1>6

\* An error packet: fail or start again.
LEMMA RecvErrorInv ==
  ASSUME InOrder, GetInv, NEW m \in net, RecvError(m)
  PROVE  GetInv'
<1> USE TftpAssumption DEF loadVars, blockVars, connVars, putVars
<1>1. Arrives(m)  BY Zenon DEF RecvError
<1>2. /\ HostPacketInv(m) /\ m.tid \in Tids /\ UNCHANGED <<protocol, sess>>
      /\ seen[m.tid] <= m.num /\ seen' = [seen EXCEPT ![m.tid] = m.num]
      /\ running /\ ShapeInv
  BY Zenon, <1>1, ArrivesFacts DEF GetInv
<1>3. m.num = 0  BY <1>2 DEF RecvError, HostPacketInv
<1>4. UNCHANGED seen  BY <1>2, <1>3 DEF ShapeInv
<1>5. net' \subseteq net  BY Zenon, TakenSub DEF RecvError
<1>6. /\ udp_handler' = "tftp" => udp_handler = "tftp"
      /\ time_handler' = "tftp" => time_handler = "tftp"
      /\ net_state' = "SUCCESS" => net_state = "SUCCESS"
  <2>1. CASE net_start_again(time_handler)  BY Zenon, <2>1, StartAgain
  <2> QED BY Zenon, <2>1 DEF RecvError
<1> QED BY Zenon, <1>2, <1>4, <1>5, <1>6, QuietStep DEF RecvError

\* An option acknowledgement binds the transfer to its session.
LEMMA RecvOackInv ==
  ASSUME InOrder, GetInv, NEW m \in net, RecvOack(m)
  PROVE  GetInv'
<1> USE TftpAssumption DEF loadVars, blockVars, connVars, putVars
<1>1. Arrives(m) /\ Accepted(m) /\ m.op = "OACK"  BY Zenon DEF RecvOack
<1>2. /\ HostPacketInv(m) /\ m.tid \in Tids /\ m.num \in Nat
      /\ running /\ running' /\ protocol = "TFTPGET" /\ UNCHANGED <<protocol, sess>>
      /\ tftp_state \in {"SEND_RRQ", "OACK", "DATA"} /\ ~tftp_put_active
      /\ seen[m.tid] <= m.num
      /\ seen' = [seen EXCEPT ![m.tid] = m.num] /\ seen' \in [Tids -> Nat]
      /\ (\A t \in Tids : SessInv(t)') /\ Advance
  BY Zenon, <1>1, ArrivesFacts
<1>3. ShapeInv /\ StateInv  BY Zenon DEF GetInv
<1>4. /\ sess[m.tid].kind = "send" /\ m.port = sess[m.tid].port
      /\ m.num = 0 /\ m.len = sess[m.tid].bs
  BY Zenon, <1>1, <1>2 DEF HostPacketInv
<1>5. /\ m.port = tftp_our_port
      /\ tftp_state # "SEND_RRQ" =>
           m.tid = tftp_remote_port /\ seen[m.tid] = cur_num
      /\ tftp_state = "SEND_RRQ" /\ sess[m.tid].port = tftp_our_port =>
           seen[m.tid] = 0 /\ cur_num = 0
  BY Zenon, <1>1, AcceptedFacts
<1>6. seen[m.tid] = 0 /\ cur_num = 0 /\ tftp_state # "DATA"
  <2>1. seen[m.tid] \in Nat  BY Zenon, <1>2, <1>3 DEF ShapeInv
  <2>2. seen[m.tid] = 0  BY ONLY <1>2, <1>4, <2>1
  <2>3. cur_num = 0  BY <1>2, <1>4, <1>5, <2>2
  <2> QED BY <1>3, <2>2, <2>3 DEF StateInv, DataInv
<1>7. 0 % SeqSize = 0  BY ModSmall
<1>8. /\ tftp_cur_block = 0 /\ net_boot_file_size = 0 /\ tftp_our_port \in Ports
      /\ \A p \in net : p.op = "ACK" /\ p.port = tftp_our_port => p.num <= 0
  BY Zenon, <1>2, <1>3, <1>6, <1>7 DEF StateInv, RequestInv, LockedInv
<1>9. /\ tftp_remote_port' = m.tid /\ tftp_block_size' = m.len
      /\ tftp_state' = "OACK"
      /\ UNCHANGED <<tftp_cur_block, cur_num, tftp_our_port, net_state,
                     udp_handler, time_handler, loadVars, tftp_put_active>>
      /\ tftp_send(Taken(m), tftp_put_final_block_sent)
  BY Zenon, <1>2 DEF RecvOack
<1> DEFINE ack == Packet("peer", "ACK", m.tid, tftp_our_port, 0, 0, 0, 0)
<1>10. net' = Taken(m) \cup {ack}
  BY Zenon, <1>2, <1>6, <1>7, <1>8, <1>9, GetSend
<1>11. ShapeInv'  BY <1>2, <1>3, <1>9 DEF ShapeInv
<1> PICK p : p = ack  BY Zenon
<1>12. p.op = "ACK" /\ p.num = 0 /\ PacketInv(p)'
  BY Zenon, <1>2, <1>4, <1>5, <1>6, <1>7, <1>9, <1>11
     DEF PacketInv, PeerPacketInv, Packet, ShapeInv
<1>13. net' \subseteq net \cup {p}  BY Zenon, <1>10, TakenSub
<1> HIDE DEF ack
<1>14. (\A q \in net : PacketInv(q))'  BY <1>2, <1>11, <1>12, <1>13, HostPackets
<1>15. LockedInv'
  <2>1. seen'[m.tid] = 0  BY Zenon, <1>2, <1>3, <1>4 DEF ShapeInv
  <2> QED BY ONLY Zenon, <1>2, <1>4, <1>5, <1>6, <1>7, <1>8, <1>9, <1>12, <1>13, <2>1
          DEF LockedInv
<1>16. StateInv'  BY Zenon, <1>2, <1>6, <1>8, <1>9, <1>15 DEF StateInv
<1>17. MemInv' /\ DoneInv'
  BY Zenon, <1>9 DEF GetInv, MemInv, DoneInv, Stored, InMem
<1> QED BY Zenon, <1>2, <1>11, <1>14, <1>16, <1>17 DEF GetInv

\* A block tftp_handler takes is the last one it stored, or the next one; its
\* 16 bit number tells which.
LEMMA DataFacts ==
  ASSUME InOrder, GetInv, NEW m \in net, Arrives(m), Accepted(m), m.op = "DATA"
  PROVE  /\ m.num \in {cur_num, cur_num + 1} /\ m.num > 0
         /\ m.hdr = m.num % SeqSize
         /\ AwaitingFirst => tftp_state # "DATA" /\ cur_num = 0 /\ m.hdr = 1
         /\ ~AwaitingFirst => tftp_state = "DATA"
         /\ tftp_block_size = sess[m.tid].bs
<1> USE TftpAssumption
<1>1. /\ HostPacketInv(m) /\ m.tid \in Tids /\ m.num \in Nat
      /\ tftp_state \in {"SEND_RRQ", "OACK", "DATA"}
      /\ seen[m.tid] <= m.num /\ m.num <= seen[m.tid] + 1
      /\ m.num <= sess[m.tid].num
  BY Zenon, ArrivesFacts
<1>2. ShapeInv /\ StateInv  BY Zenon DEF GetInv
<1>3. /\ sess[m.tid].kind = "send" /\ m.port = sess[m.tid].port
      /\ m.num > 0 /\ m.hdr = m.num % SeqSize
  BY Zenon, <1>1 DEF HostPacketInv
<1>4. seen[m.tid] = cur_num /\ m.port = tftp_our_port
  BY Zenon, <1>1, <1>3, AcceptedFacts
<1>5. m.num \in {cur_num, cur_num + 1}  BY <1>1, <1>2, <1>4 DEF ShapeInv
<1>6. AwaitingFirst => tftp_state # "DATA" /\ cur_num = 0 /\ m.hdr = 1
  <2> SUFFICES ASSUME AwaitingFirst
               PROVE  tftp_state # "DATA" /\ cur_num = 0 /\ m.hdr = 1
    BY Zenon
  <2>1. tftp_state # "DATA" /\ cur_num = 0
    BY Zenon, <1>1, <1>2 DEF AwaitingFirst, StateInv, RequestInv
  <2>2. m.num = 1  BY <1>3, <1>5, <2>1
  <2>3. 1 % SeqSize = 1  BY ModSmall
  <2> QED BY Zenon, <1>3, <2>1, <2>2, <2>3
<1>7. tftp_block_size = sess[m.tid].bs
  <2>1. CASE tftp_state = "SEND_RRQ"
    <3>1. sess[m.tid].num > 0
      <4>1. sess[m.tid].num \in Nat  BY Zenon, <1>1, <1>2 DEF ShapeInv, Session
      <4> QED BY ONLY <1>1, <1>3, <4>1
    <3> QED BY Zenon, <1>1, <1>2, <1>3, <1>4, <2>1, <3>1 DEF StateInv, RequestInv
  <2>2. CASE tftp_state \in {"OACK", "DATA"}
    <3>1. m.tid = tftp_remote_port  BY Zenon, <2>2, AcceptedFacts
    <3> QED BY Zenon, <1>2, <2>2, <3>1 DEF StateInv, LockedInv
  <2> QED BY Zenon, <1>1, <2>1, <2>2
<1> QED BY Zenon, <1>1, <1>3, <1>5, <1>6, <1>7 DEF AwaitingFirst

\* The repetition of the last block changes nothing.
LEMMA RecvDataSameInv ==
  ASSUME InOrder, GetInv, NEW m \in net, RecvDataSame(m)
  PROVE  GetInv'
<1> USE TftpAssumption DEF loadVars, blockVars, connVars, putVars
<1>1. Arrives(m) /\ Accepted(m) /\ m.op = "DATA" /\ ~AwaitingFirst
  BY Zenon DEF RecvDataSame
<1>2. /\ m.num \in {cur_num, cur_num + 1} /\ m.hdr = m.num % SeqSize
      /\ tftp_state = "DATA"
  BY Zenon, <1>1, DataFacts
<1>3. ShapeInv /\ StateInv  BY Zenon DEF GetInv
<1>4. m.hdr = cur_num % SeqSize /\ tftp_cur_block = m.hdr
  BY Zenon, <1>2, <1>3 DEF RecvDataSame, StateInv, DataInv, LockedInv
<1>5. m.num = cur_num
  BY <1>2, <1>3, <1>4, ModNext DEF ShapeInv
<1>6. UNCHANGED blockVars /\ net' \subseteq net
  BY Zenon, <1>4, <1>5, TakenSub DEF RecvDataSame
<1>7. /\ m.tid \in Tids /\ seen' = [seen EXCEPT ![m.tid] = m.num]
      /\ UNCHANGED <<protocol, sess>> /\ running
  BY Zenon, <1>1, ArrivesFacts
<1>8. seen[m.tid] = cur_num  BY Zenon, <1>1, <1>2, AcceptedFacts
<1>9. UNCHANGED seen  BY Zenon, <1>3, <1>5, <1>7, <1>8 DEF ShapeInv
<1> QED BY ZenonT(30), <1>6, <1>7, <1>9, QuietStep DEF RecvDataSame

-----------------------------------------------------------------------------
\* Where block n of a file of F bytes begins and ends.
LEMMA BlockExtent ==
  ASSUME NEW F \in Nat, NEW b \in Nat, b > 0, NEW n \in Nat, n > 0,
         (n - 1) * b <= F,
         NEW len, len = IF n * b <= F THEN b ELSE F - (n - 1) * b
  PROVE  /\ len \in Nat /\ (n - 1) * b \in Nat
         /\ (n - 1) * b + len = IF n * b <= F THEN n * b ELSE F
         /\ (n - 1) * b + len <= F
         /\ len < b => n * b > F
         /\ (n - 1) * b = F => n * b > F
<1> DEFINE x == (n - 1) * b
           y == n * b
<1>1. x \in Int /\ y \in Int /\ y = x + b  OBVIOUS
<1>2. (n - 1) * b >= 0
  <2>1. b * 0 <= b * (n - 1)  BY MulMono
  <2> QED BY <2>1
<1> HIDE DEF x, y
<1>3. len = IF y <= F THEN b ELSE F - x  BY Zenon DEF x, y
<1>4. x <= F /\ x >= 0  BY Zenon, <1>2 DEF x
<1>5. /\ len \in Nat /\ x \in Nat
      /\ x + len = IF y <= F THEN y ELSE F
      /\ x + len <= F
      /\ len < b => y > F
      /\ x = F => y > F
  BY <1>1, <1>3, <1>4
<1> QED BY Zenon, <1>5 DEF x, y

\* store_block at the right place extends the part of the file in memory.
LEMMA StoreBlock ==
  ASSUME MemInv, NEW m, NEW off \in Nat, off = m.off, m.len \in Nat,
         off + m.len <= FileLen, store_block(off, m), Stored(off),
         NEW e \in Nat, e = off + m.len
  PROVE  MemInv' /\ Stored(e)'
<1> USE TftpAssumption
<1>1. mem' = [a \in DOMAIN mem \cup off..(off + m.len - 1) |->
               IF a \in off..(off + m.len - 1) THEN m.off + (a - off)
                                               ELSE mem[a]]
  BY Zenon DEF store_block
<1>2. off..(off + m.len - 1) \subseteq 0..(FileLen - 1)  OBVIOUS
<1>3. \A a \in off..(off + m.len - 1) : m.off + (a - off) = a  OBVIOUS
<1>4. \A a \in DOMAIN mem' : mem'[a] = a
  BY Zenon, <1>1, <1>3 DEF MemInv
<1>5. MemInv'  BY Zenon, <1>1, <1>2, <1>4 DEF MemInv
<1>6. ASSUME NEW a \in 0..(FileLen - 1), a < e PROVE a \in DOMAIN mem'
  <2>1. CASE a < off  BY Zenon, <1>1, <2>1 DEF Stored, InMem
  <2>2. CASE ~(a < off)
    <3>1. a \in off..(off + m.len - 1)  BY <1>6, <2>2
    <3> QED BY Zenon, <1>1, <3>1
  <2> QED BY Zenon, <2>1, <2>2
<1> QED BY Zenon, <1>4, <1>5, <1>6 DEF Stored, InMem

\* The wrap offset makes up for what the counter has dropped: block numbers
\* and the wrap offset together always give the true offset of the block.
LEMMA WrapExact ==
  ASSUME InOrder, GetInv, NEW m \in net, RecvData(m)
  PROVE  /\ m.num = cur_num + 1
         /\ tftp_block_wrap_offset' = tftp_block_size * (m.num - m.hdr)
         /\ m.hdr \in 0..(SeqSize - 1)
<1> USE TftpAssumption
<1>1. Arrives(m) /\ Accepted(m) /\ m.op = "DATA"  BY Zenon DEF RecvData
<1>2. /\ m.num \in {cur_num, cur_num + 1} /\ m.num > 0
      /\ m.hdr = m.num % SeqSize
      /\ AwaitingFirst => tftp_state # "DATA" /\ cur_num = 0 /\ m.hdr = 1
      /\ ~AwaitingFirst => tftp_state = "DATA"
      /\ tftp_block_size = sess[m.tid].bs /\ m.tid \in Tids
  BY Zenon, <1>1, DataFacts, ArrivesFacts
<1>3. ShapeInv /\ StateInv  BY Zenon DEF GetInv
<1>4. cur_num \in Nat /\ m.num \in Nat /\ tftp_block_size \in Nat
  BY ONLY <1>2, <1>3 DEF ShapeInv, Session
<1>5. m.hdr \in 0..(SeqSize - 1)
  <2>1. SeqSize \in Nat /\ SeqSize > 1  OBVIOUS
  <2>2. m.num % SeqSize \in 0..(SeqSize - 1)  BY Zenon, <1>4, <2>1, ModDiv
  <2> QED BY Zenon, <1>2, <2>2
<1>6. CASE AwaitingFirst
  <2>1. m.num = 1 /\ m.hdr = 1 /\ tftp_block_wrap_offset' = 0
    <3>1. cur_num = 0 /\ m.hdr = 1  BY Zenon, <1>2, <1>6
    <3>2. m.num = 1  BY ONLY <1>2, <1>4, <3>1
    <3> QED BY Zenon, <1>6, <3>1, <3>2 DEF RecvData
  <2> QED BY ONLY <1>2, <1>4, <1>5, <1>6, <2>1
<1>7. CASE ~AwaitingFirst
  <2> DEFINE r == cur_num % SeqSize
  <2>1. /\ tftp_prev_block = r
        /\ tftp_block_wrap_offset = tftp_block_size * (cur_num - r)
    BY Zenon, <1>2, <1>3, <1>7 DEF StateInv, DataInv, LockedInv
  <2>2. m.hdr # r  BY Zenon, <1>7, <2>1 DEF RecvData
  <2>3. m.num = cur_num + 1  BY Zenon, <1>2, <2>2
  <2>4. m.hdr = IF r = SeqSize - 1 THEN 0 ELSE r + 1
    <3>1. SeqSize \in Nat /\ SeqSize > 1  OBVIOUS
    <3>2. (cur_num + 1) % SeqSize = IF r = SeqSize - 1 THEN 0 ELSE r + 1
      BY ONLY Zenon, <1>4, <3>1, ModSucc
    <3>3. m.hdr = (cur_num + 1) % SeqSize  BY ONLY Zenon, <1>2, <2>3
    <3> QED BY ONLY Zenon, <3>2, <3>3
  <2>5. r \in 0..(SeqSize - 1)  BY <1>4, ModDiv
  <2>6. tftp_block_wrap_offset' =
          IF m.hdr = 0 /\ r # 0
          THEN tftp_block_size * (cur_num - r) + tftp_block_size * SeqSize
          ELSE tftp_block_size * (cur_num - r)
    BY Zenon, <1>7, <2>1 DEF RecvData, update_block_number, Wrapped
  <2> HIDE DEF r
  <2>7. CASE r = SeqSize - 1
    <3>1. tftp_block_size * (cur_num - r) + tftp_block_size * SeqSize
            = tftp_block_size * (cur_num + 1 - 0)
      BY <1>4, <2>5, <2>7
    <3> QED BY ONLY CounterSize, <1>4, <1>5, <2>3, <2>4, <2>5, <2>6, <2>7, <3>1
  <2>8. CASE r # SeqSize - 1
    <3>1. m.hdr = r + 1 /\ m.hdr # 0  BY <2>4, <2>5, <2>8
    <3>2. m.num - m.hdr = cur_num - r  BY <1>4, <2>3, <2>5, <3>1
    <3> QED BY Zenon, <1>5, <2>3, <2>6, <3>1, <3>2
  <2> QED BY Zenon, <2>7, <2>8
<1> QED BY Zenon, <1>6, <1>7

\* The offset at which tftp_handler stores a block.
LEMMA OffsetIs ==
  ASSUME NEW b \in Nat, NEW n \in Nat, NEW h \in Nat
  PROVE  (h - 1) * b + b * (n - h) = (n - 1) * b
  OBVIOUS

\* The next block: stored in its place, then acknowledged.
LEMMA RecvDataInv ==
  ASSUME InOrder, GetInv, NEW m \in net, RecvData(m)
  PROVE  GetInv'
<1> USE TftpAssumption DEF loadVars, blockVars, connVars, putVars
<1>1. Arrives(m) /\ Accepted(m) /\ m.op = "DATA"  BY Zenon DEF RecvData
<1>2. /\ HostPacketInv(m) /\ m.tid \in Tids /\ m.num \in Nat
      /\ running /\ running' /\ protocol = "TFTPGET" /\ UNCHANGED <<protocol, sess>>
      /\ tftp_state \in {"SEND_RRQ", "OACK", "DATA"} /\ ~tftp_put_active
      /\ seen[m.tid] <= m.num /\ m.num <= sess[m.tid].num
      /\ seen' = [seen EXCEPT ![m.tid] = m.num] /\ seen' \in [Tids -> Nat]
      /\ (\A t \in Tids : SessInv(t)') /\ Advance
  BY Zenon, <1>1, ArrivesFacts
<1>3. ShapeInv /\ StateInv /\ MemInv /\ DoneInv /\ SessInv(m.tid)
  BY Zenon, <1>2 DEF GetInv
<1>4. /\ m.num > 0 /\ m.hdr = m.num % SeqSize
      /\ AwaitingFirst => tftp_state # "DATA" /\ cur_num = 0 /\ m.hdr = 1
      /\ ~AwaitingFirst => tftp_state = "DATA"
      /\ tftp_block_size = sess[m.tid].bs
  BY Zenon, <1>1, DataFacts
<1>5. /\ m.num = cur_num + 1 /\ m.hdr \in 0..(SeqSize - 1)
      /\ tftp_block_wrap_offset' = tftp_block_size * (m.num - m.hdr)
  BY Zenon, WrapExact
<1>6. /\ sess[m.tid].kind = "send" /\ m.port = sess[m.tid].port
      /\ m.off = (m.num - 1) * tftp_block_size
      /\ m.len = BlockLen(m.num, tftp_block_size)
      /\ m.port = tftp_our_port
  BY Zenon, <1>1, <1>2, <1>4, AcceptedFacts DEF HostPacketInv
<1>7. /\ tftp_block_size \in Nat /\ tftp_block_size > 0 /\ cur_num \in Nat
      /\ sess[m.tid].num \in Nat /\ seen[m.tid] \in Nat
  BY ONLY <1>2, <1>3, <1>4 DEF ShapeInv, Session
<1>8. (m.num - 1) * tftp_block_size <= FileLen
  <2>1. tftp_block_size * (m.num - 1) <= tftp_block_size * (sess[m.tid].num - 1)
    BY ONLY <1>2, <1>7, MulMono
  <2>2. (sess[m.tid].num - 1) * tftp_block_size <= FileLen
    BY Zenon, <1>3, <1>4, <1>6 DEF SessInv
  <2> QED BY ONLY <1>2, <1>7, <2>1, <2>2, TftpAssumption
<1> DEFINE off == (m.num - 1) * tftp_block_size
           end == IF m.num * tftp_block_size <= FileLen
                  THEN m.num * tftp_block_size ELSE FileLen
<1>9. /\ m.len \in Nat /\ off \in Nat /\ off + m.len = end
      /\ off + m.len <= FileLen
      /\ m.len < tftp_block_size => end = FileLen
      /\ off = FileLen => end = FileLen
  <2>0. PICK n, b : n = m.num /\ b = tftp_block_size  BY Zenon
  <2>1. m.len = IF n * b <= FileLen THEN b ELSE FileLen - (n - 1) * b
    BY Zenon, <1>6, <2>0 DEF BlockLen
  <2>2. n \in Nat /\ n > 0 /\ b \in Nat /\ b > 0 /\ (n - 1) * b <= FileLen
    BY Zenon, <1>2, <1>4, <1>7, <1>8, <2>0
  <2>3. /\ m.len \in Nat /\ (n - 1) * b \in Nat
        /\ (n - 1) * b + m.len = IF n * b <= FileLen THEN n * b ELSE FileLen
        /\ (n - 1) * b + m.len <= FileLen
        /\ m.len < b => n * b > FileLen
        /\ (n - 1) * b = FileLen => n * b > FileLen
    BY ONLY Zenon, <2>1, <2>2, BlockExtent, TftpAssumption
  <2>4. n * b \in Int  BY <2>2
  <2> QED BY ONLY <2>0, <2>3, <2>4, TftpAssumption
<1>10. store_block(off, m)
  <2>1. store_block((m.hdr - 1) * tftp_block_size + tftp_block_wrap_offset', m)
    BY Zenon DEF RecvData
  <2>2. (m.hdr - 1) * tftp_block_size + tftp_block_wrap_offset' = off
    BY ONLY CounterSize, <1>2, <1>5, <1>7, OffsetIs
  <2> HIDE DEF off
  <2> QED BY Zenon, <2>1, <2>2
<1>11. Stored(off) /\ net_boot_file_size = off
  <2>1. CASE AwaitingFirst
    <3>1. off = 0  BY ONLY <1>4, <1>5, <1>7, <2>1
    <3>2. net_boot_file_size = 0
      BY <1>2, <1>3, <1>4, <2>1 DEF StateInv, RequestInv
    <3> QED BY <3>1, <3>2 DEF Stored
  <2>2. CASE ~AwaitingFirst
    <3>1. DataInv  BY Zenon, <1>3, <1>4, <2>2 DEF StateInv
    <3>2. off = cur_num * tftp_block_size  BY <1>5, <1>7
    <3> QED BY Zenon, <1>8, <3>1, <3>2 DEF DataInv
  <2> QED BY Zenon, <2>1, <2>2
<1> PICK o, e : o = off /\ e = end  BY Zenon
<1>12. /\ o \in Nat /\ o = m.off /\ m.len \in Nat /\ o + m.len <= FileLen
       /\ store_block(o, m) /\ Stored(o) /\ e = o + m.len /\ e \in Nat
       /\ net_boot_file_size = o
  <2> HIDE DEF end
  <2>1. o = off /\ e = off + m.len  BY Zenon, <1>9
  <2>2. o = m.off  BY Zenon, <1>6, <2>1
  <2> HIDE DEF off
  <2> QED BY <1>9, <1>10, <1>11, <2>1, <2>2
<1>13. MemInv' /\ Stored(e)'  BY Zenon, <1>3, <1>12, StoreBlock
<1>14. net_boot_file_size' = e
  BY <1>12 DEF store_block
<1>15. /\ m.len < tftp_block_size => e = FileLen
       /\ o = FileLen => e = FileLen
  <2> HIDE DEF off, end
  <2> QED BY Zenon, <1>9
<1>16. DoneInv'
  <2>1. ASSUME net_state' = "SUCCESS" PROVE e = FileLen
    <3>1. CASE m.len < tftp_block_size  BY Zenon, <1>15, <3>1
    <3>2. CASE ~(m.len < tftp_block_size)
      <4>1. net_state = "SUCCESS"  BY Zenon, <2>1, <3>2 DEF RecvData
      <4>2. o = FileLen  BY Zenon, <1>3, <1>12, <4>1 DEF DoneInv
      <4> QED BY Zenon, <1>15, <4>2
    <3> QED BY Zenon, <3>1, <3>2
  <2> QED BY Zenon, <1>13, <1>14, <2>1 DEF DoneInv
<1>17. /\ tftp_cur_block' = m.hdr /\ cur_num' = m.num /\ tftp_prev_block' = m.hdr
       /\ tftp_state' = "DATA" /\ tftp_remote_port' = m.tid
       /\ UNCHANGED <<tftp_our_port, tftp_block_size, tftp_put_active, udp_handler>>
       /\ time_handler' = "tftp"
       /\ tftp_send(Taken(m), tftp_put_final_block_sent /\ ~AwaitingFirst)
  <2>1. ~AwaitingFirst => m.tid = tftp_remote_port
    BY Zenon, <1>1, <1>4, AcceptedFacts
  <2> QED BY Zenon, <1>4, <2>1 DEF RecvData
<1>18. DataInv'
  <2>1. tftp_block_wrap_offset' = tftp_block_size' * (cur_num' - tftp_cur_block')
    BY Zenon, <1>5, <1>17
  <2>2. end = (IF cur_num * tftp_block_size <= FileLen
               THEN cur_num * tftp_block_size ELSE FileLen)'
    BY Zenon, <1>17
  <2>3. Stored(cur_num * tftp_block_size)'
    <3>1. e = (IF cur_num * tftp_block_size <= FileLen
               THEN cur_num * tftp_block_size ELSE FileLen)'
      BY Zenon, <2>2
    <3>2. (cur_num * tftp_block_size)' \in Int  BY Zenon, <1>2, <1>7, <1>17, NatOrder
    <3> HIDE DEF end, off
    <3> QED BY <1>13, <3>1, <3>2 DEF Stored
  <2> QED BY Zenon, <1>4, <1>14, <1>17, <2>1, <2>2, <2>3 DEF DataInv
<1> HIDE DEF off, end
<1> DEFINE ack == Packet("peer", "ACK", m.tid, tftp_our_port, m.num,
                         m.hdr % SeqSize, 0, 0)
<1>19. net' = Taken(m) \cup {ack}
  BY Zenon, <1>2, <1>17, GetSend
<1> PICK p : p = ack  BY Zenon
<1>20. ShapeInv'  BY Zenon, <1>2, <1>3, <1>12, <1>14, <1>17 DEF ShapeInv
<1>21. seen'[m.tid] = m.num  BY Zenon, <1>2, <1>3 DEF ShapeInv
<1>22. m.hdr % SeqSize = m.num % SeqSize  BY ONLY <1>2, <1>4, ModMod, CounterSize
<1>23. p.num = m.num /\ p.op = "ACK" /\ PacketInv(p)'
  <2>1. /\ p.to = "peer" /\ p.op = "ACK" /\ p.tid = m.tid /\ p.num = m.num
        /\ p.port = tftp_our_port /\ p.hdr = m.num % SeqSize
    BY Zenon, <1>22 DEF Packet
  <2>2. m.num <= seen'[m.tid]  BY Zenon, <1>2, <1>21, NatOrder
  <2> QED BY Zenon, <1>2, <1>6, <2>1, <2>2 DEF PacketInv, PeerPacketInv
<1>24. net' \subseteq net \cup {p}  BY Zenon, <1>19, TakenSub
<1> HIDE DEF ack
<1>25. (\A q \in net : PacketInv(q))'  BY Zenon, <1>2, <1>20, <1>23, <1>24, HostPackets
<1>26. ASSUME NEW q \in net, q.op = "ACK", q.port = tftp_our_port
       PROVE  q.num <= m.num
  <2>1. CASE tftp_state = "SEND_RRQ"  BY <1>3, <1>26, <2>1 DEF StateInv, RequestInv
  <2>2. CASE tftp_state \in {"OACK", "DATA"}
    <3>1. q.num <= cur_num  BY Zenon, <1>3, <1>26, <2>2 DEF StateInv, LockedInv
    <3>2. q.num \in Nat  BY Zenon DEF GetInv, PacketInv
    <3> QED BY ONLY Zenon, <1>5, <1>7, <3>1, <3>2, NatOrder
  <2> QED BY Zenon, <1>2, <2>1, <2>2
<1>27. tftp_our_port \in Ports
  BY Zenon, <1>2, <1>3 DEF StateInv, RequestInv, LockedInv
<1>28. LockedInv'
  <2>1. \A q \in net' : q.op = "ACK" /\ q.port = tftp_our_port => q.num <= m.num
    BY Zenon, <1>2, <1>23, <1>24, <1>26, NatOrder
  <2>2. m.num <= seen'[m.tid] /\ m.num = seen'[m.tid]  BY Zenon, <1>2, <1>21, NatOrder
  <2> QED BY ZenonT(30), <1>2, <1>4, <1>6, <1>17, <1>27, <2>1, <2>2 DEF LockedInv
<1>29. StateInv'  BY <1>2, <1>17, <1>18, <1>28 DEF StateInv
<1> QED BY Zenon, <1>2, <1>13, <1>16, <1>20, <1>25, <1>29 DEF GetInv
-----------------------------------------------------------------------------
\* What tftpboot never does when blocks come in order: take an ACK or a write
\* request, or meet a first block other than block 1.
LEMMA NeverTaken ==
  ASSUME InOrder, GetInv, NEW m \in net
  PROVE  ~RecvAck(m) /\ ~RecvWrq(m) /\ ~RecvDataNotFirst(m)
<1>1. ~RecvAck(m)  BY Zenon, AcceptedFacts DEF RecvAck
<1>2. ~RecvWrq(m)  BY Zenon, AcceptedFacts DEF RecvWrq
<1>3. ~RecvDataNotFirst(m)  BY Zenon, DataFacts DEF RecvDataNotFirst
<1> QED BY Zenon, <1>1, <1>2, <1>3

\* Every step keeps the invariant.
LEMMA NextInv ==
  ASSUME InOrder, GetInv, [Next]_vars
  PROVE  GetInv'
<1>1. CASE net_loop
  <2>1. StartProtocol /\ protocol' = "TFTPGET"
    BY Zenon, <1>1 DEF net_loop, InOrder
  <2> QED BY Zenon, <2>1, StartInv
<1>2. CASE Receive
  <2>1. CASE RecvIcmp  BY Zenon, <2>1, IcmpInv
  <2>2. CASE \E m \in net :
               \/ Ignore(m) \/ RecvAck(m) \/ RecvWrq(m) \/ RecvOack(m)
               \/ RecvDataNotFirst(m) \/ RecvDataSame(m) \/ RecvData(m)
               \/ RecvError(m)
    BY Zenon, <2>2, NeverTaken, IgnoreInv, RecvOackInv, RecvDataSameInv, RecvDataInv,
       RecvErrorInv
  <2> QED BY Zenon, <1>2, <2>1, <2>2 DEF Receive
<1>3. CASE Timer  BY Zenon, <1>3, TimeoutInv, IcmpInv DEF Timer
<1>4. CASE Switch
  <2>1. CASE SwitchRestart \/ SwitchRetry
    <3>1. StartProtocol /\ protocol' = "TFTPGET"
      BY Zenon, <2>1 DEF SwitchRestart, SwitchRetry, GetInv, StateInv
    <3> QED BY Zenon, <3>1, StartInv
  <2> QED BY Zenon, <1>4, <2>1, LeaveInv DEF Switch
<1>5. CASE CtrlC  BY Zenon, <1>5, LeaveInv
<1>6. CASE Peer
  BY Zenon, <1>6, ServerRequestInv, SenderAckInv, OtherPeerInv DEF Peer
<1>7. CASE Lose  BY Zenon, <1>7, OtherPeerInv
<1>8. CASE UNCHANGED vars
  BY Zenon, <1>8, QuietStep
     DEF vars, loopVars, handlerVars, loadVars, blockVars, connVars, putVars,
         peerVars
<1> QED BY <1>1, <1>2, <1>3, <1>4, <1>5, <1>6, <1>7, <1>8 DEF Next

\* The invariant says what the properties say.
LEMMA InvImplies ==
  ASSUME InOrder, GetInv
  PROVE  LoadIntegrity /\ StoreExtent /\ AckedIsStored
<1> USE TftpAssumption
<1>1. LoadIntegrity
  BY DEF GetInv, DoneInv, Stored, InMem, LoadIntegrity, Done
<1>2. StoreExtent  BY Zenon DEF GetInv, MemInv, StoreExtent
<1>3. AckedIsStored
  <2> SUFFICES ASSUME NEW m \in net, m.to = "peer", m.op = "ACK",
                      m.port = tftp_our_port, NEW a \in 0..(FileLen - 1),
                      a < m.num * tftp_block_size
               PROVE  InMem(a)
    BY Zenon DEF AckedIsStored, InMem
  <2>1. /\ ShapeInv /\ StateInv /\ m.num \in Nat /\ m.tid \in Tids
        /\ sess[m.tid].kind = "send" /\ m.port \in Ports
    BY Zenon DEF GetInv, PacketInv, PeerPacketInv, SessInv
  <2>2. CASE tftp_state \in {"none", "SEND_RRQ"}
    BY Zenon, <2>1, <2>2 DEF StateInv, RequestInv
  <2>3. CASE tftp_state \in {"OACK", "DATA"}
    <3>1. /\ m.num <= cur_num /\ cur_num \in Nat
          /\ tftp_block_size \in Nat
      BY Zenon, <2>1, <2>3 DEF StateInv, LockedInv, ShapeInv, Session
    <3>2. tftp_block_size * m.num <= tftp_block_size * cur_num
      BY <2>1, <3>1, MulMono
    <3>3. a < cur_num * tftp_block_size  BY <2>1, <3>1, <3>2
    <3>4. tftp_state = "DATA"  BY <2>1, <2>3, <3>1, <3>3 DEF StateInv
    <3> QED BY Zenon, <2>1, <3>3, <3>4 DEF StateInv, DataInv, Stored
  <2> QED BY Zenon, <2>1, <2>2, <2>3 DEF StateInv
<1> QED BY Zenon, <1>1, <1>2, <1>3

\* A transfer stays with the session that answered first.
LEMMA LockStep ==
  ASSUME InOrder, GetInv, [Next]_vars,
         tftp_state \in {"OACK", "DATA"}, tftp_state' \in {"OACK", "DATA"}
  PROVE  UNCHANGED tftp_remote_port
<1>1. ASSUME StartProtocol, protocol' = "TFTPGET" PROVE FALSE
  BY Zenon, <1>1 DEF StartProtocol, tftp_start
<1>2. CASE net_loop  BY Zenon, <1>1, <1>2 DEF net_loop, InOrder
<1>3. CASE Receive
  <2>1. CASE RecvIcmp  BY Zenon, <2>1 DEF RecvIcmp, connVars
  <2>2. ASSUME NEW m \in net,
               \/ Ignore(m) \/ RecvAck(m) \/ RecvWrq(m) \/ RecvOack(m)
               \/ RecvDataNotFirst(m) \/ RecvDataSame(m) \/ RecvData(m)
               \/ RecvError(m)
        PROVE  UNCHANGED tftp_remote_port
    <3>1. CASE Ignore(m)  BY Zenon, <3>1 DEF Ignore, connVars
    <3>2. CASE RecvOack(m)  BY Zenon, <3>2, AcceptedFacts DEF RecvOack
    <3>3. CASE RecvDataSame(m)  BY Zenon, <3>3 DEF RecvDataSame, connVars
    <3>4. CASE RecvData(m)  BY Zenon, <3>4, AcceptedFacts DEF RecvData
    <3>5. CASE RecvError(m)  BY Zenon, <3>5 DEF RecvError, connVars
    <3> QED BY Zenon, <2>2, <3>1, <3>2, <3>3, <3>4, <3>5, NeverTaken
  <2> QED BY Zenon, <1>3, <2>1, <2>2 DEF Receive
<1>4. CASE Timer
  <2>1. UNCHANGED connVars
    BY Zenon, <1>4 DEF Timer, tftp_timeout_handler, start_again_timeout_handler
  <2> QED BY Zenon, <2>1 DEF connVars
<1>5. CASE Switch \/ CtrlC
  <2>1. CASE SwitchRestart \/ SwitchRetry
    BY Zenon, <1>1, <2>1 DEF SwitchRestart, SwitchRetry, GetInv, StateInv
  <2> QED BY Zenon, <1>5, <2>1
          DEF Switch, SwitchSuccess, SwitchFail, CtrlC, Leave, connVars
<1>6. CASE Peer \/ Lose
  <2>1. UNCHANGED hostVars
    <3>1. ASSUME NEW m \in net, ServerRequest(m) PROVE UNCHANGED hostVars
      BY Zenon, <3>1 DEF ServerRequest, Reaches
    <3>2. ASSUME NEW m \in net, NEW t \in Tids, SenderAck(m, t) PROVE UNCHANGED hostVars
      BY Zenon, <3>2 DEF SenderAck, Reaches
    <3>3. ASSUME NEW m \in net, NEW t \in Tids, ReceiverData(m, t) PROVE UNCHANGED hostVars
      BY Zenon, <3>3 DEF ReceiverData, Reaches
    <3>4. CASE RemoteWrq \/ PeerTimeout \/ Lose
      BY Zenon, <3>4 DEF RemoteWrq, PeerTimeout, Lose
    <3> QED BY Zenon, <1>6, <3>1, <3>2, <3>3, <3>4 DEF Peer
  <2> QED BY Zenon, <2>1 DEF hostVars, connVars
<1>7. CASE UNCHANGED vars  BY Zenon, <1>7 DEF vars, connVars
<1> QED BY Zenon, <1>2, <1>3, <1>4, <1>5, <1>6, <1>7 DEF Next

\* The invariant holds in every reachable state.
THEOREM GetInvariant == ASSUME InOrder PROVE Spec => []GetInv
<1>1. Init => GetInv  BY Zenon, InitInv
<1>2. GetInv /\ [Next]_vars => GetInv'  BY Zenon, NextInv
<1> QED BY <1>1, <1>2, PTL DEF Spec

\* For any file, block sizes, counter width and number of sessions: when
\* tftpboot reports success, the file is in memory, byte for byte, and
\* net_boot_file_size is its length.
THEOREM LoadIntegrityHolds == ASSUME InOrder PROVE Spec => []LoadIntegrity
<1>1. GetInv => LoadIntegrity  BY Zenon, InvImplies
<1>2. Spec => []GetInv  BY Zenon, GetInvariant
<1> QED BY <1>1, <1>2, PTL

\* store_block writes only where the file belongs.
THEOREM StoreExtentHolds == ASSUME InOrder PROVE Spec => []StoreExtent
<1>1. GetInv => StoreExtent  BY Zenon, InvImplies
<1>2. Spec => []GetInv  BY Zenon, GetInvariant
<1> QED BY <1>1, <1>2, PTL

\* What tftpboot has acknowledged it has stored.
THEOREM AckedIsStoredHolds == ASSUME InOrder PROVE Spec => []AckedIsStored
<1>1. GetInv => AckedIsStored  BY Zenon, InvImplies
<1>2. Spec => []GetInv  BY Zenon, GetInvariant
<1> QED BY <1>1, <1>2, PTL

\* The port checks of tftp_handler bind a transfer to one session.
THEOREM SessionLockHolds == ASSUME InOrder PROVE Spec => SessionLock
<1>1. GetInv /\ [Next]_vars =>
        [(tftp_state \in {"OACK", "DATA"} /\ tftp_state' \in {"OACK", "DATA"})
          => UNCHANGED tftp_remote_port]_vars
  BY Zenon, LockStep
<1>2. Spec => []GetInv  BY Zenon, GetInvariant
<1> QED BY <1>1, <1>2, PTL DEF Spec, SessionLock
=============================================================================
