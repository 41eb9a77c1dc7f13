----------------------------- MODULE Defragment -----------------------------
(***************************************************************************)
(* The reassembly of IP fragments, __net_defragment of net/net.c.  What is *)
(* missing is a list of holes, kept in the missing parts of the packet     *)
(* itself: a hole has its descriptor in its first block.  The senders are  *)
(* external: a datagram is cut in one way, its fragments come in any       *)
(* order, are lost or come again, and mix with those of other datagrams.   *)
(* No fragment comes once its datagram is complete: the descriptors are    *)
(* overwritten then, and the code reads them all the same.                 *)
(***************************************************************************)
EXTENDS Integers, FiniteSetsExt

CONSTANTS
  Ids,           \* datagrams, by ip_id
  Length,        \* of each, in bytes
  Cuts,          \* for each the blocks where a fragment begins, 0 apart
  BlockLen,      \* bytes in a block: 8
  InAnyOrder     \* whether a fragment may come before the first of its datagram

Ceiling(n) == (n + BlockLen - 1) \div BlockLen

ASSUME DefragmentAssumption ==
  /\ InAnyOrder \in BOOLEAN
  /\ BlockLen \in Nat \ {0} /\ Length \in [Ids -> Nat \ {0}]
  /\ \A d \in Ids : Cuts[d] # {} /\ Cuts[d] \subseteq 1..(Ceiling(Length[d]) - 1)

\* the fragments of a datagram
Fragments(d) ==
  LET starts == Cuts[d] \cup {0}
      Next_(b) == Min({c \in starts : c > b})
  IN {[id |-> d, offset8 |-> b, more |-> b # Max(starts),
       len |-> (IF b = Max(starts) THEN Length[d] ELSE Next_(b) * BlockLen) - b * BlockLen]
        : b \in starts}

NBlocks == Ceiling(Max({Length[d] : d \in Ids}))
Far == (NBlocks + 1) * BlockLen        \* 0xffff

VARIABLES
  payload,             \* each block a hole descriptor, or data
  first_hole, total_len,
  ip_id,
  got,                 \* history: the fragments received since the last reset
  delivered            \* the last packet returned: its length and blocks

dfVars == <<payload, first_hole, total_len, ip_id, got, delivered>>

Hole(last, next, prev) == [last |-> last, next |-> next, prev |-> prev]
Data(d, b) == [id |-> d, block |-> b]
Nothing == [len |-> 0]

-----------------------------------------------------------------------------
Before(last, start) == last < start

\* the first hole from hole h on that does not end before start, -1 for none
FindHole(pl, h, start) ==
  LET walk[i \in 0..NBlocks] ==
        CASE ~Before(pl[i].last, start) -> i
          [] Before(pl[i].last, start) /\ pl[i].next = 0 -> -1
          [] OTHER -> walk[pl[i].next]
  IN walk[h]

\* hole h is not one any more
Unlink(s, h) ==
  LET hole == s.payload[h]
      fixNext == IF hole.next = 0 THEN s.payload
                 ELSE [s.payload EXCEPT ![hole.next].prev = hole.prev]
  IN CASE hole.prev = 0 /\ hole.next = 0 -> [s EXCEPT !.done = TRUE]
       [] hole.prev = 0 /\ hole.next # 0 -> [s EXCEPT !.first = hole.next, !.payload = fixNext]
       [] OTHER -> [s EXCEPT !.payload = [fixNext EXCEPT ![hole.prev].next = hole.next]]

\* hole h begins at block n instead
Move(s, h, n) ==
  LET hole == s.payload[h]
      moved == [s.payload EXCEPT ![n] = hole]
      fixNext == IF hole.next = 0 THEN moved ELSE [moved EXCEPT ![hole.next].prev = n]
  IN IF hole.prev = 0 THEN [s EXCEPT !.payload = fixNext, !.first = n]
     ELSE [s EXCEPT !.payload = [fixNext EXCEPT ![hole.prev].next = n]]

\* Mutant: the hole after the new one still points back to the old one.
SplitHalf(s, h, n, start) ==
  LET hole == s.payload[h]
  IN [s EXCEPT !.payload = [s.payload EXCEPT ![n] = [hole EXCEPT !.prev = h],
                                             ![h] = [hole EXCEPT !.last = start]]]

\* hole h ends at start, and another one begins at block n
Split(s, h, n, start) ==
  LET hole == s.payload[h]
      two == [s.payload EXCEPT ![n] = [hole EXCEPT !.prev = h],
                               ![h] = [hole EXCEPT !.last = start, !.next = n]]
  IN [s EXCEPT !.payload = IF hole.next = 0 THEN two
                           ELSE [two EXCEPT ![hole.next].prev = n]]

(* A fragment: the packet begins anew if it is of another datagram; the    *)
(* hole it falls in is removed, shortened, moved or split; the data goes   *)
(* where the hole was.                                                     *)
__net_defragment ==
  \E d \in Ids : \E f \in Fragments(d) :
    LET fresh == total_len = 0 \/ ip_id # d
        start == f.offset8 * BlockLen
        end == start + f.len
        pl == IF fresh THEN [payload EXCEPT ![0] = Hole(Far, 0, 0)] ELSE payload
        first == IF fresh THEN 0 ELSE first_hole
        h == FindHole(pl, first, start)
        fits == h >= 0 /\ f.offset8 + Ceiling(f.len) > h
        s == [payload |-> IF f.more THEN pl ELSE [pl EXCEPT ![h].last = end],
              first |-> first, done |-> FALSE]
        last == s.payload[h].last
        n == f.offset8 + (f.len \div BlockLen)
        t == CASE h >= f.offset8 /\ last <= end -> Unlink(s, h)
               [] h < f.offset8 /\ last <= end ->
                    [s EXCEPT !.payload = [s.payload EXCEPT ![h].last = start]]
               [] h >= f.offset8 /\ last > end -> Move(s, h, n)
               [] OTHER -> Split(s, h, n, start)
        filled == [b \in DOMAIN payload |->
                     IF b \in f.offset8..(f.offset8 + Ceiling(f.len) - 1)
                     THEN Data(d, b) ELSE t.payload[b]]
        length == IF ~f.more THEN end ELSE IF fresh THEN Far ELSE total_len
    IN /\ fresh => InAnyOrder \/ start = 0
       /\ ~(ip_id = d /\ got = Fragments(d))
       /\ ip_id' = d /\ got' = {f} \cup (IF fresh THEN {} ELSE got)
       /\ IF fits
          THEN /\ payload' = filled /\ first_hole' = t.first /\ total_len' = length
               /\ delivered' = IF t.done THEN [len |-> length, blocks |-> filled] ELSE Nothing
          ELSE /\ payload' = pl /\ first_hole' = first
               /\ total_len' = (IF fresh THEN Far ELSE total_len) /\ delivered' = Nothing

DfInit ==
  /\ payload = [b \in 0..NBlocks |-> Hole(0, 0, 0)] /\ first_hole = 0 /\ total_len = 0
  /\ ip_id = CHOOSE d \in Ids : TRUE
  /\ got = {} /\ delivered = Nothing

-----------------------------------------------------------------------------
\* A packet is returned just when the last missing fragment of its datagram has
\* come, in whatever order, whatever fragments came twice or were lost, and
\* whatever datagram was given up for it; and it is the datagram.
Reassembled ==
  IF got = Fragments(ip_id)
  THEN /\ delivered.len = Length[ip_id]
       /\ \A b \in 0..(Ceiling(Length[ip_id]) - 1) : delivered.blocks[b] = Data(ip_id, b)
  ELSE delivered = Nothing
=============================================================================
