-------------------------------- MODULE Lmb ---------------------------------
(***************************************************************************)
(* The logical memory blocks, lib/lmb.c: which memory is taken while bootm *)
(* places the kernel, the ramdisk and the device tree.  The callers are    *)
(* external: common/image.c, common/image-fdt.c and arch_lmb_reserve,      *)
(* whose block from Sp to the top is there from the start, and is kept.    *)
(***************************************************************************)
EXTENDS Integers, Sequences, FiniteSets, FiniteSetsExt, Functions

CONSTANTS
  Bits,                    \* the width of phys_addr_t and phys_size_t
  MemBase, MemTop, Sp,     \* the memory, and where the stack of U-Boot begins
  MAX_LMB_REGIONS,
  BlockSizes, Aligns,
  Limits,                  \* what max_addr may be, LMB_ALLOC_ANYWHERE for lmb_alloc
  MaxBlocks                \* bound: the blocks taken

LMB_ALLOC_ANYWHERE == 0

Word == 2 ^ Bits
PowersOfTwo == {2 ^ k : k \in 0..(Bits - 1)}

\* The memory ends an alignment or more below the top of the address space.
ASSUME LmbAssumption ==
  /\ Word \in Nat
  /\ MemBase \in Nat \ {0} /\ MemTop \in Nat /\ Sp \in MemBase..(MemTop - 1)
  /\ \A align \in Aligns : MemTop + align <= Word
  /\ MemTop < Word
  /\ {MAX_LMB_REGIONS} \cup BlockSizes \cup Aligns \subseteq Nat \ {0}
  /\ Limits \subseteq Nat

\* the callers' alignments are 0x1000 and 0xf
ASSUME AlignAssumption == Aligns \subseteq PowersOfTwo \cup {p - 1 : p \in PowersOfTwo}

VARIABLES
  reserved,      \* reserved.region[0 .. cnt-1]
  blocks,        \* history: what callers have reserved or been given
  sound,         \* history: no call has found the table full, and none has
                 \* added to it what was there already
  over           \* history: a region went over the top of the address space

lmbVars == <<reserved, blocks, sound, over>>

\* arithmetic of unsigned words
Plus(a, b) == (a + b) % Word
Minus(a, b) == (a - b) % Word

Block(b, n) == [base |-> b, size |-> n]
End(r) == Plus(r.base, r.size)
Bytes(r) == r.base..(End(r) - 1)
Overlaps(r, s) == r.base < End(s) /\ s.base < End(r)
Adjacent(r, s) == s.base = End(r) \/ r.base = End(s)

-----------------------------------------------------------------------------
lmb_remove_region(rgn, i) == SubSeq(rgn, 1, i - 1) \o SubSeq(rgn, i + 1, Len(rgn))

\* the regions from i on make room for r
PutAt(rgn, i, r) == SubSeq(rgn, 1, i - 1) \o <<r>> \o SubSeq(rgn, i, Len(rgn))

\* region i is merged with the next if it now touches it
lmb_coalesce_regions(rgn, i) ==
  IF i < Len(rgn) /\ Adjacent(rgn[i], rgn[i + 1])
  THEN lmb_remove_region([rgn EXCEPT ![i].size = Plus(@, rgn[i + 1].size)], i + 1)
  ELSE rgn

\* Into the sorted table, after the last region that begins no higher; the
\* first region is written once more when it begins higher.
Insert(rgn, r) ==
  LET p == Max({0} \cup {i \in DOMAIN rgn : r.base >= rgn[i].base})
      longer == PutAt(rgn, p + 1, r)
  IN IF r.base < rgn[1].base THEN [longer EXCEPT ![1] = r] ELSE longer

\* lmb_add_region: what becomes of the table, and whether there was room.  A
\* table with one region of no bytes is an empty one.
lmb_add_region(rgn, r) ==
  LET empty == Len(rgn) = 1 /\ rgn[1].size = 0
      near == {i \in DOMAIN rgn : rgn[i] = r \/ Adjacent(r, rgn[i])}
      i == Min(near)
  IN CASE empty -> [rgn |-> <<r>>, ok |-> TRUE]
       [] ~empty /\ near # {} /\ rgn[i] = r -> [rgn |-> rgn, ok |-> TRUE]
       [] ~empty /\ near # {} /\ rgn[i] # r ->
            [rgn |-> lmb_coalesce_regions(
                       [rgn EXCEPT ![i] = Block(IF @.base = End(r) THEN r.base ELSE @.base,
                                                Plus(@.size, r.size))], i),
             ok |-> TRUE]
       [] ~empty /\ near = {} /\ Len(rgn) >= MAX_LMB_REGIONS -> [rgn |-> rgn, ok |-> FALSE]
       [] OTHER -> [rgn |-> Insert(rgn, r), ok |-> TRUE]

\* Mutant: what follows the hole is forgotten.
HoleLost(rgn, i, r) ==
  [rgn |-> [rgn EXCEPT ![i].size = Minus(r.base, rgn[i].base)], ok |-> TRUE]

\* a hole in region i: the region ends before it, and a new one follows
MakeHole(rgn, i, r) ==
  lmb_add_region([rgn EXCEPT ![i].size = Minus(r.base, rgn[i].base)],
                 Block(End(r), Minus(End(rgn[i]), End(r))))

lmb_free(rgn, r) ==
  LET around == {i \in DOMAIN rgn : rgn[i].base <= r.base /\ End(r) <= End(rgn[i])}
      i == Min(around)
  IN CASE around = {} -> [rgn |-> rgn, ok |-> FALSE]
       [] around # {} /\ rgn[i] = r -> [rgn |-> lmb_remove_region(rgn, i), ok |-> TRUE]
       [] around # {} /\ rgn[i] # r /\ rgn[i].base = r.base ->
            [rgn |-> [rgn EXCEPT ![i] = Block(End(r), Minus(@.size, r.size))], ok |-> TRUE]
       [] around # {} /\ rgn[i].base # r.base /\ End(rgn[i]) = End(r) ->
            [rgn |-> [rgn EXCEPT ![i].size = Minus(@, r.size)], ok |-> TRUE]
       [] OTHER -> MakeHole(rgn, i, r)

\* a & ~(align - 1), where the bits of align - 1 follow one another, from the
\* lowest for a power of two and from the second for one less than it
lmb_align_down(a, align) ==
  LET low == IF align % 2 = 0 THEN 1 ELSE 2
  IN a - low * ((a \div low) % ((align - 1) \div low + 1))

lmb_align_up(n, align) == lmb_align_down(Plus(n, align - 1), align)

\* Mutant: the search goes on below the block, not below the region in the way.
BelowBlock(b, res, n) == Minus(b, n)

Below(b, res, n) == Minus(res, n)

\* Where __lmb_alloc_base puts n bytes, 0 for nowhere.  A limit below n is not
\* looked for: the first place that is tried is then near the top of the
\* address space.
Place(rgn, n, align, limit) ==
  LET try[b \in 0..(Word - 1)] ==
        LET inWay == {i \in DOMAIN rgn : Overlaps(Block(b, n), rgn[i])}
            res == rgn[Min(inWay)].base
        IN CASE b < MemBase -> 0
             [] b >= MemBase /\ inWay = {} -> b
             [] b >= MemBase /\ inWay # {} /\ res < n -> 0
             [] OTHER -> try[lmb_align_down(Below(b, res, n), align)]
      top == IF limit = LMB_ALLOC_ANYWHERE THEN MemTop ELSE Min({MemTop, limit})
  IN IF MemTop - MemBase < n \/ top <= MemBase THEN 0
     ELSE try[lmb_align_down(Minus(top, n), align)]

-----------------------------------------------------------------------------
Disjoint(r) == \A s \in Range(reserved) : ~Overlaps(r, s)

\* block r is taken, and with it what follows up to size bytes
Take(r, size) ==
  LET all == Block(r.base, size)
      result == lmb_add_region(reserved, all)
  IN /\ reserved' = result.rgn
     /\ sound' = (sound /\ result.ok /\ Disjoint(all))
     /\ over' = (over \/ all.base + all.size >= Word)
     /\ blocks' = IF result.ok THEN blocks \cup {r} ELSE blocks

\* lmb_reserve, of a part of memory that is free
lmb_reserve ==
  ~over /\ \E b \in MemBase..(MemTop - 1), n \in BlockSizes :
    /\ b + n <= MemTop /\ Disjoint(Block(b, n))
    /\ Cardinality(blocks) < MaxBlocks
    /\ Take(Block(b, n), n)

\* lmb_alloc_base: the size that is taken is rounded up
lmb_alloc_base ==
  ~over /\ \E n \in BlockSizes, align \in Aligns, limit \in Limits :
    \E b \in {Place(reserved, n, align, limit)} \cap 1..(Word - 1) :
      /\ Cardinality(blocks) < MaxBlocks
      /\ Take(Block(b, n), lmb_align_up(n, align))

\* image_setup_libfdt: the block of the device tree is freed, and as much of
\* it taken again as the tree needs
lmb_free_reserve ==
  ~over /\ \E r \in blocks : \E n \in 1..r.size :
    LET freed == lmb_free(reserved, r)
        again == lmb_add_region(freed.rgn, Block(r.base, n))
    IN /\ r.base # Sp
       /\ reserved' = again.rgn /\ blocks' = (blocks \ {r}) \cup {Block(r.base, n)}
       /\ sound' = (sound /\ freed.ok /\ again.ok)
       /\ UNCHANGED over

\* boot_start_lmb: another bootm, after one that has failed
boot_start_lmb ==
  /\ reserved' = <<Block(Sp, MemTop - Sp)>> /\ blocks' = {Block(Sp, MemTop - Sp)}
  /\ sound' = TRUE /\ over' = FALSE

LmbInit ==
  /\ reserved = <<Block(Sp, MemTop - Sp)>> /\ blocks = {Block(Sp, MemTop - Sp)}
  /\ sound = TRUE /\ over = FALSE

(* Nothing follows a region over the top of the address space but another  *)
(* bootm: the caller goes on to write where there is no memory.            *)
LmbNext == lmb_reserve \/ lmb_alloc_base \/ lmb_free_reserve \/ boot_start_lmb

LmbSpec == LmbInit /\ [][LmbNext]_lmbVars

-----------------------------------------------------------------------------
\* Nothing that was taken is forgotten: every byte of every block is in a
\* region of the table, whatever regions were merged and split.  This is so
\* until a call finds the table full, or adds what is there already: the
\* rounding of lmb_alloc_base may do that, and a table with regions that
\* overlap is not kept sorted, and loses one.  Nor does it hold once a limit
\* smaller than the block has put a region over the top of the address space.
Kept ==
  sound /\ ~over =>
    \A r \in blocks : Bytes(r) \subseteq UNION {Bytes(s) : s \in Range(reserved)}

\* Whatever lmb_alloc_base returns is free memory below the limit.  For a power
\* of two it is the highest place that is aligned, and there is none when the
\* call fails.  This leaves out a limit that is smaller than the block, and the
\* table that a region over the top of the address space makes useless.
Highest ==
  ~over => \A n \in BlockSizes, align \in Aligns, limit \in Limits :
    limit = LMB_ALLOC_ANYWHERE \/ limit >= n =>
    LET top == IF limit = LMB_ALLOC_ANYWHERE THEN MemTop ELSE Min({MemTop, limit})
        free == {b \in MemBase..(top - n) :
                   \A s \in Range(reserved) : Bytes(Block(b, n)) \cap Bytes(s) = {}}
        place == Place(reserved, n, align, limit)
    IN /\ place \in {0} \cup free
       /\ align \in PowersOfTwo => place = Max({0} \cup {b \in free : b % align = 0})
=============================================================================
