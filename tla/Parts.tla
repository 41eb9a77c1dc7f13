------------------------------- MODULE Parts --------------------------------
(***************************************************************************)
(* Instances for TLC of the parts that share no state with another one:    *)
(* the stores of the environment, its hash table, the memory blocks of     *)
(* bootm, the reassembly of packets and ARP.  A behaviour is one of the    *)
(* part that was chosen at its start; the others stay as they begin.       *)
(***************************************************************************)
EXTENDS EnvStores, Hashtable, Lmb, Defragment, Arp, Bitwise

\* lmb_align_down masks the bits of align - 1 out of an address.
ASSUME AlignMasks ==
  \A a \in 0..(Word - 1), align \in PowersOfTwo \cup ({p - 1 : p \in PowersOfTwo} \ {0}) :
    lmb_align_down(a, align) = a & (Word - 1 - (align - 1))

CONSTANT Chosen    \* the parts to choose from

VARIABLE part

partsVars == <<storesVars, htVars, lmbVars, dfVars, arpVars, part>>

PartsInit ==
  /\ part \in Chosen
  /\ StoresInit /\ (part # "stores" => board = "mmc" /\ ~worn)
  /\ HtInit /\ LmbInit /\ DfInit /\ ArpInit

PartsNext ==
  /\ UNCHANGED part
  /\ \/ part = "stores" /\ StoresNext /\ UNCHANGED <<htVars, lmbVars, dfVars, arpVars>>
     \/ part = "hashtable" /\ HtNext /\ UNCHANGED <<storesVars, lmbVars, dfVars, arpVars>>
     \/ part = "lmb" /\ LmbNext /\ UNCHANGED <<storesVars, htVars, dfVars, arpVars>>
     \/ /\ part = "defragment" /\ __net_defragment
        /\ UNCHANGED <<storesVars, htVars, lmbVars, arpVars>>
     \/ part = "arp" /\ ArpNext /\ UNCHANGED <<storesVars, htVars, lmbVars, dfVars>>

PartsSpec == PartsInit /\ [][PartsNext]_partsVars

-----------------------------------------------------------------------------
\* After any calls a search (hsearch_r) finds for each name what was last set, as
\* long as a slot of the table has never been used.
TableFound == part = "hashtable" => Found

\* What hexport_r and hwalk_r see is what a search finds, each variable once.
TableWalked == part = "hashtable" => Walked

\* lmb_alloc_base returns free memory below its limit, for a power of two the
\* highest aligned place, and fails only when there is none, whatever bootm has
\* done to the table.  A limit smaller than the block is left out.
HighestFree == part = "lmb" => Highest

\* a and b begin their search in the same slot, d where c's goes on
NameHash == [k \in Names |-> CASE k = "a" -> 1 [] k = "b" -> 6 [] k = "c" -> 3 [] k = "d" -> 10]

Entry(k, v) == [name |-> k, value |-> v]

\* an empty text, one with a deletion of what it sets, one that sets twice
SomeTexts ==
  {<< >>,
   <<Entry("a", "x"), Entry("b", "y")>>,
   <<Entry("b", "x"), Entry("a", "x"), Entry("b", NoValue)>>,
   <<Entry("c", "x"), Entry("c", "y")>>}

\* a datagram of six fragments, of one or two blocks, the last one of a byte,
\* and one of three
PacketLength == [d \in Ids |-> IF d = 1 THEN 15 ELSE 8]
PacketCuts == [d \in Ids |-> IF d = 1 THEN {1, 3, 4, 6, 7} ELSE {1, 3}]
=============================================================================
