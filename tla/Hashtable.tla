----------------------------- MODULE Hashtable ------------------------------
(***************************************************************************)
(* The hash table of the environment variables, lib/hashtable.c: double    *)
(* hashing in a table that never grows, where a deleted entry leaves a     *)
(* mark.  What decides whether a change is allowed (change_ok, callbacks)  *)
(* and the texts that are imported are external.                           *)
(***************************************************************************)
EXTENDS Integers, FiniteSets, SequencesExt

CONSTANTS
  Names,         \* of variables
  HashOf,        \* the hash of a name, before it is taken modulo the size
  VarValues,
  Texts,         \* the texts that are imported: each a sequence of entries
  Selections,    \* the sets of variables that may be imported, {} for all
  size,          \* of the table, a prime
  MaxCreates     \* bound: the entries ever created in one table

NoValue == "none"

ASSUME HashtableAssumption ==
  /\ size \in Nat /\ size >= 5 /\ \A d \in 2..(size - 1) : (size % d) # 0
  /\ HashOf \in [Names -> Nat] /\ NoValue \notin VarValues /\ MaxCreates \in Nat
  /\ Selections \subseteq SUBSET Names
  /\ \A t \in Texts : t \in Seq([name : Names, value : VarValues \cup {NoValue}])

VARIABLES
  htab,          \* the table and the number of its entries, filled
  creates,       \* history: the entries created
  meant          \* history: what each variable was last set to

htVars == <<htab, creates, meant>>

Slots == 1..size
Free == [used |-> 0, key |-> NoValue, data |-> NoValue]
Deleted == [Free EXCEPT !.used = -1]
hcreate_r == [table |-> [i \in Slots |-> Free], filled |-> 0]

-----------------------------------------------------------------------------
\* the first index tried for a name
hval(k) == IF (HashOf[k] % size) = 0 THEN 1 ELSE HashOf[k] % size

\* the index tried after n others
Probe(k, n) == ((hval(k) - 1 - n * (1 + (hval(k) % (size - 2)))) % size) + 1

Matches(t, k, i) == t.table[i].used = hval(k) /\ t.table[i].key = k

\* Mutant: a deleted entry ends the search.
StopsAtDeleted(t, k) ==
  LET Stops == {n \in 0..(size - 1) : \/ Matches(t, k, Probe(k, n))
                                      \/ t.table[Probe(k, n)].used <= 0}
  IN IF Stops = {} THEN hval(k)
     ELSE Probe(k, CHOOSE n \in Stops : \A m \in Stops : n <= m)

\* where the search for a name ends: at its entry, at a free slot or, when it
\* has been all around, where it began
Search(t, k) ==
  LET Stops == {n \in 0..(size - 1) : \/ Matches(t, k, Probe(k, n))
                                      \/ t.table[Probe(k, n)].used = 0}
  IN IF Stops = {} THEN hval(k)
     ELSE Probe(k, CHOOSE n \in Stops : \A m \in Stops : n <= m)

\* hsearch_r with FIND
Find(t, k) == IF Matches(t, k, Search(t, k)) THEN t.table[Search(t, k)].data ELSE NoValue

Creates(t, k) == ~Matches(t, k, Search(t, k)) /\ t.filled # size

\* Mutant: the slot is made free again.
_hdelete_free(t, i) ==
  [table |-> [t.table EXCEPT ![i] = Free], filled |-> t.filled - 1]

_hdelete(t, i) ==
  [table |-> [t.table EXCEPT ![i] = Deleted], filled |-> t.filled - 1]

\* hsearch_r with ENTER.  A deleted entry is used again only where the search
\* began; an entry that is then refused is deleted.
Enter(t, k, v, ok) ==
  LET i == IF t.table[hval(k)].used = -1 THEN hval(k) ELSE Search(t, k)
      new == [table |-> [t.table EXCEPT ![i] = [used |-> hval(k), key |-> k, data |-> v]],
              filled |-> t.filled + 1]
  IN CASE Matches(t, k, Search(t, k)) ->
            IF ok THEN [t EXCEPT !.table[Search(t, k)].data = v] ELSE t
       [] Creates(t, k) -> IF ok THEN new ELSE _hdelete(new, i)
       [] OTHER -> t

hdelete_r(t, k, ok) ==
  IF Matches(t, k, Search(t, k)) /\ ok THEN _hdelete(t, Search(t, k)) ELSE t

-----------------------------------------------------------------------------
\* one entry of a text, "name=value" or, to delete it, "name="
ImportEntry(t, e) ==
  IF e.value = NoValue THEN hdelete_r(t, e.name, TRUE) ELSE Enter(t, e.name, e.value, TRUE)

\* setenv and the like: the change is made, refused, or there is no room
SetVar ==
  \E k \in Names, v \in VarValues, ok \in BOOLEAN :
    /\ creates' = creates + (IF Creates(htab, k) THEN 1 ELSE 0) /\ creates' <= MaxCreates
    /\ htab' = Enter(htab, k, v, ok)
    /\ meant' = IF ok /\ (Creates(htab, k) \/ Matches(htab, k, Search(htab, k)))
              THEN [meant EXCEPT ![k] = v] ELSE meant

DeleteVar ==
  \E k \in Names, ok \in BOOLEAN :
    /\ htab' = hdelete_r(htab, k, ok)
    /\ meant' = IF ok THEN [meant EXCEPT ![k] = NoValue] ELSE meant
    /\ UNCHANGED creates

\* The import of one entry, if it is of a variable still wanted: w is the table
\* and the names that are; only the first entry of a name counts.
ImportWanted(w, e) ==
  IF e.name \in w.left THEN [t |-> ImportEntry(w.t, e), left |-> w.left \ {e.name}] ELSE w

DeleteAll(t, names) == FoldLeft(LAMBDA u, k : hdelete_r(u, k, TRUE), t, SetToSeq(names))

\* the value the first entry of a name gives it in a text
FirstValue(text, k) ==
  LET at == {i \in DOMAIN text : text[i].name = k}
  IN IF at = {} THEN NoValue ELSE text[Min(at)].value

(* himport_r of a text into a new table or into the one there is           *)
(* (H_NOCLEAR), of all its variables or of those that are wanted only.     *)
(* The wanted ones that the text does not have are deleted, but not when   *)
(* it is empty.                                                            *)
himport_r ==
  \E text \in Texts, wanted \in Selections, noclear \in BOOLEAN :
    LET old == IF noclear THEN htab ELSE hcreate_r
        was == IF noclear THEN meant ELSE [k \in Names |-> NoValue]
        w == FoldLeft(ImportWanted, [t |-> old, left |-> wanted], text)
    IN /\ creates' = Len(text) + (IF noclear THEN creates ELSE 0) /\ creates' <= MaxCreates
       /\ IF wanted = {} \/ text = << >>
          THEN /\ htab' = FoldLeft(ImportEntry, old, text)
               /\ meant' = FoldLeft(LAMBDA f, e : [f EXCEPT ![e.name] = e.value], was, text)
          ELSE /\ htab' = DeleteAll(w.t, w.left)
               /\ meant' = [k \in Names |-> IF k \in wanted THEN FirstValue(text, k)
                                            ELSE was[k]]

HtInit ==
  htab = hcreate_r /\ creates = 0 /\ meant = [k \in Names |-> NoValue]

HtNext == SetVar \/ DeleteVar \/ himport_r

-----------------------------------------------------------------------------
NeverUsedLeft == \E i \in Slots : htab.table[i].used = 0

\* The table is a map: after any calls, refused ones and deletions included, a
\* search (hsearch_r) finds for each name what was last set, as long as a slot
\* of the table has never been used.  Without one, a search that goes all around
\* ends where it began, and ENTER writes over the variable there.
Found == NeverUsedLeft => \A k \in Names : Find(htab, k) = meant[k]

\* Who walks the table (hexport_r, hwalk_r) sees what a search finds: each
\* variable in one slot, no entry no search would reach, and filled of them;
\* again as long as a slot has never been used.
Walked ==
  LET live == {i \in Slots : htab.table[i].used > 0}
  IN NeverUsedLeft =>
     /\ \A i \in live : Search(htab, htab.table[i].key) = i
     /\ Cardinality(live) = htab.filled
=============================================================================
