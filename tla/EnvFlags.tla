------------------------------ MODULE EnvFlags ------------------------------
(***************************************************************************)
(* The choice between two copies told apart by a flag byte, as env_sf.c    *)
(* and env_flash.c make it.  0xFF is the flag byte of an erased copy.      *)
(***************************************************************************)
EXTENDS EnvBase

OBSOLETE_FLAG == 0
ACTIVE_FLAG == 1

\* Mutant: the flags are not looked at.
ChooseKeepFirst(ok) == IF ok[1] THEN 1 ELSE 2

\* the choice of env_relocate_spec, given which copies have a good CRC
Choose(ok) ==
  LET f1 == copy[1].flags
      f2 == copy[2].flags
  IN IF \/ ok[2] /\ ~ok[1]
        \/ /\ ok[1] /\ ok[2]
           /\ \/ f1 = OBSOLETE_FLAG /\ f2 = ACTIVE_FLAG
              \/ f1 # 255 /\ f2 = 255
     THEN 2 ELSE 1

Crc == [c \in Copies |-> copy[c].crc]

\* what a boot that meets no fault loads
Pick == IF copy[Choose(Crc)].crc THEN copy[Choose(Crc)].data ELSE Default

\* saveenv has returned success only when the next boot loads what it saved.
SavedIsLoaded == result = "ok" => Pick = saved

\* Whenever the power fails, the next boot loads the environment saved last
\* or one whose save has not completed.
Durable == Pick \in {saved} \cup maybe \cup {req}
=============================================================================
