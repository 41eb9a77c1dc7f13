----------------------------- MODULE EnvSerial ------------------------------
(***************************************************************************)
(* The choice between two copies told apart by a serial number, as         *)
(* env_mmc.c and env_nand.c make it.  The serial is the flags byte of the  *)
(* copy: saveenv counts it up, and it wraps from MaxSerial (255) to 0.     *)
(***************************************************************************)
EXTENDS EnvBase

CONSTANTS
  MaxSerial,
  Horizon      \* no save is started at this serial; above MaxSerial, no bound

ASSUME SerialAssumption == MaxSerial \in 2..255 /\ Horizon \in Nat

VARIABLE env_flags   \* the serial written last

vars == <<copy, active, env, pc, result, loaded, clean, saved, maybe, env_flags>>

Init == BaseInit /\ env_flags = 0

\* Mutant: the wrap of the serial is not looked at.
ChooseLarger(ok) ==
  IF ok[2] /\ (ok[1] => copy[2].flags > copy[1].flags) THEN 2 ELSE 1

\* the choice of env_relocate_spec, given which copies have a good CRC
Choose(ok) ==
  LET f1 == copy[1].flags
      f2 == copy[2].flags
      Newer == \/ f1 = MaxSerial /\ f2 = 0
               \/ f2 > f1 /\ ~(f2 = MaxSerial /\ f1 = 0)
  IN IF ok[2] /\ (ok[1] => Newer) THEN 2 ELSE 1

Crc == [c \in Copies |-> copy[c].crc]

\* what a boot that meets no fault loads
Pick == IF copy[Choose(Crc)].crc THEN copy[Choose(Crc)].data ELSE Default

\* env_flags is a static variable: 0 until a copy has been chosen
SerialOf(ok) == IF \E c \in Copies : ok[c] THEN copy[Choose(ok)].flags ELSE 0

\* a boot that cannot read the copies in lost
ImportOthers(lost) ==
  LET ok == [c \in Copies |-> copy[c].crc /\ c \notin lost]
      c == Choose(ok)
  IN /\ ImportFault(c, IF ok[c] THEN copy[c].data ELSE Default)
     /\ env_flags' = SerialOf(ok)

\* env_init, env_relocate, env_relocate_spec
env_relocate_spec ==
  /\ pc = "off"
  /\ \/ Import(Choose(Crc)) /\ env_flags' = SerialOf(Crc)
     \/ /\ "import" \in BootFaults
        /\ ImportFault(Choose(Crc), Default) /\ env_flags' = SerialOf(Crc)
     \/ "init" \in BootFaults /\ ImportFault(1, Default) /\ env_flags' = 0
     \/ "read1" \in BootFaults /\ ImportOthers({1})
     \/ "read2" \in BootFaults /\ ImportOthers({2})

\* Mutant: the serial does not wrap.
NextSerialNoWrap == env_flags + 1

NextSerial == (env_flags + 1) % (MaxSerial + 1)

EnvNew == [crc |-> TRUE, flags |-> env_flags, data |-> env]

-----------------------------------------------------------------------------
\* saveenv has returned success only when the next boot loads what it saved.
SavedIsLoaded == result = "ok" => Pick = saved
=============================================================================
