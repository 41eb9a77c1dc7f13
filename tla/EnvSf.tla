------------------------------- MODULE EnvSf --------------------------------
(***************************************************************************)
(* The redundant environment in SPI flash, common/env_sf.c with            *)
(* CONFIG_ENV_OFFSET_REDUND.  A flag byte tells the copies apart: saveenv  *)
(* writes the new copy as active, then marks the old one obsolete.         *)
(***************************************************************************)
EXTENDS EnvFlags

CONSTANT Embedded    \* CONFIG_ENV_SECT_SIZE > CONFIG_ENV_SIZE

VARIABLE env_flash   \* the flash has been probed

vars == <<copy, active, env, pc, result, loaded, clean, saved, maybe, env_flash>>

Init == BaseInit /\ env_flash = FALSE

\* env_init, env_relocate, env_relocate_spec; the probed flash is freed again
env_relocate_spec ==
  /\ pc = "off" /\ env_flash' = FALSE
  /\ \/ Import(Choose(Crc))
     \/ "import" \in BootFaults /\ ImportFault(Choose(Crc), Default)
     \/ BootFaults \cap {"malloc", "probe", "read1"} # {} /\ ImportFault(1, Default)
     \/ /\ "read2" \in BootFaults
        /\ ImportFault(1, IF copy[1].crc THEN copy[1].data ELSE Default)

\* a failing probe leaves the default environment in RAM
saveenv_refused ==
  \/ /\ "probe" \in SaveFaults /\ ~env_flash
     /\ SaveRefused(Default) /\ UNCHANGED env_flash
  \/ /\ "export" \in SaveFaults \/ (Embedded /\ "rest" \in SaveFaults)
     /\ SaveRefused(env) /\ env_flash' = TRUE

saveenv == SaveBegin("erase") /\ env_flash' = TRUE

\* Mutant: the copy in use is erased.
EraseActive ==
  /\ pc = "erase"
  /\ copy' = [copy EXCEPT ![active] = Blank] /\ GoOn("write")
  /\ UNCHANGED <<active, env, loaded, clean, env_flash>>

Erase ==
  /\ pc = "erase"
  /\ \/ copy' = [copy EXCEPT ![Other(active)] = Blank] /\ GoOn("write")
     \/ /\ "erase" \in SaveFaults /\ ReturnFail
        /\ copy' \in {copy, [copy EXCEPT ![Other(active)] = Blank]}
  /\ UNCHANGED <<active, env, loaded, clean, env_flash>>

EnvNew == [crc |-> TRUE, flags |-> ACTIVE_FLAG, data |-> env]

Write ==
  /\ pc = "write"
  /\ \/ /\ copy' = [copy EXCEPT ![Other(active)] = EnvNew]
        /\ GoOn(IF Embedded THEN "restore" ELSE "flag")
     \/ /\ "write" \in SaveFaults /\ ReturnFail
        /\ copy' \in {copy, [copy EXCEPT ![Other(active)] = EnvNew]}
  /\ UNCHANGED <<active, env, loaded, clean, env_flash>>

\* the rest of an embedded sector is written back
Restore ==
  /\ pc = "restore"
  /\ GoOn("flag") \/ ("rest" \in SaveFaults /\ ReturnFail)
  /\ UNCHANGED <<copy, active, env, loaded, clean, env_flash>>

\* Mutant: the copy just written is marked obsolete.
FlagNew ==
  /\ pc = "flag" /\ copy' = [copy EXCEPT ![Other(active)].flags = OBSOLETE_FLAG]
  /\ active' = Other(active) /\ ReturnOk
  /\ UNCHANGED <<env, loaded, clean, env_flash>>

Flag ==
  /\ pc = "flag"
  /\ LET Marked == [copy EXCEPT ![active].flags = OBSOLETE_FLAG]
     IN \/ copy' = Marked /\ active' = Other(active) /\ ReturnOk
        \/ /\ "flag" \in SaveFaults /\ ReturnFail
           /\ copy' \in {copy, Marked} /\ UNCHANGED active
  /\ UNCHANGED <<env, loaded, clean, env_flash>>

Next ==
  \/ env_relocate_spec \/ saveenv_refused \/ saveenv
  \/ Erase \/ Write \/ Restore \/ Flag
  \/ (SetEnv \/ PowerFail) /\ UNCHANGED env_flash

Spec == Init /\ [][Next]_vars

-----------------------------------------------------------------------------
\* The copies hold environments and flags, and the rest is as in EnvBase.
TypeOK == BaseTypeOK /\ env_flash \in BOOLEAN

\* What saveenv and the boot promise together.
Promise == INSTANCE EnvStore

\* saveenv and the boot keep the promise of EnvStore whatever save step fails
\* and wherever the power goes: the two copies are never both unusable, and
\* the flags never make a boot prefer the older of two good copies.
Refines == Promise!Spec
=============================================================================
