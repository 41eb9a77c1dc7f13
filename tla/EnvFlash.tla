------------------------------ MODULE EnvFlash ------------------------------
(***************************************************************************)
(* The redundant environment in NOR flash, common/env_flash.c with         *)
(* CONFIG_ENV_ADDR_REDUND.  active is the copy at flash_addr.  A boot      *)
(* repairs the flags before it imports a copy.                             *)
(***************************************************************************)
EXTENDS EnvFlags

CONSTANT Embedded    \* CONFIG_ENV_SECT_SIZE > CONFIG_ENV_SIZE

Init == BaseInit

\* env_init; env_relocate takes the default environment without a valid copy
env_init ==
  /\ pc = "off"
  /\ IF \E c \in Copies : copy[c].crc
     THEN /\ pc' = "select" /\ active' = Choose(Crc)
          /\ UNCHANGED <<copy, env, result, loaded, clean, saved, maybe>>
     ELSE Import(1)

\* a second good copy is marked obsolete; a failing write goes unnoticed
ObsoleteOther ==
  /\ pc = "select" /\ pc' = "repair"
  /\ LET o == copy[Other(active)]
     IN IF o.flags # OBSOLETE_FLAG /\ o.crc
        THEN \/ copy' = [copy EXCEPT ![Other(active)].flags = OBSOLETE_FLAG]
             \/ "repair" \in BootFaults /\ UNCHANGED copy
        ELSE UNCHANGED copy
  /\ UNCHANGED <<active, env, result, loaded, clean, saved, maybe>>

\* an erased flag byte of the chosen copy is set, and the copy imported
Activate ==
  /\ pc = "repair"
  /\ LET f == copy[active].flags
         Stamped == [copy EXCEPT ![active].flags = ACTIVE_FLAG]
     IN /\ copy' \in IF f # ACTIVE_FLAG /\ f % 2 = 1
                     THEN {Stamped} \cup (IF "repair" \in BootFaults THEN {copy} ELSE {})
                     ELSE {copy}
        /\ pc' = "idle" /\ UNCHANGED <<active, result>>
        /\ \/ /\ env' = copy[active].data /\ clean' = TRUE
              /\ loaded' = env' /\ saved' = env' /\ maybe' = {}
           \/ /\ "import" \in BootFaults
              /\ env' = Default /\ loaded' = Default /\ clean' = FALSE
              /\ UNCHANGED <<saved, maybe>>

\* no memory for the rest of the sector: nothing is saved, and 0 returned
saveenv_refused ==
  \/ SaveFaults \cap {"protect", "export"} # {} /\ SaveRefused(env)
  \/ /\ pc = "idle" /\ Embedded /\ "alloc" \in SaveFaults /\ ReturnOk
     /\ UNCHANGED <<copy, active, env, loaded, clean>>

saveenv == SaveBegin("erase")

\* Mutant: the copy in use is erased.
EraseActive ==
  /\ pc = "erase"
  /\ copy' = [copy EXCEPT ![active] = Blank] /\ GoOn("write")
  /\ UNCHANGED <<active, env, loaded, clean>>

\* the error of the erase is not kept in rc
Erase ==
  /\ pc = "erase"
  /\ \/ copy' = [copy EXCEPT ![Other(active)] = Blank] /\ GoOn("write")
     \/ /\ "erase" \in SaveFaults /\ ReturnOk
        /\ copy' \in {copy, [copy EXCEPT ![Other(active)] = Blank]}
  /\ UNCHANGED <<active, env, loaded, clean>>

EnvNew == [crc |-> TRUE, flags |-> ACTIVE_FLAG, data |-> env]

Write ==
  /\ pc = "write"
  /\ \/ copy' = [copy EXCEPT ![Other(active)] = EnvNew] /\ GoOn("flag")
     \/ /\ "write" \in SaveFaults /\ ReturnFail
        /\ copy' \in {copy, [copy EXCEPT ![Other(active)] = EnvNew]}
  /\ UNCHANGED <<active, env, loaded, clean>>

Flag ==
  /\ pc = "flag"
  /\ LET Marked == [copy EXCEPT ![active].flags = OBSOLETE_FLAG]
     IN \/ /\ copy' = Marked
           /\ IF Embedded THEN GoOn("restore") /\ UNCHANGED active
                          ELSE ReturnOk /\ active' = Other(active)
        \/ /\ "flag" \in SaveFaults /\ ReturnFail
           /\ copy' \in {copy, Marked} /\ UNCHANGED active
  /\ UNCHANGED <<env, loaded, clean>>

\* when the rest of the sector cannot be written back, rc is still 0 and
\* flash_addr is not moved
Restore ==
  /\ pc = "restore" /\ ReturnOk
  /\ active' = Other(active) \/ ("rest" \in SaveFaults /\ UNCHANGED active)
  /\ UNCHANGED <<copy, env, loaded, clean>>

Next ==
  \/ env_init \/ ObsoleteOther \/ Activate
  \/ saveenv_refused \/ saveenv \/ Erase \/ Write \/ Flag \/ Restore
  \/ SetEnv \/ PowerFail

Spec == Init /\ [][Next]_baseVars
=============================================================================
