------------------------------ MODULE EnvNand -------------------------------
(***************************************************************************)
(* The redundant environment in NAND flash, common/env_nand.c with         *)
(* CONFIG_ENV_OFFSET_REDUND.  When the copy that is not in use cannot be   *)
(* written, saveenv writes the one in use.                                 *)
(***************************************************************************)
EXTENDS EnvSerial

saveenv_refused ==
  "export" \in SaveFaults /\ SaveRefused(env) /\ UNCHANGED env_flags

saveenv == env_flags # Horizon /\ SaveBegin("erase") /\ env_flags' = NextSerial

\* erase_and_write_env on the copy not in use
Erase ==
  /\ pc = "erase"
  /\ \/ copy' = [copy EXCEPT ![Other(active)] = Blank] /\ GoOn("write")
     \/ /\ "erase" \in SaveFaults /\ GoOn("erase2")
        /\ copy' \in {copy, [copy EXCEPT ![Other(active)] = Blank]}
  /\ UNCHANGED <<active, env, loaded, clean, env_flags>>

\* Mutant: the result of the write is not looked at.
WriteUnchecked ==
  /\ pc = "write"
  /\ \/ copy' = [copy EXCEPT ![Other(active)] = EnvNew]
     \/ "write" \in SaveFaults /\ UNCHANGED copy
  /\ active' = Other(active) /\ ReturnOk
  /\ UNCHANGED <<env, loaded, clean, env_flags>>

Write ==
  /\ pc = "write"
  /\ \/ /\ copy' = [copy EXCEPT ![Other(active)] = EnvNew]
        /\ active' = Other(active) /\ ReturnOk
     \/ /\ "write" \in SaveFaults /\ GoOn("erase2") /\ UNCHANGED active
        /\ copy' \in {copy, [copy EXCEPT ![Other(active)] = EnvNew]}
  /\ UNCHANGED <<env, loaded, clean, env_flags>>

\* erase_and_write_env on the copy in use, which stays the one in use
EraseInUse ==
  /\ pc = "erase2"
  /\ \/ copy' = [copy EXCEPT ![active] = Blank] /\ GoOn("write2")
     \/ /\ "erase" \in SaveFaults /\ ReturnFail
        /\ copy' \in {copy, [copy EXCEPT ![active] = Blank]}
  /\ UNCHANGED <<active, env, loaded, clean, env_flags>>

WriteInUse ==
  /\ pc = "write2"
  /\ \/ copy' = [copy EXCEPT ![active] = EnvNew] /\ ReturnOk
     \/ /\ "write" \in SaveFaults /\ ReturnFail
        /\ copy' \in {copy, [copy EXCEPT ![active] = EnvNew]}
  /\ UNCHANGED <<active, env, loaded, clean, env_flags>>

Next ==
  \/ env_relocate_spec \/ saveenv_refused \/ saveenv
  \/ Erase \/ Write \/ EraseInUse \/ WriteInUse
  \/ (SetEnv \/ PowerFail) /\ UNCHANGED env_flags

Spec == Init /\ [][Next]_vars
=============================================================================
