------------------------------- MODULE EnvMmc -------------------------------
(***************************************************************************)
(* The redundant environment on an MMC device, common/env_mmc.c with       *)
(* CONFIG_ENV_OFFSET_REDUND.  saveenv overwrites in place the copy that is *)
(* not in use.                                                             *)
(***************************************************************************)
EXTENDS EnvSerial

saveenv_refused ==
  /\ SaveFaults \cap {"init", "export"} # {}
  /\ SaveRefused(env) /\ UNCHANGED env_flags

\* the serial has been counted up when the address turns out not to be known
saveenv_noaddr ==
  "addr" \in SaveFaults /\ env_flags # Horizon /\ SaveRefused(env) /\ env_flags' = NextSerial

saveenv == env_flags # Horizon /\ SaveBegin("write") /\ env_flags' = NextSerial

\* Mutant: the copy in use is overwritten.
TornActive == [copy EXCEPT ![active].crc = FALSE]

Torn == [copy EXCEPT ![Other(active)].crc = FALSE]

\* the first block of the copy is overwritten
WriteBegin ==
  /\ pc = "write" /\ copy' = Torn /\ GoOn("torn")
  /\ UNCHANGED <<active, env, loaded, clean, env_flags>>

\* all of its blocks are
WriteEnd ==
  /\ pc = "torn" /\ copy' = [copy EXCEPT ![Other(active)] = EnvNew]
  /\ active' = Other(active) /\ ReturnOk
  /\ UNCHANGED <<env, loaded, clean, env_flags>>

WriteFail ==
  /\ "write" \in SaveFaults /\ pc = "write" /\ ReturnFail
  /\ copy' \in {copy, Torn, [copy EXCEPT ![Other(active)] = EnvNew]}
  /\ UNCHANGED <<active, env, loaded, clean, env_flags>>

Next ==
  \/ env_relocate_spec \/ saveenv_refused \/ saveenv_noaddr \/ saveenv
  \/ WriteBegin \/ WriteEnd \/ WriteFail
  \/ (SetEnv \/ PowerFail) /\ UNCHANGED env_flags

Spec == Init /\ [][Next]_vars
=============================================================================
