------------------------------ MODULE EnvBase -------------------------------
(***************************************************************************)
(* What the redundant environment backends share: two copies of the        *)
(* environment in the storage, the environment in RAM, and the saveenv     *)
(* command.  The backends (EnvSf, EnvFlash, EnvMmc, EnvNand) add how a     *)
(* boot chooses a copy and the steps by which saveenv replaces one.        *)
(*                                                                         *)
(* The power may fail between any two steps.  A copy that has been erased  *)
(* or half written has a bad CRC.  A device call that reports an error may *)
(* have had its effect, part of it, or none.                               *)
(***************************************************************************)
EXTENDS Integers

CONSTANTS
  Values,       \* the environments
  Default,      \* default_environment
  None,         \* no environment
  SaveFaults,   \* the calls of saveenv that may fail
  BootFaults    \* the calls of env_relocate_spec that may fail

ASSUME EnvAssumption == Default \in Values /\ None \notin Values

VARIABLES
  copy,         \* the two copies, crc telling whether the CRC is good
  active,       \* gd->env_valid (in env_flash.c the copy at flash_addr)
  env,          \* env_htab
  pc,           \* where the boot or saveenv is, "off" without power
  result,       \* what the last saveenv of this boot returned
  loaded,       \* the environment this boot came up with
  clean,        \* this boot met no fault reading the storage
  saved,        \* history: the environment the last save or boot settled
  maybe         \* history: those of the saves that have failed since

baseVars == <<copy, active, env, pc, result, loaded, clean, saved, maybe>>

Copies == 1..2

\* Mutant: the number after, not the other one of the two.
OtherAfter(c) == c + 1

Other(c) == 3 - c

Blank == [crc |-> FALSE, flags |-> 255, data |-> Default]

Saving == pc \notin {"off", "select", "repair", "idle"}

req == IF Saving THEN env ELSE None

BaseInit ==
  /\ copy = [c \in Copies |-> Blank]
  /\ active = 1 /\ env = Default /\ pc = "off" /\ result = "none"
  /\ loaded = None /\ clean = TRUE /\ saved = Default /\ maybe = {}

\* the end of a boot on copy c; with no valid copy, on the default environment
Import(c) ==
  /\ pc' = "idle" /\ active' = c
  /\ env' = IF copy[c].crc THEN copy[c].data ELSE Default
  /\ loaded' = env' /\ saved' = env' /\ maybe' = {} /\ clean' = TRUE
  /\ UNCHANGED <<copy, result>>

\* the end of a boot that could not read all of the storage
ImportFault(c, v) ==
  /\ pc' = "idle" /\ active' = c /\ env' = v
  /\ loaded' = v /\ clean' = FALSE
  /\ UNCHANGED <<copy, result, saved, maybe>>

\* setenv, env default, env import: the commands that change env_htab
SetEnv ==
  /\ pc = "idle" /\ env' \in Values \ {env}
  /\ UNCHANGED <<copy, active, pc, result, loaded, clean, saved, maybe>>

\* saveenv up to the point where the storage is about to change
SaveBegin(next) ==
  /\ pc = "idle" /\ pc' = next /\ result' = "none"
  /\ maybe' = IF clean THEN maybe ELSE Values
  /\ UNCHANGED <<copy, active, env, loaded, clean, saved>>

\* saveenv returns early: the storage is as it was
SaveRefused(v) ==
  /\ pc = "idle" /\ env' = v /\ result' = "failed"
  /\ UNCHANGED <<copy, active, pc, loaded, clean, saved, maybe>>

ReturnOk ==
  /\ pc' = "idle" /\ result' = "ok" /\ saved' = env
  /\ maybe' = IF clean THEN {} ELSE maybe

ReturnFail ==
  /\ pc' = "idle" /\ result' = "failed"
  /\ maybe' = maybe \cup {env} /\ UNCHANGED saved

GoOn(next) == pc' = next /\ UNCHANGED <<result, saved, maybe>>

PowerFail ==
  /\ pc # "off" /\ pc' = "off" /\ result' = "none" /\ loaded' = None
  /\ maybe' = maybe \cup (IF Saving THEN {env} ELSE {})
  /\ UNCHANGED <<copy, active, env, clean, saved>>

-----------------------------------------------------------------------------
\* Properties all the backends share.

\* The storage and RAM hold what they can hold.
BaseTypeOK ==
  /\ copy \in [Copies -> [crc : BOOLEAN, flags : 0..255, data : Values]]
  /\ active \in Copies /\ env \in Values
  /\ pc \in {"off", "select", "repair", "idle", "erase", "write", "torn",
             "restore", "flag", "erase2", "write2"}
  /\ result \in {"none", "ok", "failed"}
  /\ loaded \in Values \cup {None} /\ clean \in BOOLEAN
  /\ saved \in Values /\ maybe \in SUBSET Values

HasCopy == \E c \in Copies : copy[c].crc

\* The backup copy: once an environment other than the default one has been
\* saved, no step of saveenv or of the boot leaves the storage without a good
\* copy, so a power failure never throws the system back to the default;
\* unless the boot could not read the storage to learn which copy is good.
BackupKept == [][clean /\ saved # Default /\ HasCopy => HasCopy']_baseVars
=============================================================================
