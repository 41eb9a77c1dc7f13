----------------------------- MODULE EnvStores ------------------------------
(***************************************************************************)
(* A board with a redundant environment in NOR flash, on MMC or in NAND    *)
(* flash: the backends EnvFlash, EnvMmc and EnvNand as alternatives, the   *)
(* choice CONFIG_ENV_IS_IN_... makes when U-Boot is built.  On a board     *)
(* that is worn, more calls fail than on one that is not: erases and       *)
(* writes that the promise of EnvStore does not survive.                   *)
(***************************************************************************)
EXTENDS EnvBoard

storesVars == <<vars, board, worn>>

Flash(faults, boot) ==
  INSTANCE EnvFlash WITH SaveFaults <- faults, BootFaults <- boot
Mmc(faults, boot, top) ==
  INSTANCE EnvMmc WITH SaveFaults <- faults, BootFaults <- boot, MaxSerial <- top
Nand(faults, boot, top) ==
  INSTANCE EnvNand WITH SaveFaults <- faults, BootFaults <- boot, MaxSerial <- top

Serial(boot, top) ==
  INSTANCE EnvSerial WITH BootFaults <- boot, MaxSerial <- top

StoresInit == Init /\ board \in {"flash", "mmc", "nand"} /\ worn \in BOOLEAN

StoresNext ==
  /\ \/ board = "flash" /\ ~worn /\ Flash(FlashFaults, BootFaults)!Next
        /\ UNCHANGED env_flags
     \/ board = "mmc" /\ ~worn /\ Mmc(SaveFaults, BootFaults, MaxSerial)!Next
     \/ board = "nand" /\ ~worn /\ Nand(SaveFaults, BootFaults, MaxSerial)!Next
     \/ board = "flash" /\ worn /\ Flash(WornFlashFaults, WornBootFaults)!Next
        /\ UNCHANGED env_flags
     \/ board = "mmc" /\ worn /\ Mmc(WornFaults, WornBootFaults, WornMaxSerial)!Next
     \/ board = "nand" /\ worn /\ Nand(WornFaults, WornBootFaults, WornMaxSerial)!Next
  /\ UNCHANGED <<board, worn>>

StoresSpec == StoresInit /\ [][StoresNext]_storesVars

-----------------------------------------------------------------------------
\* The copies hold environments and serials, and the rest is as in EnvBase.
StoresTypeOK ==
  BaseTypeOK /\ env_flags \in 0..(IF worn THEN WornMaxSerial ELSE MaxSerial)

\* What a board shows, a worn one nothing.
Shown(now, first) == IF worn THEN first ELSE now

BoardPromise ==
  INSTANCE EnvStore WITH saved <- Shown(saved, Default), maybe <- Shown(maybe, {}),
                         loaded <- Shown(loaded, None), req <- Shown(req, None),
                         result <- Shown(result, "none"), clean <- Shown(clean, TRUE)

\* saveenv and the boot of every backend keep the promise of EnvStore, around
\* the wrap of the serial and with the power failing between any two steps, as
\* long as the board is not worn.
StoresRefine == BoardPromise!Spec

\* On a board that is not worn, once an environment other than the default one
\* has been saved, no step of saveenv or of the boot leaves the storage without
\* a good copy; unless the boot could not read the storage.
StoresBackupKept ==
  [][~worn /\ clean /\ saved # Default /\ HasCopy => HasCopy']_storesVars

\* With a serial number, on MMC and in NAND: saveenv has returned success only
\* when the next boot loads what it saved, whichever erase or write has failed
\* before and whichever copy was written in the end.
SerialSavedIsLoaded ==
  board # "flash" /\ worn => Serial(WornBootFaults, WornMaxSerial)!SavedIsLoaded

\* In NOR flash and on MMC, where saveenv never touches the copy in use: a
\* system that came up on a stored environment has a good copy for the next
\* boot, whatever saveenv did, reported or failed to report since.
StaysStored ==
  board # "nand" /\ worn /\ loaded \notin {None, Default} => HasCopy
=============================================================================
