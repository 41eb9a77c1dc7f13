------------------------------ MODULE EnvBoard ------------------------------
(***************************************************************************)
(* What a board of EnvStores is: the state of its environment, the backend *)
(* U-Boot is built with, and the calls that may fail.                      *)
(***************************************************************************)
EXTENDS EnvSerial

CONSTANTS
  Embedded,                \* of EnvFlash
  FlashFaults,             \* the calls of env_flash.c's saveenv that may fail
  WornFaults,              \* those of the others that may fail on a worn board
  WornFlashFaults,
  WornBootFaults,
  WornMaxSerial

ASSUME WornAssumption == WornMaxSerial \in 2..255

VARIABLES
  board,         \* the backend U-Boot is built with
  worn           \* whether the board is worn
=============================================================================
