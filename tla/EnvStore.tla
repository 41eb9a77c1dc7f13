------------------------------ MODULE EnvStore ------------------------------
(***************************************************************************)
(* What saveenv and the boot promise, whatever the storage: a boot loads   *)
(* the environment saved last, or one whose save has failed or was cut off *)
(* since; what a boot has loaded the next boot loads too.                  *)
(*                                                                         *)
(* A boot that cannot read the storage runs on another environment.  It    *)
(* leaves the storage alone, but a save made on top of it voids the        *)
(* promise.                                                                *)
(***************************************************************************)
CONSTANTS Values, Default, None

VARIABLES
  saved,    \* the environment the last save or boot has settled
  maybe,    \* the environments of the saves that have failed since
  loaded,   \* the environment this boot came up with, None when off
  req,      \* the environment being saved, None when no save is running
  result,   \* what the last saveenv of this boot returned
  clean     \* this boot could read the storage

storeVars == <<saved, maybe, loaded, req, result, clean>>

Init ==
  /\ saved = Default /\ maybe = {} /\ loaded = None /\ req = None
  /\ result = "none" /\ clean = TRUE

Boot ==
  /\ loaded = None
  /\ \E v \in {saved} \cup maybe : loaded' = v /\ saved' = v
  /\ maybe' = {} /\ clean' = TRUE
  /\ UNCHANGED <<req, result>>

BootFault ==
  /\ loaded = None
  /\ loaded' \in Values /\ clean' = FALSE
  /\ UNCHANGED <<saved, maybe, req, result>>

Save ==
  /\ loaded # None /\ req = None
  /\ req' \in Values /\ result' = "none"
  /\ maybe' = IF clean THEN maybe ELSE Values
  /\ UNCHANGED <<saved, loaded, clean>>

Refuse ==
  /\ loaded # None /\ req = None
  /\ result' = "failed"
  /\ UNCHANGED <<saved, maybe, loaded, req, clean>>

FinishOk ==
  /\ req # None /\ req' = None /\ result' = "ok" /\ saved' = req
  /\ maybe' = IF clean THEN {} ELSE maybe
  /\ UNCHANGED <<loaded, clean>>

FinishFail ==
  /\ req # None /\ req' = None /\ result' = "failed"
  /\ maybe' = maybe \cup {req}
  /\ UNCHANGED <<saved, loaded, clean>>

PowerFail ==
  /\ loaded # None /\ loaded' = None
  /\ req' = None /\ result' = "none"
  /\ maybe' = maybe \cup ({req} \ {None})
  /\ UNCHANGED <<saved, clean>>

Next == Boot \/ BootFault \/ Save \/ Refuse \/ FinishOk \/ FinishFail \/ PowerFail

Spec == Init /\ [][Next]_storeVars
=============================================================================
