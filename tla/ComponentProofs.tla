-------------------------- MODULE ComponentProofs ---------------------------
(***************************************************************************)
(* Proofs about two components that stand alone: EnvSf, for every set of   *)
(* environments and of calls that may fail, and Arp, for any hosts, any    *)
(* net and with or without a gateway.                                      *)
(***************************************************************************)
EXTENDS EnvSf, Arp, TLAPS

-----------------------------------------------------------------------------
(* env_sf.c implements EnvStore.                                           *)
(*                                                                         *)
(* Promise!Boot needs Pick, what a boot loads, to be the saved environment *)
(* or one of a save that did not complete.  Pick changes within a save:    *)
(* erasing the spare copy makes the boot fall back on the copy in use,     *)
(* writing it may or may not make the boot prefer it, marking the old copy *)
(* obsolete does.  So the invariant also says what the copy in use holds,  *)
(* and that the spare copy is complete once it has been written.           *)

Pcs == {"off", "idle", "erase", "write", "restore", "flag"}

\* what a boot loads when the spare copy is of no use
InUse == IF copy[active].crc THEN copy[active].data ELSE Default

Settled == {saved} \cup maybe

SfInv ==
  /\ TypeOK
  /\ pc \in Pcs
  /\ (loaded = None) <=> (pc = "off")
  /\ Pick \in Settled \/ (Saving /\ Pick = env)
  /\ (clean /\ pc # "off") => InUse \in Settled
  /\ (~clean /\ Saving) => maybe = Values
  /\ pc \in {"restore", "flag"} => copy[Other(active)] = EnvNew

-----------------------------------------------------------------------------
\* The two copies are each other's other.
LEMMA OtherCopy ==
  ASSUME NEW c \in Copies
  PROVE  Other(c) \in Copies /\ Other(c) # c /\ Other(Other(c)) = c
BY DEF Copies, Other

\* The boot chooses one of the two copies, and a good one if there is one.
LEMMA ChooseCopy ==
  /\ Choose(Crc) \in Copies
  /\ (\E c \in Copies : copy[c].crc) => copy[Choose(Crc)].crc
BY DEF Choose, Crc, Copies

\* With a bad spare copy, env_relocate_spec loads the copy in use.
LEMMA PickSpareBad ==
  BaseTypeOK /\ ~copy[Other(active)].crc => Pick = InUse
BY DEF BaseTypeOK, Pick, InUse, Choose, Crc, Copies, Other

\* With the new environment in the spare copy, env_relocate_spec loads that
\* or the copy in use.
LEMMA PickSpareNew ==
  BaseTypeOK /\ copy[Other(active)] = EnvNew => Pick \in {InUse, env}
BY DEF BaseTypeOK, Pick, InUse, Choose, Crc, Copies, Other, EnvNew

\* What a boot loads is an environment.
LEMMA PickType ==
  BaseTypeOK => Pick \in Values
BY ZenonT(30), ChooseCopy, EnvAssumption DEF BaseTypeOK, Pick

-----------------------------------------------------------------------------
\* The types are kept by every step.
LEMMA TypeStep == TypeOK /\ pc \in Pcs /\ [Next]_vars => TypeOK' /\ pc' \in Pcs
<1> SUFFICES ASSUME TypeOK, pc \in Pcs, [Next]_vars
             PROVE  TypeOK' /\ pc' \in Pcs
    BY Zenon
<1> DEFINE CopyType == [crc : BOOLEAN, flags : 0..255, data : Values]
<1> DEFINE Value(c) == IF copy[c].crc THEN copy[c].data ELSE Default
<1>1. Blank \in CopyType /\ EnvNew \in CopyType
      BY EnvAssumption DEF Blank, EnvNew, ACTIVE_FLAG, TypeOK, BaseTypeOK
<1>2. copy \in [Copies -> CopyType]
      BY Zenon DEF TypeOK, BaseTypeOK
<1>3. active \in Copies /\ Other(active) \in Copies /\ Choose(Crc) \in Copies /\ 1 \in Copies
      BY OtherCopy, ChooseCopy DEF TypeOK, BaseTypeOK, Copies
<1>4. \A c \in Copies :
        /\ [copy EXCEPT ![c] = Blank] \in [Copies -> CopyType]
        /\ [copy EXCEPT ![c] = EnvNew] \in [Copies -> CopyType]
        /\ [copy EXCEPT ![c].flags = OBSOLETE_FLAG] \in [Copies -> CopyType]
        /\ Value(c) \in Values
  <2> SUFFICES ASSUME NEW c \in Copies
               PROVE  /\ [copy EXCEPT ![c] = Blank] \in [Copies -> CopyType]
                      /\ [copy EXCEPT ![c] = EnvNew] \in [Copies -> CopyType]
                      /\ [copy EXCEPT ![c].flags = OBSOLETE_FLAG] \in [Copies -> CopyType]
                      /\ Value(c) \in Values
      BY Zenon
  <2>1. copy[c] \in CopyType  BY Zenon, <1>2
  <2>2. [copy[c] EXCEPT !.flags = OBSOLETE_FLAG] \in CopyType  BY ONLY <2>1 DEF OBSOLETE_FLAG
  <2>3. Value(c) \in Values  BY Zenon, <2>1, EnvAssumption
  <2> HIDE DEF CopyType, Value
  <2>4. \A v \in CopyType : [copy EXCEPT ![c] = v] \in [Copies -> CopyType]  BY ONLY <1>2, c \in Copies
  <2>5. [copy EXCEPT ![c].flags = OBSOLETE_FLAG] \in [Copies -> CopyType]
      BY ONLY <1>2, <2>2, c \in Copies
  <2> QED
      BY Zenon, <1>1, <2>3, <2>4, <2>5
<1>5. ASSUME copy' \in [Copies -> CopyType], active' \in Copies, env' \in Values,
             pc' \in Pcs, result' \in {"none", "ok", "failed"},
             loaded' \in Values \cup {None}, clean' \in BOOLEAN,
             saved' \in Values, maybe' \in SUBSET Values, env_flash' \in BOOLEAN
      PROVE  TypeOK' /\ pc' \in Pcs
      BY ZenonT(30), <1>5 DEF TypeOK, BaseTypeOK, Pcs
<1>6. /\ env \in Values /\ result \in {"none", "ok", "failed"}
      /\ loaded \in Values \cup {None} /\ clean \in BOOLEAN /\ saved \in Values
      /\ maybe \in SUBSET Values /\ env_flash \in BOOLEAN /\ Default \in Values
      BY Zenon, EnvAssumption DEF TypeOK, BaseTypeOK
<1> HIDE DEF CopyType, Value
<1>7. CASE env_relocate_spec
  <2>1. ASSUME Import(Choose(Crc)) PROVE TypeOK' /\ pc' \in Pcs
    <3>1. env' = Value(Choose(Crc))
          BY Zenon, <2>1 DEF Import, Value
    <3> QED
        BY Zenon, <1>2, <1>3, <1>4, <1>5, <1>6, <1>7, <2>1, <3>1 DEF env_relocate_spec, Import, Pcs
  <2>2. ASSUME NEW c \in Copies, NEW v \in Values, ImportFault(c, v)
        PROVE  TypeOK' /\ pc' \in Pcs
        BY Zenon, <1>2, <1>5, <1>6, <1>7, <2>2 DEF env_relocate_spec, ImportFault, Pcs
  <2>3. CASE ImportFault(1, IF copy[1].crc THEN copy[1].data ELSE Default)
        BY Zenon, <1>3, <1>4, <2>2, <2>3 DEF Value
  <2>4. CASE ImportFault(1, Default) \/ ImportFault(Choose(Crc), Default)
        BY Zenon, <1>3, <1>6, <2>2, <2>4
  <2> QED
      BY Zenon, <1>7, <2>1, <2>3, <2>4 DEF env_relocate_spec
<1>8. CASE saveenv_refused \/ saveenv
      BY Zenon, <1>2, <1>3, <1>5, <1>6, <1>8
      DEF saveenv_refused, saveenv, SaveRefused, SaveBegin, Pcs
<1>9. CASE Erase
  <2>1. copy' \in [Copies -> CopyType] BY ZenonT(30), <1>2, <1>3, <1>4, <1>9 DEF Erase
  <2> QED BY Zenon, <1>3, <1>5, <1>6, <1>9, <2>1 DEF Erase, GoOn, ReturnFail, Pcs
<1>10. CASE Write
  <2>1. copy' \in [Copies -> CopyType] BY ZenonT(30), <1>2, <1>3, <1>4, <1>10 DEF Write
  <2> QED BY Zenon, <1>3, <1>5, <1>6, <1>10, <2>1 DEF Write, GoOn, ReturnFail, Pcs
<1>11. CASE Restore
      BY Zenon, <1>2, <1>3, <1>5, <1>6, <1>11 DEF Restore, GoOn, ReturnFail, Pcs
<1>12. CASE Flag
  <2>1. copy' \in [Copies -> CopyType] BY <1>2, <1>3, <1>4, <1>12 DEF Flag
  <2> QED BY Zenon, <1>3, <1>5, <1>6, <1>12, <2>1 DEF Flag, ReturnOk, ReturnFail, Pcs
<1>13. CASE (SetEnv \/ PowerFail) /\ UNCHANGED env_flash
      BY Zenon, <1>2, <1>3, <1>5, <1>6, <1>13 DEF SetEnv, PowerFail, Saving, Pcs
<1>14. CASE UNCHANGED vars
      BY <1>14 DEF vars, TypeOK, BaseTypeOK, Pcs
<1> QED
    BY Zenon, <1>7, <1>8, <1>9, <1>10, <1>11, <1>12, <1>13, <1>14 DEF Next

\* The invariant is kept by every step.
LEMMA InvStep == SfInv /\ [Next]_vars => SfInv'
<1> SUFFICES ASSUME SfInv, [Next]_vars
             PROVE  SfInv'
    BY Zenon
<1>1. TypeOK' /\ pc' \in Pcs
      BY Zenon, TypeStep DEF SfInv
<1>2. /\ Pick \in Values /\ (Pick \in Values)'
      /\ (~copy[Other(active)].crc => Pick = InUse)'
      /\ (copy[Other(active)] = EnvNew => Pick \in {InUse, env})'
  <2>1. BaseTypeOK /\ BaseTypeOK'
        BY Zenon, <1>1 DEF SfInv, TypeOK
  <2> QED
      BY <2>1, PickType, PickSpareBad, PickSpareNew, PTL
<1>3. active \in Copies /\ Other(active) \in Copies /\ Other(active) # active
      BY Zenon, OtherCopy DEF SfInv, TypeOK, BaseTypeOK
<1>4. copy \in [Copies -> [crc : BOOLEAN, flags : 0..255, data : Values]]
      BY Zenon DEF SfInv, TypeOK, BaseTypeOK
<1>5. None \notin Values /\ env \in Values /\ maybe \subseteq Values /\ saved \in Values
      BY Zenon, EnvAssumption DEF SfInv, TypeOK, BaseTypeOK
<1>6. UNCHANGED copy => Pick' = Pick
      BY DEF Pick, Choose, Crc
<1>7. UNCHANGED <<copy, active>> => InUse' = InUse
      BY Zenon DEF InUse
<1>8. CASE env_relocate_spec
  <2>1. pc = "off" /\ pc' = "idle" /\ Pick' = Pick /\ loaded' # None
    <3>1. pc = "off" /\ pc' = "idle" /\ UNCHANGED copy /\ loaded' = env'
          BY Zenon, <1>8 DEF env_relocate_spec, Import, ImportFault
    <3>2. env' \in Values
          BY Zenon, <1>1 DEF SfInv, TypeOK, BaseTypeOK
    <3> QED
        BY Zenon, <1>5, <1>6, <3>1, <3>2
  <2>2. CASE Import(Choose(Crc))
    <3>1. saved' = Pick /\ InUse' = Pick
          BY Zenon, <2>2 DEF Import, Pick, InUse
    <3> QED
        BY Zenon, <1>1, <2>1, <2>2, <3>1 DEF Import, SfInv, Settled, Saving
  <2>3. CASE clean' = FALSE /\ UNCHANGED <<saved, maybe>>
        BY Zenon, <1>1, <2>1, <2>3 DEF SfInv, Settled, Saving
  <2> QED
      BY Zenon, <1>8, <2>2, <2>3 DEF env_relocate_spec, ImportFault
<1>9. CASE saveenv_refused
      BY <1>1, <1>6, <1>7, <1>9 DEF saveenv_refused, SaveRefused, SfInv, Settled, Saving
<1>10. CASE saveenv
      BY Zenon, <1>1, <1>2, <1>6, <1>7, <1>10 DEF saveenv, SaveBegin, SfInv, Settled, Saving
<1>11. CASE SetEnv /\ UNCHANGED env_flash
      BY Zenon, <1>1, <1>6, <1>7, <1>11 DEF SetEnv, SfInv, Settled, Saving
<1>12. CASE PowerFail /\ UNCHANGED env_flash
      BY Zenon, <1>1, <1>6, <1>12 DEF PowerFail, SfInv, Settled, Saving
<1>13. CASE UNCHANGED vars
      BY Zenon, <1>1, <1>6, <1>7, <1>13 DEF vars, SfInv, Settled, Saving, EnvNew
<1>14. CASE Restore
      BY Zenon, <1>1, <1>2, <1>5, <1>6, <1>7, <1>14
      DEF Restore, GoOn, ReturnFail, SfInv, Settled, Saving, EnvNew
<1>15. CASE Erase
  <2>1. InUse' = InUse
        BY <1>3, <1>4, <1>15 DEF Erase, InUse
  <2>2. UNCHANGED copy \/ Pick' = InUse'
        BY <1>2, <1>3, <1>4, <1>15 DEF Erase, Blank
  <2> QED
      BY Zenon, <1>1, <1>2, <1>5, <1>6, <1>15, <2>1, <2>2
      DEF Erase, GoOn, ReturnFail, SfInv, Settled, Saving
<1>16. CASE Write
  <2>1. InUse' = InUse
        BY ZenonT(30), <1>3, <1>4, <1>16 DEF Write, InUse
  <2>2. \/ UNCHANGED copy /\ pc' = "idle"
        \/ (copy[Other(active)] = EnvNew)' /\ Pick' \in {InUse', env}
        BY ONLY ZenonT(30), <1>2, <1>3, <1>4, <1>16 DEF Write, EnvNew, ReturnFail
  <2> QED
      BY Zenon, <1>1, <1>2, <1>5, <1>6, <1>16, <2>1, <2>2
      DEF Write, GoOn, ReturnFail, SfInv, Settled, Saving
<1>17. CASE Flag
  <2>1. copy[Other(active)] = EnvNew /\ pc = "flag" /\ env' = env
        BY Zenon, <1>17 DEF SfInv, Flag
  <2>2. CASE ReturnFail /\ UNCHANGED active
    <3>1. InUse' = InUse
          BY <1>3, <1>4, <1>17, <2>2 DEF Flag, InUse
    <3>2. Pick' \in {InUse', env}
      <4>1. (copy[Other(active)] = EnvNew)'
            BY Zenon, <1>3, <1>4, <1>17, <2>1, <2>2 DEF Flag, EnvNew
      <4> QED BY Zenon, <1>2, <2>1, <4>1
    <3> QED
        BY Zenon, <1>1, <1>2, <1>5, <1>17, <2>1, <2>2, <3>1, <3>2
        DEF Flag, ReturnFail, SfInv, Settled, Saving
  <2>3. CASE ReturnOk /\ active' = Other(active)
                /\ copy' = [copy EXCEPT ![active].flags = OBSOLETE_FLAG]
    <3>1. InUse' = env
          BY ONLY <1>3, <1>4, <2>1, <2>3 DEF InUse, EnvNew
    <3>2. Pick' = env
      <4>1. /\ copy'[Other(active)] = EnvNew /\ copy'[active].flags = OBSOLETE_FLAG
            /\ copy'[active].crc \in BOOLEAN
            BY ONLY <1>3, <1>4, <2>1, <2>3
      <4>2. /\ Crc'[1] = copy'[1].crc /\ Crc'[2] = copy'[2].crc
            /\ Other(1) = 2 /\ Other(2) = 1
            BY ONLY SMT DEF Crc, Copies, Other
      <4>3. EnvNew.crc /\ EnvNew.flags = ACTIVE_FLAG /\ EnvNew.data = env
            BY ONLY SMT DEF EnvNew
      <4>4. CASE active = 1
        <5>1. (Choose(Crc))' = 2
              BY ONLY <4>1, <4>4, <4>2, <4>3 DEF Choose, OBSOLETE_FLAG, ACTIVE_FLAG
        <5> QED BY ONLY Zenon, <4>1, <4>4, <4>2, <4>3, <5>1 DEF Pick
      <4>5. CASE active = 2
        <5>1. (Choose(Crc))' = 1
              BY ONLY <4>1, <4>5, <4>2, <4>3 DEF Choose, OBSOLETE_FLAG, ACTIVE_FLAG
        <5> QED BY ONLY Zenon, <4>1, <4>5, <4>2, <4>3, <5>1 DEF Pick
      <4> QED
          BY ONLY <1>3, <4>4, <4>5 DEF Copies
    <3> QED
        BY Zenon, <1>1, <1>17, <2>1, <2>3, <3>1, <3>2 DEF Flag, ReturnOk, SfInv, Settled, Saving
  <2> QED
      BY Zenon, <1>17, <2>2, <2>3 DEF Flag
<1> QED
    BY Zenon, <1>8, <1>9, <1>10, <1>11, <1>12, <1>13, <1>14, <1>15, <1>16, <1>17 DEF Next

\* The storage starts blank.
LEMMA InvInit == Init => SfInv
<1> SUFFICES ASSUME Init
             PROVE  SfInv
    BY Zenon
<1>1. TypeOK
  <2>1. Blank \in [crc : BOOLEAN, flags : 0..255, data : Values]
        BY EnvAssumption DEF Blank
  <2>2. 1 \in Copies
        BY DEF Copies
  <2> QED
      BY ZenonT(30), <2>1, <2>2, EnvAssumption DEF Init, BaseInit, TypeOK, BaseTypeOK
<1>2. Pick = Default /\ InUse = Default
      BY DEF Init, BaseInit, Pick, InUse, Choose, Crc, Copies, Blank
<1> QED
    BY Zenon, <1>1, <1>2 DEF Init, BaseInit, SfInv, Pcs, Settled, Saving

\* The invariant holds in every state of env_sf.c: with any call of saveenv or
\* of the boot failing, and the power failing between any two steps.
THEOREM SfInvariant == Spec => []SfInv
<1>1. Init => SfInv
      BY Zenon, InvInit
<1>2. SfInv /\ [Next]_vars => SfInv'
      BY Zenon, InvStep
<1> QED
    BY <1>1, <1>2, PTL DEF Spec

\* The variables of env_sf.c keep their types.
THEOREM SfTypeCorrect == Spec => []TypeOK
<1>1. SfInv => TypeOK
      BY Zenon DEF SfInv
<1> QED
    BY <1>1, SfInvariant, PTL

\* Whenever the power fails, the next boot loads the environment saved last or
\* one whose save has not completed.
THEOREM SfDurable == Spec => []Durable
<1>1. SfInv => Durable
      BY Zenon DEF SfInv, Durable, Settled, req
<1> QED
    BY <1>1, SfInvariant, PTL

\* Every step of env_sf.c is a step of EnvStore or changes nothing there.
LEMMA StepRefines == SfInv /\ [Next]_vars => [Promise!Next]_(Promise!storeVars)
<1> SUFFICES ASSUME SfInv, [Next]_vars
             PROVE  Promise!Next \/ UNCHANGED Promise!storeVars
    BY Zenon
<1>1. (loaded = None) <=> (pc = "off")
      BY Zenon DEF SfInv
<1>2. None \notin Values /\ env \in Values /\ env # None /\ Default \in Values
      BY EnvAssumption DEF SfInv, TypeOK, BaseTypeOK
<1>3. CASE env_relocate_spec
  <2>1. pc = "off" /\ pc' = "idle" /\ req = None /\ req' = None
        BY Zenon, <1>3 DEF env_relocate_spec, Import, ImportFault, req, Saving
  <2>2. CASE Import(Choose(Crc))
    <3>1. Pick \in {saved} \cup maybe
          BY Zenon, <2>1 DEF SfInv, Settled, Saving
    <3>2. loaded' = Pick /\ saved' = Pick
          BY Zenon, <2>2 DEF Import, Pick
    <3>3. Promise!Boot
          BY Zenon, <1>1, <2>1, <2>2, <3>1, <3>2 DEF Promise!Boot, Import
    <3> QED
        BY Zenon, <3>3 DEF Promise!Next
  <2>3. ASSUME NEW c, NEW v \in Values, ImportFault(c, v)
        PROVE  Promise!Next
        BY Zenon, <1>1, <2>1, <2>3 DEF Promise!Next, Promise!BootFault, ImportFault
  <2>4. (IF copy[1].crc THEN copy[1].data ELSE Default) \in Values
        BY <1>2 DEF SfInv, TypeOK, BaseTypeOK, Copies
  <2> QED
      BY Zenon, <1>2, <1>3, <2>2, <2>3, <2>4 DEF env_relocate_spec
<1>4. CASE saveenv_refused
      BY Zenon, <1>1, <1>2, <1>4
      DEF saveenv_refused, SaveRefused, req, Saving, Promise!Next, Promise!Refuse
<1>5. CASE saveenv
      BY Zenon, <1>1, <1>2, <1>5 DEF saveenv, SaveBegin, req, Saving, Promise!Next, Promise!Save
<1>6. CASE Erase \/ Write \/ Restore
  <2>1. /\ env' = env /\ UNCHANGED <<loaded, clean>>
        /\ Saving /\ req = env
        BY Zenon, <1>6 DEF Erase, Write, Restore, Saving, req
  <2>2. CASE ReturnFail
        BY Zenon, <1>2, <2>1, <2>2 DEF ReturnFail, Saving, req, Promise!Next, Promise!FinishFail
  <2>3. CASE pc' \in {"write", "restore", "flag"} /\ UNCHANGED <<result, saved, maybe>>
        BY Zenon, <2>1, <2>3 DEF Saving, req, Promise!storeVars
  <2> QED
      BY Zenon, <1>6, <2>2, <2>3 DEF Erase, Write, Restore, GoOn
<1>7. CASE Flag
  <2>1. /\ env' = env /\ UNCHANGED <<loaded, clean>>
        /\ Saving /\ req = env
        BY Zenon, <1>7 DEF Flag, Saving, req
  <2>2. CASE ReturnFail
        BY Zenon, <1>2, <2>1, <2>2 DEF ReturnFail, Saving, req, Promise!Next, Promise!FinishFail
  <2>3. CASE ReturnOk
        BY Zenon, <1>2, <2>1, <2>3 DEF ReturnOk, Saving, req, Promise!Next, Promise!FinishOk
  <2> QED
      BY Zenon, <1>7, <2>2, <2>3 DEF Flag
<1>8. CASE SetEnv \/ UNCHANGED vars
      BY Zenon, <1>8 DEF SetEnv, vars, req, Saving, Promise!storeVars
<1>9. CASE PowerFail
  <2>1. maybe' = maybe \cup ({req} \ {None})
        BY Zenon, <1>2, <1>9 DEF PowerFail, req
  <2>2. req' = None /\ loaded # None
        BY Zenon, <1>1, <1>9 DEF PowerFail, req, Saving
  <2> QED
      BY Zenon, <1>9, <2>1, <2>2 DEF PowerFail, Promise!Next, Promise!PowerFail
<1> QED
    BY Zenon, <1>3, <1>4, <1>5, <1>6, <1>7, <1>8, <1>9 DEF Next

\* env_sf.c implements EnvStore: what the boot and saveenv do together is what
\* EnvStore promises, whatever fails.
THEOREM SfRefinesStore == Spec => Refines
<1>1. Init => Promise!Init
      BY Zenon DEF Init, BaseInit, Promise!Init, req, Saving
<1>2. SfInv /\ [Next]_vars => [Promise!Next]_(Promise!storeVars)
      BY Zenon, StepRefines
<1> QED
    BY <1>1, <1>2, SfInvariant, PTL DEF Spec, Refines, Promise!Spec

-----------------------------------------------------------------------------
\* A system that could read the storage, and knows an environment other than
\* the default one to be saved, runs on a good copy.
InUseGood == (clean /\ pc # "off" /\ saved # Default) => copy[active].crc

\* saveenv leaves the copy in use alone until the new one is complete.
LEMMA InUseStep == SfInv /\ InUseGood /\ [Next]_vars => InUseGood'
<1> SUFFICES ASSUME SfInv, InUseGood, [Next]_vars
             PROVE  InUseGood'
    BY Zenon
<1>1. active \in Copies /\ Other(active) \in Copies /\ Other(active) # active
      BY Zenon, OtherCopy DEF SfInv, TypeOK, BaseTypeOK
<1>2. copy \in [Copies -> [crc : BOOLEAN, flags : 0..255, data : Values]]
      BY Zenon DEF SfInv, TypeOK, BaseTypeOK
<1>3. CASE env_relocate_spec
      BY Zenon, <1>3 DEF env_relocate_spec, Import, ImportFault, InUseGood
<1>4. CASE Erase \/ Write \/ Restore
  <2>1. pc # "off" /\ UNCHANGED <<active, clean, saved>>
        BY Zenon, <1>4 DEF Erase, Write, Restore, GoOn, ReturnFail
  <2>2. copy'[active] = copy[active]
        BY ZenonT(30), <1>1, <1>2, <1>4 DEF Erase, Write, Restore
  <2> QED
      BY Zenon, <2>1, <2>2 DEF InUseGood
<1>5. CASE Flag
  <2>1. copy[Other(active)] = EnvNew /\ pc = "flag"
        BY Zenon, <1>5 DEF SfInv, Flag
  <2>2. CASE ReturnFail /\ UNCHANGED active
    <3>1. copy'[active].crc = copy[active].crc
          BY ZenonT(30), <1>1, <1>2, <1>5, <2>2 DEF Flag
    <3> QED
        BY Zenon, <1>5, <2>1, <2>2, <3>1 DEF Flag, ReturnFail, InUseGood
  <2>3. CASE active' = Other(active) /\ copy' = [copy EXCEPT ![active].flags = OBSOLETE_FLAG]
    <3>1. copy'[Other(active)] = EnvNew
          BY ZenonT(30), <1>1, <1>2, <2>1, <2>3
    <3> QED
        BY <2>3, <3>1 DEF InUseGood, EnvNew
  <2> QED
      BY Zenon, <1>5, <2>2, <2>3 DEF Flag
<1>6. CASE saveenv_refused \/ saveenv \/ (SetEnv \/ PowerFail) \/ UNCHANGED vars
      BY Zenon, <1>6 DEF saveenv_refused, saveenv, SaveRefused, SaveBegin, SetEnv, PowerFail,
                  vars, InUseGood
<1> QED
    BY Zenon, <1>3, <1>4, <1>5, <1>6 DEF Next

\* No step takes the copy in use away.
LEMMA BackupStep ==
  SfInv /\ InUseGood /\ [Next]_vars => [clean /\ saved # Default /\ HasCopy => HasCopy']_baseVars
<1> SUFFICES ASSUME SfInv, InUseGood, [Next]_vars, clean, saved # Default, HasCopy
             PROVE  HasCopy'
    BY Zenon
<1>1. active \in Copies /\ Other(active) \in Copies /\ Other(active) # active
      BY Zenon, OtherCopy DEF SfInv, TypeOK, BaseTypeOK
<1>2. copy \in [Copies -> [crc : BOOLEAN, flags : 0..255, data : Values]]
      BY Zenon DEF SfInv, TypeOK, BaseTypeOK
<1>3. CASE UNCHANGED copy
      BY Zenon, <1>3 DEF HasCopy
<1>4. CASE Erase \/ Write \/ Flag
  <2>1. copy[active].crc
        BY Zenon, <1>4 DEF InUseGood, Erase, Write, Flag
  <2>2. copy'[active].crc = copy[active].crc
        BY ONLY <1>1, <1>2, <1>4 DEF Erase, Write, Flag
  <2> QED
      BY Zenon, <1>1, <2>1, <2>2 DEF HasCopy
<1> QED
    BY Zenon, <1>3, <1>4 DEF Next, vars, env_relocate_spec, Import, ImportFault, saveenv_refused,
       SaveRefused, saveenv, SaveBegin, Restore, SetEnv, PowerFail

\* The point of a redundant environment: once one has been saved, neither a
\* failing call nor a power failure, at any step of saveenv, leaves the flash
\* without a good copy.
THEOREM SfBackupKept == Spec => BackupKept
<1>1. Init => InUseGood
      BY Zenon DEF Init, BaseInit, InUseGood
<1>2. SfInv /\ InUseGood /\ [Next]_vars => InUseGood'
      BY Zenon, InUseStep
<1>3. SfInv /\ InUseGood /\ [Next]_vars =>
        [clean /\ saved # Default /\ HasCopy => HasCopy']_baseVars
      BY Zenon, BackupStep
<1> QED
    BY <1>1, <1>2, <1>3, SfInvariant, PTL DEF Spec, BackupKept

-----------------------------------------------------------------------------
(* ARP.                                                                    *)

Ops == [proto : {"ping", "udp"}, host : Hosts] \cup {[proto |-> "dhcp", host |-> Bcast], NoOp}

(* What every step preserves.  The buffer holds the packet of the command  *)
(* that ran last, and a wait is for that packet unless the command         *)
(* broadcasts: then it may be left from an earlier one.  A "udp" command   *)
(* knows the address of its own next hop or none, and once it knows it     *)
(* nothing waits.                                                          *)
ArpInv ==
  /\ op \in Ops /\ loop \in {"idle", "run", "success", "pause"}
  /\ net_tx_packet = op
  /\ net_arp_wait_packet_ip # 0 /\ op.host # Bcast =>
       /\ net_arp_wait_packet_ip = op.host /\ net_arp_wait_reply_ip = NextHop(op.host)
       /\ arp_wait_tx_packet_size = op.proto
  /\ op.proto = "udp" /\ net_server_ethaddr # 0 =>
       net_server_ethaddr = NextHop(op.host) /\ net_arp_wait_packet_ip = 0
  /\ loop # "idle" => op # NoOp
  /\ op.proto = "dhcp" => out
  /\ loop = "run" /\ ~out => net_arp_wait_packet_ip = op.host
  /\ FrameRight

USE ArpAssumption

\* An operation is one of three kinds, or none.
LEMMA OpKinds ==
  ASSUME NEW o \in Ops
  PROVE  \/ o.proto = "ping" /\ o.host \in Hosts /\ o.host # 0 /\ o.host # Bcast
         \/ o.proto = "udp" /\ o.host \in Hosts /\ o.host # 0 /\ o.host # Bcast
         \/ o.proto = "dhcp" /\ o.host = Bcast
         \/ o = NoOp /\ o.proto = "none" /\ o.host = 0
BY DEF Ops, NoOp, Bcast

\* The kinds of a frame's fields.
LEMMA FrameFields ==
  ASSUME NEW m, NEW p, NEW z
  PROVE  /\ Frame(m, p, z).mac = m /\ Frame(m, p, z).host = p.host
         /\ Frame(m, p, z).proto = p.proto /\ Frame(m, p, z).size = z
BY Zenon DEF Frame

\* Starting a protocol, whatever was there before: ping and "udp" wait for their
\* own next hop, and DHCP broadcasts.
LEMMA StartInv ==
  ASSUME ArpInv, NEW o \in Ops, o # NoOp, NEW try, StartProtocol(o, try)
  PROVE  ArpInv'
<1>1. CASE o.proto = "ping"
  <2>1. Wait(o, arp_wait_packet_ethaddr) /\ op' = o /\ loop' = "run"
        /\ o.host \in Hosts /\ o.host # 0 /\ o.host # Bcast
    BY Zenon, <1>1, OpKinds DEF StartProtocol, ping_send, NoOp
  <2> QED BY Zenon, <2>1, <1>1 DEF ArpInv, Wait, arp_request, FrameRight, NextHop
<1>2. CASE o.proto = "udp"
  <2>1. Wait(o, TRUE) /\ op' = o /\ loop' = "run" /\ net_server_ethaddr' = 0
        /\ o.host \in Hosts /\ o.host # 0 /\ o.host # Bcast
    BY Zenon, <1>2, OpKinds DEF StartProtocol, net_send_udp_packet, Forget, NoOp
  <2> QED BY Zenon, <2>1, <1>2 DEF ArpInv, Wait, arp_request, FrameRight, NextHop
<1>3. CASE o.proto = "dhcp"
  <2>1. /\ o.host = Bcast /\ op' = o /\ loop' = "run" /\ net_tx_packet' = o /\ out'
        /\ sent' = Frame(Bcast, o, o.proto)
    BY Zenon, <1>3, OpKinds DEF StartProtocol, net_send_udp_packet
  <2> QED BY <2>1, <1>3, FrameFields DEF ArpInv, FrameRight
<1> QED BY Zenon, <1>1, <1>2, <1>3, OpKinds

\* A packet that "udp" or DHCP sends once more.
LEMMA SendInv ==
  ASSUME ArpInv, op.proto # "ping", op # NoOp,
         net_send_udp_packet(op, net_server_ethaddr, arp_wait_try),
         UNCHANGED <<loop, op, has_ip, net_server_ethaddr>>
  PROVE  ArpInv'
<1> USE DEF ArpInv
<1>1. CASE op.host # Bcast /\ net_server_ethaddr = 0
  <2>1. Wait(op, TRUE) /\ op.proto = "udp" /\ op.host # 0
    BY Zenon, <1>1, OpKinds DEF net_send_udp_packet
  <2> QED BY Zenon, <2>1, <1>1 DEF Wait, arp_request, FrameRight, NextHop
<1>2. CASE op.host # Bcast /\ net_server_ethaddr # 0
  <2>1. /\ sent' = Frame(net_server_ethaddr, op, op.proto) /\ out' /\ net_tx_packet' = op
        /\ UNCHANGED <<net_arp_wait_packet_ip, net_arp_wait_reply_ip, arp_wait_tx_packet_size>>
        /\ op.proto = "udp"
    BY Zenon, <1>2, OpKinds DEF net_send_udp_packet
  <2> QED BY <2>1, <1>2, FrameFields DEF FrameRight, NextHop
<1>3. CASE op.host = Bcast
  <2>1. sent' = Frame(Bcast, op, op.proto) /\ out' /\ net_tx_packet' = op
        /\ op.proto = "dhcp"
    BY Zenon, <1>3, OpKinds DEF net_send_udp_packet, Bcast
  <2> QED BY <2>1, <1>3, FrameFields DEF FrameRight
<1> QED BY Zenon, <1>1, <1>2, <1>3

\* net_start_again, which a step calls that leaves the rest to it.
LEMMA AgainInv ==
  ASSUME ArpInv, NEW try, op # NoOp, net_start_again(try)
  PROVE  ArpInv'
<1>1. CASE StartProtocol(op, try)
  BY Zenon, <1>1, StartInv DEF ArpInv
<1>2. CASE ~StartProtocol(op, try)
  BY ZenonT(30), <1>2 DEF net_start_again, ArpInv, FrameRight, NextHop
<1> QED BY Zenon, <1>1, <1>2

-----------------------------------------------------------------------------
\* The first state: nothing runs, nothing waits and nothing has been sent.
LEMMA InitInv == ArpInit => ArpInv
BY FrameFields DEF ArpInit, ArpInv, Ops, NoOp, FrameRight

\* The step in which an answer releases the packet that waits.
LEMMA ReceiveArpInv == ArpInv /\ arp_receive => ArpInv'
<1> SUFFICES ASSUME ArpInv, arp_receive PROVE ArpInv'
  BY Zenon
<1>1. /\ loop # "idle" /\ net_arp_wait_packet_ip # 0
      /\ sent' = Frame(net_arp_wait_reply_ip, net_tx_packet, arp_wait_tx_packet_size)
      /\ net_server_ethaddr' \in {net_arp_wait_reply_ip, net_server_ethaddr}
      /\ net_arp_wait_packet_ip' = 0 /\ out'
      /\ UNCHANGED <<loop, op, net_tx_packet>>
  BY Zenon DEF arp_receive, Awaited
<1>2. FrameRight'
  BY <1>1, FrameFields DEF ArpInv, FrameRight, NextHop
<1>3. op.proto = "udp" => net_server_ethaddr' \in {NextHop(op.host), net_server_ethaddr}
  BY Zenon, <1>1, OpKinds DEF ArpInv
<1> QED BY Zenon, <1>1, <1>2, <1>3 DEF ArpInv, NextHop

\* The step in which an ARP request has had no answer for a while.
LEMMA TimeoutArpInv == ArpInv /\ arp_timeout_check => ArpInv'
<1> SUFFICES ASSUME ArpInv, arp_timeout_check PROVE ArpInv'
  BY Zenon
<1>1. CASE net_start_again(0)
  BY Zenon, <1>1, AgainInv DEF arp_timeout_check, ArpInv
<1>2. CASE ~net_start_again(0)
  BY <1>2 DEF arp_timeout_check, TriesOver, arp_request, ArpInv, FrameRight, NextHop
<1> QED BY Zenon, <1>1, <1>2

\* Every step preserves the invariant.
LEMMA StepInv == ArpInv /\ [ArpNext]_arpVars => ArpInv'
<1> SUFFICES ASSUME ArpInv, [ArpNext]_arpVars PROVE ArpInv'
  BY Zenon
<1>1. CASE Command
  <2>1. PICK o \in Ops : o # NoOp /\ StartProtocol(o, arp_wait_try)
    BY Zenon, <1>1 DEF Command, Ops, NoOp
  <2> QED BY Zenon, <2>1, StartInv
<1>2. CASE arp_receive
  BY Zenon, <1>2, ReceiveArpInv
<1>3. CASE arp_timeout_check
  BY Zenon, <1>3, TimeoutArpInv
<1>4. CASE TimeOut
  <2>1. op # NoOp
    BY Zenon, <1>4 DEF TimeOut, ArpInv
  <2>2. CASE net_start_again(arp_wait_try)
    BY Zenon, <2>1, <2>2, AgainInv
  <2>3. CASE StartProtocol(op, arp_wait_try)
    BY Zenon, <2>1, <2>3, StartInv DEF ArpInv
  <2>4. CASE /\ op.proto # "ping" /\ UNCHANGED <<loop, op, has_ip, net_server_ethaddr>>
             /\ net_send_udp_packet(op, net_server_ethaddr, arp_wait_try)
    BY Zenon, <2>1, <2>4, SendInv
  <2> QED BY Zenon, <1>4, <2>2, <2>3, <2>4 DEF TimeOut
<1>5. CASE Receive
  <2>1. op # NoOp
    BY Zenon, <1>5 DEF Receive, ArpInv
  <2>2. CASE loop' = "success"
    <3>1. UNCHANGED <<op, net_tx_packet, net_server_ethaddr, waitVars, sent, out>>
      BY Zenon, <1>5, <2>2 DEF Receive
    <3> QED BY Zenon, <2>1, <2>2, <3>1 DEF waitVars, ArpInv, FrameRight, NextHop
  <2>3. CASE /\ op.proto # "ping" /\ UNCHANGED <<loop, op, has_ip, net_server_ethaddr>>
             /\ net_send_udp_packet(op, net_server_ethaddr, arp_wait_try)
    BY Zenon, <2>1, <2>3, SendInv
  <2> QED BY Zenon, <1>5, <2>2, <2>3 DEF Receive
<1>6. CASE Reply
  <2>1. PICK h \in Hosts :
          sent' = Frame(NextHop(h), [proto |-> "reply", host |-> h], "reply")
    BY Zenon, <1>6 DEF Reply
  <2>2. FrameRight'
    BY <2>1, FrameFields DEF FrameRight, NextHop
  <2> QED BY Zenon, <1>6, <2>2 DEF Reply, waitVars, ArpInv, NextHop
<1>7. CASE Success
  BY Zenon, <1>7 DEF Success, waitVars, ArpInv, FrameRight, NextHop
<1>8. CASE CtrlC
  BY Zenon, <1>8, OpKinds DEF CtrlC, ArpInv, FrameRight, NextHop
<1>9. CASE UNCHANGED arpVars
  BY Zenon, <1>9 DEF arpVars, waitVars, ArpInv, FrameRight, NextHop
<1> QED BY Zenon, <1>1, <1>2, <1>3, <1>4, <1>5, <1>6, <1>7, <1>8, <1>9 DEF ArpNext

\* The invariant holds in every state.
THEOREM ArpInvariant == ArpSpec => []ArpInv
BY InitInv, StepInv, PTL DEF ArpSpec

\* net_send_udp_packet, ping and arp_receive send every packet for a host to
\* that host or to the gateway, whole, whatever an earlier command has left.
THEOREM FramesRight == ArpSpec => []FrameRight
<1>1. ArpInv => FrameRight
  BY Zenon DEF ArpInv
<1> QED BY <1>1, ArpInvariant, PTL

\* A protocol that waits for an answer has its packet on the way, or waiting for
\* the address of its own next hop.
THEOREM PacketsKept == ArpSpec => []PacketKept
<1>1. ArpInv => PacketKept
  BY Zenon, OpKinds DEF ArpInv, PacketKept
<1> QED BY <1>1, ArpInvariant, PTL
=============================================================================
