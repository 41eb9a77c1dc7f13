-------------------------- MODULE EnvStoresProofs ---------------------------
(***************************************************************************)
(* EnvStores, for every set of environments and of failing calls: its      *)
(* backends do what BoardSpec says, so that what EnvBoardProofs proves of  *)
(* BoardSpec holds of them.                                                *)
(***************************************************************************)
EXTENDS EnvStores, EnvBoardProofs

\* env_init chooses as FlashChoice does.
LEMMA FlashChoiceIs ==
  ASSUME NEW sf, NEW bf
  PROVE  Flash(sf, bf)!Choose(Flash(sf, bf)!Crc) = FlashChoice
BY DEF Flash!Choose, Flash!Crc, Flash!Copies, Flash!OBSOLETE_FLAG,
       Flash!ACTIVE_FLAG, FlashChoice

\* The steps of env_flash.c.
LEMMA FlashSteps ==
  ASSUME NEW sf, NEW bf, sf = NorFaults, Flash(sf, bf)!Next
  PROVE  FlashStep
<1>1. CASE Flash(sf, bf)!env_init
  <2>1. FlashInit
    BY <1>1, FlashChoiceIs
    DEF Flash!env_init, Flash!Copies, Flash!Import, FlashInit, HasCopy, Copies, Import
  <2> QED BY Zenon, <2>1 DEF FlashStep
<1>2. CASE Flash(sf, bf)!ObsoleteOther
  <2>1. FlashRepairs
    BY Zenon, <1>2 DEF Flash!ObsoleteOther, Flash!Other, Flash!OBSOLETE_FLAG,
                FlashRepairs, Other
  <2> QED BY Zenon, <2>1 DEF FlashStep
<1>3. CASE Flash(sf, bf)!Activate
  <2>1. copy[active].flags = 0 => copy[active].flags % 2 # 1  OBVIOUS
  <2>2. FlashImports
    BY <1>3, <2>1 DEF Flash!Activate, Flash!ACTIVE_FLAG, FlashImports
  <2> QED BY Zenon, <2>2 DEF FlashStep
<1>4. CASE Flash(sf, bf)!saveenv_refused
  <2>1. SaveRefused(env) \/ FlashAlloc
    BY <1>4 DEF Flash!saveenv_refused, Flash!SaveRefused, Flash!ReturnOk,
                SaveRefused, FlashAlloc, ReturnOk
  <2> QED BY Zenon, <2>1 DEF FlashStep, Quiet
<1>5. CASE Flash(sf, bf)!saveenv \/ Flash(sf, bf)!SetEnv \/ Flash(sf, bf)!PowerFail
  <2>1. SaveBegin("erase") \/ SetEnv \/ PowerFail
    BY <1>5 DEF Flash!saveenv, Flash!SaveBegin, Flash!SetEnv,
                Flash!PowerFail, Flash!Saving, SaveBegin, SetEnv, PowerFail, Saving
  <2> QED BY <2>1 DEF FlashStep, Quiet
<1>6. CASE Flash(sf, bf)!Erase
  <2>1. FlashErases
    BY <1>6 DEF Flash!Erase, Flash!Other, Flash!Blank, Flash!GoOn,
                Flash!ReturnOk, FlashErases, Other, Blank, GoOn, ReturnOk
  <2> QED BY <2>1 DEF FlashStep
<1>7. CASE Flash(sf, bf)!Write
  <2>1. FlashWrites
    BY Zenon, <1>7 DEF Flash!Write, Flash!Other, Flash!EnvNew, Flash!ACTIVE_FLAG,
                Flash!GoOn, Flash!ReturnFail, FlashWrites, FlashNew, Other, GoOn, ReturnFail
  <2> QED BY Zenon, <2>1 DEF FlashStep
<1>8. CASE Flash(sf, bf)!Flag
  <2>1. FlashMarks
    BY Zenon, <1>8 DEF Flash!Flag, Flash!Other, Flash!OBSOLETE_FLAG, Flash!GoOn,
                Flash!ReturnOk, Flash!ReturnFail, FlashMarks, Other, GoOn, ReturnOk,
                ReturnFail
  <2> QED BY Zenon, <2>1 DEF FlashStep
<1>9. CASE Flash(sf, bf)!Restore
  <2>1. FlashRestores
    BY <1>9 DEF Flash!Restore, Flash!Other, Flash!ReturnOk, FlashRestores, Other,
                ReturnOk
  <2> QED BY Zenon, <2>1 DEF FlashStep
<1> QED BY <1>1, <1>2, <1>3, <1>4, <1>5, <1>6, <1>7, <1>8, <1>9 DEF Flash!Next

\* MMC and NAND flash boot alike.
LEMMA SerialBootIs ==
  ASSUME NEW sf, NEW bf, NEW top
  PROVE  /\ Mmc(sf, bf, top)!env_relocate_spec => Serial(bf, top)!env_relocate_spec
         /\ Nand(sf, bf, top)!env_relocate_spec => Serial(bf, top)!env_relocate_spec
BY Zenon DEF Mmc!env_relocate_spec, Mmc!Import, Mmc!ImportFault,
       Mmc!ImportOthers, Mmc!Choose, Mmc!Crc, Mmc!SerialOf,
       Mmc!Copies, Nand!env_relocate_spec, Nand!Import,
       Nand!ImportFault, Nand!ImportOthers, Nand!Choose, Nand!Crc,
       Nand!SerialOf, Nand!Copies, Serial!env_relocate_spec,
       Serial!Import, Serial!ImportFault, Serial!ImportOthers,
       Serial!Choose, Serial!Crc, Serial!SerialOf, Serial!Copies

\* What env_relocate_spec leaves, whatever it could not read.
LEMMA SerialBoots ==
  ASSUME NEW bf, NEW top, bf = ReadFaults, top = Top, Serial(bf, top)!env_relocate_spec
  PROVE  SerialBoot
<1> DEFINE S(ok) == Serial(bf, top)!Choose(ok)
<1>1. \A ok : S(ok) \in Copies /\ ((\E i \in Copies : ok[i]) => ok[S(ok)])
  BY DEF Serial!Choose, Copies
<1>2. S(Crc) = SerialChoice  BY DEF Serial!Choose, Crc, SerialChoice, Copies
<1>3. Serial(bf, top)!Crc = Crc /\ Serial(bf, top)!Copies = Copies
  BY Zenon DEF Serial!Crc, Serial!Copies, Crc, Copies
<1>4. SerialChoice \in Copies /\ Crc[SerialChoice] = copy[SerialChoice].crc
      /\ (HasCopy <=> \E i \in Copies : Crc[i])
  BY Chooses, Zenon DEF Crc, HasCopy
<1>5. Serial(bf, top)!SerialOf(Crc) = IF HasCopy THEN copy[SerialChoice].flags ELSE 0
  BY <1>2, <1>3, <1>4, Zenon DEF Serial!SerialOf
<1>6. /\ pc = "off" /\ pc' = "idle" /\ UNCHANGED <<copy, result>> /\ loaded' = env'
  BY Zenon DEF Serial!env_relocate_spec, Serial!Import, Serial!ImportFault,
         Serial!ImportOthers
<1>7. CASE Serial(bf, top)!Import(S(Crc)) /\ env_flags' = Serial(bf, top)!SerialOf(Crc)
  <2>1. /\ clean' = TRUE /\ active' = SerialChoice /\ env' = Loads(SerialChoice)
        /\ saved' = env' /\ maybe' = {}
        /\ env_flags' = IF HasCopy THEN copy[SerialChoice].flags ELSE 0
    BY <1>2, <1>5, <1>7, Zenon DEF Serial!Import, Loads
  <2>2. copy[SerialChoice].crc <=> HasCopy  BY <1>4, Chooses, Zenon DEF HasCopy
  <2> QED BY <1>4, <1>6, <2>1, <2>2, Zenon DEF SerialBoot, Loads
<1>8. CASE Serial(bf, top)!ImportFault(S(Crc), Default)
           /\ env_flags' = Serial(bf, top)!SerialOf(Crc)
  <2>1. /\ clean' = FALSE /\ active' = SerialChoice /\ env' = Default /\ UNCHANGED <<saved, maybe>>
        /\ env_flags' = IF HasCopy THEN copy[SerialChoice].flags ELSE 0
    BY <1>2, <1>5, <1>8, Zenon DEF Serial!ImportFault
  <2> QED BY <1>4, <1>6, <2>1, Chooses, Zenon DEF SerialBoot
<1>9. CASE "init" \in bf /\ Serial(bf, top)!ImportFault(1, Default) /\ env_flags' = 0
  <2>1. 1 \in Copies /\ ReadFaults \cap {"init", "read1", "read2"} # {}  BY <1>9 DEF Copies
  <2> QED BY <1>6, <1>9, <2>1, Zenon DEF SerialBoot, Serial!ImportFault
<1>10. ASSUME NEW lost, ReadFaults \cap {"init", "read1", "read2"} # {},
              Serial(bf, top)!ImportOthers(lost)
       PROVE  SerialBoot
  <2> DEFINE ok == [i \in Copies |-> copy[i].crc /\ i \notin lost]
  <2>1. /\ clean' = FALSE /\ active' = S(ok) /\ UNCHANGED <<saved, maybe>>
        /\ env' = IF ok[S(ok)] THEN copy[S(ok)].data ELSE Default
        /\ env_flags' = IF \E i \in Copies : ok[i] THEN copy[S(ok)].flags ELSE 0
    BY <1>3, <1>10, Zenon
    DEF Serial!ImportOthers, Serial!ImportFault, Serial!SerialOf
  <2>2. \A i \in Copies : ok[i] => copy[i].crc  BY Zenon
  <2> HIDE DEF ok, S
  <2>3. active' \in Copies
        /\ (env' = Default \/ (copy[active'].crc /\ env' = copy[active'].data))
        /\ (env_flags' = 0 \/ (copy[active'].crc /\ env_flags' = copy[active'].flags))
    BY <1>1, <2>1, <2>2, Zenon
  <2> QED BY <1>6, <1>10, <2>1, <2>3, Zenon DEF SerialBoot
<1>11. "read1" \in bf \/ "read2" \in bf => ReadFaults \cap {"init", "read1", "read2"} # {}
  BY Zenon
<1> QED BY <1>3, <1>7, <1>8, <1>9, <1>10, <1>11, Zenon DEF Serial!env_relocate_spec

\* The steps of env_mmc.c.
LEMMA MmcSteps ==
  ASSUME NEW sf, NEW bf, NEW top, sf = Faults, bf = ReadFaults, top = Top,
         Mmc(sf, bf, top)!Next
  PROVE  MmcStep
<1>1. CASE Mmc(sf, bf, top)!env_relocate_spec
  BY <1>1, SerialBootIs, SerialBoots, Zenon DEF MmcStep
<1>2. CASE \/ Mmc(sf, bf, top)!saveenv_refused
           \/ (Mmc(sf, bf, top)!SetEnv \/ Mmc(sf, bf, top)!PowerFail) /\ UNCHANGED env_flags
  <2>1. Quiet /\ UNCHANGED env_flags
    BY Zenon, <1>2 DEF Mmc!saveenv_refused, Mmc!SaveRefused, Mmc!SetEnv,
                Mmc!PowerFail, Mmc!Saving, Quiet, SaveRefused, SetEnv, PowerFail, Saving
  <2> QED BY Zenon, <2>1 DEF MmcStep
<1>3. CASE Mmc(sf, bf, top)!saveenv_noaddr
  <2>1. "addr" \in Faults /\ SaveRefused(env) /\ Counts
    BY Zenon, <1>3 DEF Mmc!saveenv_noaddr, Mmc!SaveRefused, Mmc!NextSerial,
                SaveRefused, Counts
  <2> QED BY Zenon, <2>1 DEF MmcStep
<1>4. CASE Mmc(sf, bf, top)!saveenv
  <2>1. SaveBegin("write") /\ Counts
    BY Zenon, <1>4 DEF Mmc!saveenv, Mmc!SaveBegin, Mmc!NextSerial, SaveBegin, Counts
  <2> QED BY Zenon, <2>1 DEF MmcStep
<1>5. CASE Mmc(sf, bf, top)!WriteBegin
  <2>1. MmcTears
    BY Zenon, <1>5 DEF Mmc!WriteBegin, Mmc!Torn, Mmc!Other, Mmc!GoOn,
                MmcTears, Torn, Other, GoOn, ramVars
  <2> QED BY Zenon, <2>1 DEF MmcStep
<1>6. CASE Mmc(sf, bf, top)!WriteEnd
  <2>1. SerialWrites("torn")
    BY <1>6 DEF Mmc!WriteEnd, Mmc!Other, Mmc!EnvNew, Mmc!ReturnOk,
                SerialWrites, Other, EnvNew, ReturnOk, ramVars
  <2> QED BY Zenon, <2>1 DEF MmcStep
<1>7. CASE Mmc(sf, bf, top)!WriteFail
  <2>1. MmcFails
    BY Zenon, <1>7 DEF Mmc!WriteFail, Mmc!Torn, Mmc!Other, Mmc!EnvNew,
                Mmc!ReturnFail, MmcFails, Torn, Other, EnvNew, ReturnFail, ramVars
  <2> QED BY Zenon, <2>1 DEF MmcStep
<1> QED BY Zenon, <1>1, <1>2, <1>3, <1>4, <1>5, <1>6, <1>7 DEF Mmc!Next

\* The steps of env_nand.c.
LEMMA NandSteps ==
  ASSUME NEW sf, NEW bf, NEW top, sf = Faults, bf = ReadFaults, top = Top,
         Nand(sf, bf, top)!Next
  PROVE  NandStep
<1>1. CASE Nand(sf, bf, top)!env_relocate_spec
  BY <1>1, SerialBootIs, SerialBoots, Zenon DEF NandStep
<1>2. CASE \/ Nand(sf, bf, top)!saveenv_refused
           \/ (Nand(sf, bf, top)!SetEnv \/ Nand(sf, bf, top)!PowerFail) /\ UNCHANGED env_flags
  <2>1. Quiet /\ UNCHANGED env_flags
    BY <1>2 DEF Nand!saveenv_refused, Nand!SaveRefused, Nand!SetEnv,
                Nand!PowerFail, Nand!Saving, Quiet, SaveRefused, SetEnv, PowerFail, Saving
  <2> QED BY Zenon, <2>1 DEF NandStep
<1>3. CASE Nand(sf, bf, top)!saveenv
  <2>1. SaveBegin("erase") /\ Counts
    BY <1>3 DEF Nand!saveenv, Nand!SaveBegin, Nand!NextSerial, SaveBegin, Counts
  <2> QED BY Zenon, <2>1 DEF NandStep
<1>4. CASE Nand(sf, bf, top)!Erase
  <2>1. NandErases \/ NandTurns
    BY <1>4 DEF Nand!Erase, Nand!Other, Nand!Blank, Nand!GoOn,
                NandErases, NandTurns, Other, Blank, GoOn, ramVars
  <2> QED BY Zenon, <2>1 DEF NandStep
<1>5. CASE Nand(sf, bf, top)!Write
  <2>1. SerialWrites("write") \/ NandTurns
    BY Zenon, <1>5 DEF Nand!Write, Nand!Other, Nand!EnvNew, Nand!GoOn,
                Nand!ReturnOk, SerialWrites, NandTurns, Other, EnvNew, GoOn, ReturnOk, ramVars
  <2> QED BY Zenon, <2>1 DEF NandStep
<1>6. CASE Nand(sf, bf, top)!EraseInUse \/ Nand(sf, bf, top)!WriteInUse
  <2>1. NandInUse
    BY <1>6 DEF Nand!EraseInUse, Nand!WriteInUse, Nand!Blank,
                Nand!EnvNew, Nand!GoOn, Nand!ReturnOk, Nand!ReturnFail,
                NandInUse, Blank, EnvNew, GoOn, ReturnOk, ReturnFail, ramVars
  <2> QED BY Zenon, <2>1 DEF NandStep
<1> QED BY <1>1, <1>2, <1>3, <1>4, <1>5, <1>6 DEF Nand!Next

\* Every step of EnvStores is a step of BoardSpec.
LEMMA BoardSteps == StoresNext => BoardStep
<1> SUFFICES ASSUME StoresNext PROVE BoardStep  BY Zenon
<1>1. worn => /\ Top = WornMaxSerial /\ Faults = WornFaults /\ NorFaults = WornFlashFaults
              /\ ReadFaults = WornBootFaults
  BY Zenon DEF Top, Faults, NorFaults, ReadFaults
<1>2. ~worn => /\ Top = MaxSerial /\ Faults = SaveFaults /\ NorFaults = FlashFaults
               /\ ReadFaults = BootFaults
  BY Zenon DEF Top, Faults, NorFaults, ReadFaults
<1> QED BY <1>1, <1>2, FlashSteps, MmcSteps, NandSteps, Zenon DEF StoresNext, BoardStep

\* EnvStores implements BoardSpec.
LEMMA BoardImplemented == StoresSpec => BoardSpec
<1>1. StoresInit => BoardInit
  BY Zenon DEF StoresInit, BoardInit
<1>2. [StoresNext]_storesVars => [BoardStep]_boardVars
  BY Zenon, BoardSteps DEF storesVars, boardVars, vars
<1> QED BY <1>1, <1>2, PTL DEF StoresSpec, BoardSpec

-----------------------------------------------------------------------------
\* In NOR flash, on MMC and in NAND flash, for every set of environments and
\* of failing calls: the copies, the serial and the rest stay in their types.
THEOREM StoresTypes == StoresSpec => []StoresTypeOK
<1>1. StoresInv => StoresTypeOK
  <2> SUFFICES ASSUME StoresInv PROVE StoresTypeOK  BY Zenon
  <2>1. pc \in {"off", "select", "repair", "idle", "erase", "write", "torn", "restore", "flag",
                "erase2", "write2"}
    BY DEF StoresInv, Pcs
  <2> QED BY <2>1, Zenon DEF StoresInv, StoresTypeOK, BaseTypeOK, CopiesOK, CopyType,
                             Copies, Results, Top
<1> QED BY <1>1, BoardImplemented, BoardInvariant, PTL

\* In NOR flash and on MMC, whatever saveenv did, reported or failed to report:
\* a system that came up on a stored environment has a good copy for the next
\* boot, whichever calls fail.
THEOREM StoredStays == StoresSpec => []StaysStored
<1>1. StoresInv => StaysStored
  BY Zenon DEF StoresInv, StaysStored, HasCopy, Copies
<1> QED BY <1>1, BoardImplemented, BoardInvariant, PTL

\* On a board that is not worn, in NOR flash, on MMC and in NAND flash: once an
\* environment other than the default one has been saved, no step of saveenv or
\* of the boot, failing or cut off, leaves the storage without a good copy.
THEOREM StoresBackup == ASSUME Healthy PROVE StoresSpec => StoresBackupKept
<1>1. StoresInv /\ (worn \/ PromiseInv) /\ [BoardStep]_boardVars =>
        [~worn /\ clean /\ saved # Default /\ HasCopy => HasCopy']_storesVars
  <2> SUFFICES ASSUME StoresInv, worn \/ PromiseInv, [BoardStep]_boardVars,
                      ~UNCHANGED storesVars, ~worn, clean, saved # Default, HasCopy
               PROVE  HasCopy'
    BY Zenon
  <2>1. BoardStep /\ PromiseInv  BY Zenon DEF storesVars, boardVars, vars
  <2>2. active \in Copies  BY Zenon DEF StoresInv
  <2>3. ~Down => copy[active].crc  BY Zenon, <2>1 DEF PromiseInv
  <2>4. copy'[active].crc = copy[active].crc /\ (Down => \A c \in Copies : copy'[c].crc = copy[c].crc)
    BY Zenon, <2>1, GoodCopyStays
  <2> QED BY <2>2, <2>3, <2>4, Zenon DEF HasCopy, Copies
<1> QED BY <1>1, BoardImplemented, HealthyInvariant, PTL DEF BoardSpec, StoresBackupKept

\* With a serial, on a worn board, with any set of failing erases and writes, as
\* long as the serial has not gone round and the boots could read both copies:
\* saveenv has returned success only when the next boot loads what it saved.
THEOREM SerialSavesAreLoaded ==
  ASSUME SerialSeen PROVE StoresSpec => []SerialSavedIsLoaded
<1>1. SerialWorn => SerialSavedIsLoaded
  <2> SUFFICES ASSUME worn, board # "flash", SerialInv
               PROVE  Serial(WornBootFaults, WornMaxSerial)!SavedIsLoaded
    BY Zenon DEF SerialWorn, SerialSavedIsLoaded
  <2>1. Serial(WornBootFaults, WornMaxSerial)!Choose(
          Serial(WornBootFaults, WornMaxSerial)!Crc) = SerialChoice
    BY DEF Serial!Choose, Serial!Crc, Serial!Copies, SerialChoice, Top
  <2>2. BootPick = Loads(SerialChoice)  BY Zenon DEF BootPick, BootChoice
  <2> QED BY <2>1, <2>2, Zenon DEF SerialInv, Serial!SavedIsLoaded, Serial!Pick, Loads
<1> QED BY <1>1, BoardImplemented, WornInvariant, PTL

\* Every visible step on a board that is not worn is a step of EnvStore, or none.
LEMMA VisibleRefines ==
  ASSUME StoresInv, StoresInv', PromiseInv, ~worn, UNCHANGED worn, Visible
  PROVE  BoardPromise!Next \/ UNCHANGED BoardPromise!storeVars
<1>1. env \in Values /\ env' \in Values /\ None \notin Values /\ loaded' \in Values \cup {None}
  BY EnvAssumption DEF StoresInv
<1>2. ((loaded = None) <=> Down) /\ ((loaded' = None) <=> Down')  BY Zenon DEF StoresInv
<1>3. (Saving => ~Down) /\ (Down => ~Saving)  BY Zenon DEF Saving, Down
<1>4. (Saving => req = env) /\ (~Saving => req = None) /\ (Saving' => req' = env') /\ (~Saving' => req' = None)
  BY Zenon DEF req
<1> USE DEF Shown
<1>5. CASE Silent  BY <1>5, Zenon DEF Silent, BoardPromise!storeVars
<1>6. CASE BootsClean
  <2>1. ~Saving /\ ~Saving'  BY Zenon, <1>6 DEF BootsClean, Saving, Down
  <2>2. BootPick \in {saved} \cup maybe  BY <2>1, Zenon DEF PromiseInv, Settled
  <2> QED BY <1>2, <1>4, <1>6, <2>1, <2>2, Zenon
          DEF BootsClean, BoardPromise!Next, BoardPromise!Boot
<1>7. CASE BootsFaulty
  <2>1. ~Saving /\ ~Saving' /\ ~Down'  BY Zenon, <1>7 DEF BootsFaulty, Saving, Down
  <2>2. loaded' \in Values  BY <1>1, <1>2, <2>1
  <2> QED BY <1>2, <1>4, <1>7, <2>1, <2>2, Zenon
          DEF BootsFaulty, BoardPromise!Next, BoardPromise!BootFault
<1>8. CASE Ends
  <2>1. Saving /\ ~Saving'  BY Zenon, <1>8 DEF Ends, Saving, ReturnOk, ReturnFail
  <2>2. req = env /\ req' = None /\ env # None  BY <1>1, <1>4, <2>1, Zenon
  <2> QED BY <1>8, <2>2, Zenon DEF Ends, ReturnOk, ReturnFail, BoardPromise!Next,
                                  BoardPromise!FinishOk, BoardPromise!FinishFail
<1>9. CASE SaveBegin("erase") \/ SaveBegin("write")
  <2>1. ~Saving /\ ~Down /\ Saving' /\ UNCHANGED <<env, saved, loaded, clean>> /\ result' = "none"
    BY <1>9 DEF SaveBegin, Saving, Down
  <2>2. maybe' = IF clean THEN maybe ELSE Values  BY <1>9, Zenon DEF SaveBegin
  <2> QED BY <1>1, <1>2, <1>4, <2>1, <2>2, Zenon DEF BoardPromise!Next, BoardPromise!Save
<1>10. CASE SaveRefused(env)
  <2>1. /\ ~Saving /\ ~Down /\ ~Saving' /\ UNCHANGED <<saved, maybe, loaded, clean>> /\ result' = "failed"
    BY Zenon, <1>10 DEF SaveRefused, Saving, Down
  <2> QED BY <1>2, <1>4, <2>1, Zenon DEF BoardPromise!Next, BoardPromise!Refuse
<1>11. CASE PowerFail
  <2>1. /\ ~Saving' /\ UNCHANGED <<saved, clean>> /\ result' = "none" /\ loaded' = None
        /\ maybe' = maybe \cup (IF Saving THEN {env} ELSE {})
    BY Zenon, <1>11 DEF PowerFail, Saving
  <2>2. CASE Down
    <3>1. loaded = None /\ result = "none" /\ req = None /\ maybe' = maybe
      BY <1>2, <1>3, <1>4, <2>1, <2>2, Zenon DEF PromiseInv
    <3> QED BY <1>4, <2>1, <3>1, Zenon DEF BoardPromise!storeVars
  <2>3. CASE ~Down
    <3>1. {req} \ {None} = IF Saving THEN {env} ELSE {}  BY <1>1, <1>4
    <3> QED BY <1>2, <1>4, <2>1, <2>3, <3>1, Zenon
            DEF BoardPromise!Next, BoardPromise!PowerFail
  <2> QED BY <2>2, <2>3
<1> QED BY <1>5, <1>6, <1>7, <1>8, <1>9, <1>10, <1>11 DEF Visible

\* In NOR flash, on MMC and in NAND flash, saveenv and the boot keep the promise
\* of EnvStore on every board that is not worn: for every set of environments, up
\* to every serial, around its wrap, and with the power failing between any two
\* steps.
THEOREM StoresKeepPromise == ASSUME Healthy PROVE StoresSpec => StoresRefine
<1>1. BoardInit => BoardPromise!Init
  BY Zenon DEF BoardInit, Init, BaseInit, Shown, BoardPromise!Init, req, Saving
<1>2. /\ StoresInv /\ StoresInv' /\ (worn \/ PromiseInv) /\ [BoardStep]_boardVars
      => [BoardPromise!Next]_(BoardPromise!storeVars)
  <2> SUFFICES ASSUME StoresInv, StoresInv', worn \/ PromiseInv, [BoardStep]_boardVars
               PROVE  BoardPromise!Next \/ UNCHANGED BoardPromise!storeVars
    BY Zenon
  <2>1. CASE UNCHANGED boardVars
    BY Zenon, <2>1 DEF boardVars, vars, BoardPromise!storeVars, Shown, req, Saving
  <2>2. CASE BoardStep /\ worn
    <3>1. worn'  BY Zenon, <2>2 DEF BoardStep
    <3> QED BY <2>2, <3>1, Zenon DEF BoardPromise!storeVars, Shown
  <2>3. CASE BoardStep /\ ~worn
    <3>1. UNCHANGED worn  BY Zenon, <2>3 DEF BoardStep
    <3> QED BY <2>3, <3>1, StepsVisible, VisibleRefines
  <2> QED BY <2>1, <2>2, <2>3
<1> QED BY <1>1, <1>2, BoardImplemented, HealthyInvariant, PTL
        DEF BoardSpec, StoresRefine, BoardPromise!Spec
=============================================================================
