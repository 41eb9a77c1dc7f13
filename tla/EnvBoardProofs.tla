--------------------------- MODULE EnvBoardProofs ---------------------------
(***************************************************************************)
(* The redundant environments in NOR flash, on MMC and in NAND flash, for  *)
(* every set of environments and of failing calls.                         *)
(*                                                                         *)
(* BoardSpec says what the steps of the three backends do in the terms of  *)
(* EnvBase, and the invariants are proved of it.  EnvStoresProofs shows    *)
(* that EnvStores does nothing else, and draws the theorems.               *)
(***************************************************************************)
EXTENDS EnvBoard, TLAPS

\* the largest serial of this board, and the calls that may fail on it
Top == IF worn THEN WornMaxSerial ELSE MaxSerial
Faults == IF worn THEN WornFaults ELSE SaveFaults
NorFaults == IF worn THEN WornFlashFaults ELSE FlashFaults
ReadFaults == IF worn THEN WornBootFaults ELSE BootFaults

\* the copy a boot chooses that can read both, and what it loads
FlashChoice ==
  LET f1 == copy[1].flags
      f2 == copy[2].flags
  IN IF copy[2].crc /\ (copy[1].crc => (f1 = 0 /\ f2 = 1) \/ (f1 # 255 /\ f2 = 255))
     THEN 2 ELSE 1

SerialChoice ==
  LET f1 == copy[1].flags
      f2 == copy[2].flags
      Newer == (f1 = Top /\ f2 = 0) \/ (f2 > f1 /\ ~(f2 = Top /\ f1 = 0))
  IN IF copy[2].crc /\ (copy[1].crc => Newer) THEN 2 ELSE 1

BootChoice == IF board = "flash" THEN FlashChoice ELSE SerialChoice

Loads(c) == IF copy[c].crc THEN copy[c].data ELSE Default

BootPick == Loads(BootChoice)

InUse == Loads(active)

-----------------------------------------------------------------------------
(* NOR flash.                                                              *)

\* what saveenv writes
FlashNew == [crc |-> TRUE, flags |-> 1, data |-> env]

FlashInit ==
  /\ pc = "off"
  /\ \/ /\ HasCopy /\ pc' = "select" /\ active' = FlashChoice
        /\ UNCHANGED <<copy, env, result, loaded, clean, saved, maybe>>
     \/ ~HasCopy /\ Import(1)

FlashRepairs ==
  /\ pc = "select" /\ pc' = "repair"
  /\ copy' \in {copy, [copy EXCEPT ![Other(active)].flags = 0]}
  /\ UNCHANGED <<active, env, result, loaded, clean, saved, maybe>>

FlashImports ==
  /\ pc = "repair" /\ pc' = "idle" /\ UNCHANGED <<active, result>> /\ loaded' = env'
  /\ copy' = copy \/ copy[active].flags \notin {0, 1}
  /\ \/ env' = copy[active].data /\ clean' = TRUE /\ saved' = env' /\ maybe' = {}
     \/ env' = Default /\ clean' = FALSE /\ UNCHANGED <<saved, maybe>>

FlashErases ==
  /\ pc = "erase" /\ UNCHANGED <<active, env, loaded, clean>>
  /\ \/ copy' = [copy EXCEPT ![Other(active)] = Blank] /\ GoOn("write")
     \/ /\ "erase" \in NorFaults /\ ReturnOk
        /\ copy' \in {copy, [copy EXCEPT ![Other(active)] = Blank]}

FlashWrites ==
  /\ pc = "write" /\ UNCHANGED <<active, env, loaded, clean>>
  /\ \/ copy' = [copy EXCEPT ![Other(active)] = FlashNew] /\ GoOn("flag")
     \/ ReturnFail /\ copy' \in {copy, [copy EXCEPT ![Other(active)] = FlashNew]}

FlashMarks ==
  /\ pc = "flag" /\ UNCHANGED <<env, loaded, clean>>
  /\ LET Marked == [copy EXCEPT ![active].flags = 0]
     IN \/ copy' = Marked /\ GoOn("restore") /\ UNCHANGED active
        \/ copy' = Marked /\ ReturnOk /\ active' = Other(active)
        \/ copy' \in {copy, Marked} /\ ReturnFail /\ UNCHANGED active

FlashRestores ==
  /\ pc = "restore" /\ ReturnOk /\ UNCHANGED <<copy, env, loaded, clean>>
  /\ active' = Other(active) \/ ("rest" \in NorFaults /\ UNCHANGED active)

\* saveenv returns 0 and has done nothing
FlashAlloc ==
  /\ "alloc" \in NorFaults /\ pc = "idle" /\ ReturnOk
  /\ UNCHANGED <<copy, active, env, loaded, clean>>

Quiet == SetEnv \/ PowerFail \/ SaveRefused(env)

FlashStep ==
  \/ Quiet \/ SaveBegin("erase") \/ FlashInit \/ FlashRepairs \/ FlashImports
  \/ FlashErases \/ FlashWrites \/ FlashMarks \/ FlashRestores \/ FlashAlloc

-----------------------------------------------------------------------------
(* MMC and NAND flash.                                                     *)

SerialBoot ==
  /\ pc = "off" /\ pc' = "idle" /\ UNCHANGED <<copy, result>> /\ loaded' = env'
  /\ active' \in Copies /\ (env' = Default \/ (copy[active'].crc /\ env' = copy[active'].data))
  /\ env_flags' = 0 \/ (copy[active'].crc /\ env_flags' = copy[active'].flags)
  /\ \/ /\ clean' = TRUE /\ active' = SerialChoice /\ env' = Loads(SerialChoice)
        /\ saved' = env' /\ maybe' = {}
        /\ copy[active'].crc => env_flags' = copy[active'].flags
     \/ clean' = FALSE /\ UNCHANGED <<saved, maybe>>
  /\ ReadFaults \cap {"init", "read1", "read2"} = {} =>
       env_flags' = IF HasCopy THEN copy[SerialChoice].flags ELSE 0

\* the serial counts on
Counts == env_flags # Horizon /\ env_flags' = (env_flags + 1) % (Top + 1)

ramVars == <<env, loaded, clean, env_flags>>

\* the copy not in use has been written, and is in use now
SerialWrites(at) ==
  /\ pc = at /\ ReturnOk /\ active' = Other(active)
  /\ copy' = [copy EXCEPT ![Other(active)] = EnvNew] /\ UNCHANGED ramVars

Torn == [copy EXCEPT ![Other(active)].crc = FALSE]

MmcTears == pc = "write" /\ GoOn("torn") /\ copy' = Torn /\ UNCHANGED <<active, ramVars>>

MmcFails ==
  /\ "write" \in Faults /\ pc = "write" /\ ReturnFail /\ UNCHANGED <<active, ramVars>>
  /\ copy' \in {copy, Torn, [copy EXCEPT ![Other(active)] = EnvNew]}

MmcStep ==
  \/ SerialBoot \/ (Quiet /\ UNCHANGED env_flags)
  \/ ("addr" \in Faults /\ SaveRefused(env) /\ Counts)
  \/ (SaveBegin("write") /\ Counts) \/ MmcTears \/ SerialWrites("torn") \/ MmcFails

NandErases ==
  /\ pc = "erase" /\ GoOn("write") /\ UNCHANGED <<active, ramVars>>
  /\ copy' = [copy EXCEPT ![Other(active)] = Blank]

\* the copy not in use could not be erased or written
NandTurns ==
  /\ {"erase", "write"} \cap Faults # {} /\ pc \in {"erase", "write"} /\ GoOn("erase2")
  /\ UNCHANGED <<active, ramVars>>
  /\ copy' \in {copy, [copy EXCEPT ![Other(active)] = Blank],
                [copy EXCEPT ![Other(active)] = EnvNew]}

\* the copy in use is erased and written, or saveenv fails
NandInUse ==
  /\ pc \in {"erase2", "write2"} /\ UNCHANGED <<active, ramVars>>
  /\ \/ copy' = [copy EXCEPT ![active] = Blank] /\ GoOn("write2")
     \/ copy' = [copy EXCEPT ![active] = EnvNew] /\ ReturnOk
     \/ /\ copy' \in {copy, [copy EXCEPT ![active] = Blank], [copy EXCEPT ![active] = EnvNew]}
        /\ ReturnFail

NandStep ==
  \/ SerialBoot \/ (Quiet /\ UNCHANGED env_flags) \/ (SaveBegin("erase") /\ Counts)
  \/ NandErases \/ SerialWrites("write") \/ NandTurns \/ NandInUse

BoardStep ==
  /\ \/ board = "flash" /\ FlashStep /\ UNCHANGED env_flags
     \/ board = "mmc" /\ MmcStep
     \/ board = "nand" /\ NandStep
  /\ UNCHANGED <<board, worn>>

boardVars == <<vars, board, worn>>

BoardInit == Init /\ board \in {"flash", "mmc", "nand"} /\ worn \in BOOLEAN

BoardSpec == BoardInit /\ [][BoardStep]_boardVars

-----------------------------------------------------------------------------
(* The invariants.                                                         *)

CopyType == [crc : BOOLEAN, flags : 0..255, data : Values]

Results == {"none", "ok", "failed"}

\* a copy with a good CRC has been written by saveenv
Genuine(r) ==
  r.crc => IF board = "flash" THEN r.flags \in {0, 1} ELSE r.flags \in 0..Top

CopiesOK(c) == c \in [Copies -> CopyType] /\ \A i \in Copies : Genuine(c[i])

\* no environment has been loaded yet
Down == pc \in {"off", "select", "repair"}

Pcs ==
  CASE board = "flash" ->
         {"off", "select", "repair", "idle", "erase", "write", "flag", "restore"}
    [] board = "mmc" -> {"off", "idle", "write", "torn"}
    [] board = "nand" -> {"off", "idle", "erase", "write", "erase2", "write2"}

(* What holds on every board, whatever fails: the types, which of the      *)
(* states of a boot or a save there are, and that the copy in use is good  *)
(* if the environment has come from it; in NAND it may be lost.            *)
StoresInv ==
  /\ board \in {"flash", "mmc", "nand"} /\ worn \in BOOLEAN
  /\ CopiesOK(copy) /\ active \in Copies /\ env \in Values /\ pc \in Pcs
  /\ result \in Results /\ loaded \in Values \cup {None} /\ clean \in BOOLEAN
  /\ saved \in Values /\ maybe \in SUBSET Values /\ env_flags \in 0..Top
  /\ (loaded = None) <=> Down
  /\ pc \in {"select", "repair"} => copy[active].crc
  /\ pc \in {"flag", "restore"} => copy[Other(active)] = FlashNew
  /\ board # "nand" /\ loaded \notin {None, Default} => copy[active].crc

Settled == {saved} \cup maybe

(* On a board that is not worn, what the boot loads at any moment.  It     *)
(* changes within a save, so the copy in use has to hold a settled         *)
(* environment too, and on a clean boot the serial in RAM is that of the   *)
(* copy in use, which is how the copy written next is the newer one.       *)
PromiseInv ==
  /\ BootPick \in Settled \/ (Saving /\ BootPick = env)
  /\ clean /\ ~Down => InUse \in Settled
  /\ clean /\ ~Down /\ saved # Default => copy[active].crc
  /\ ~clean /\ Saving => maybe = Values
  /\ pc \notin {"erase2", "write2"} /\ (Down => result = "none")
  /\ board = "flash" /\ pc \in {"select", "repair"} => FlashChoice = active
  /\ board = "flash" /\ pc = "restore" => copy[active].flags = 0
  /\ board # "flash" /\ clean /\ ~Down /\ copy[active].crc =>
       env_flags = IF Saving THEN (copy[active].flags + 1) % (Top + 1)
                             ELSE copy[active].flags

(* On a worn board with a serial: the serial in RAM is the largest, as     *)
(* long as it has not wrapped and every boot has seen both copies.         *)
SerialInv ==
  /\ env_flags \in 0..Horizon /\ (Saving => env_flags >= 1)
  /\ \A c \in Copies : copy[c].crc =>
       /\ copy[c].flags \in 1..Horizon
       /\ pc # "off" => copy[c].flags <= env_flags
       /\ Saving => copy[c].flags < env_flags \/ copy[c] = EnvNew
  /\ result = "ok" => pc = "idle" /\ BootPick = saved

-----------------------------------------------------------------------------
(* The storage.                                                            *)

\* There are two copies.
LEMMA OtherCopy ==
  ASSUME NEW c \in Copies
  PROVE  /\ Other(c) \in Copies /\ Other(c) # c /\ Other(Other(c)) = c
         /\ Copies = {c, Other(c)}
BY DEF Copies, Other

\* What becomes of the copies when one of them is written.
LEMMA CopiesExcept ==
  ASSUME CopiesOK(copy), NEW c \in Copies
  PROVE  /\ CopiesOK([copy EXCEPT ![c] = Blank])
         /\ CopiesOK([copy EXCEPT ![c].crc = FALSE])
         /\ \A r \in CopyType : Genuine(r) => CopiesOK([copy EXCEPT ![c] = r])
         /\ board = "flash" => CopiesOK([copy EXCEPT ![c].flags = 0])
         /\ board = "flash" => CopiesOK([copy EXCEPT ![c].flags = 1])
<1>1. copy \in [Copies -> CopyType] /\ \A i \in Copies : Genuine(copy[i])  BY Zenon DEF CopiesOK
<1>2. ASSUME NEW r \in CopyType, Genuine(r)
      PROVE  CopiesOK([copy EXCEPT ![c] = r])
  BY <1>1, <1>2, Zenon DEF CopiesOK
<1>3. Blank \in CopyType /\ Genuine(Blank)
  BY EnvAssumption DEF Blank, CopyType, Genuine
<1>4. [copy[c] EXCEPT !.crc = FALSE] \in CopyType /\ Genuine([copy[c] EXCEPT !.crc = FALSE])
  <2>1. copy[c] \in CopyType  BY Zenon, <1>1
  <2>2. [copy[c] EXCEPT !.crc = FALSE] \in CopyType  BY Zenon, <2>1 DEF CopyType
  <2>3. [copy[c] EXCEPT !.crc = FALSE].crc = FALSE  BY Zenon, <2>1 DEF CopyType
  <2> QED BY <2>2, <2>3, Zenon DEF Genuine
<1>5. ASSUME board = "flash", NEW f \in {0, 1}
      PROVE  [copy[c] EXCEPT !.flags = f] \in CopyType /\ Genuine([copy[c] EXCEPT !.flags = f])
  BY <1>1, <1>5 DEF CopyType, Genuine
<1>6. /\ [copy EXCEPT ![c].crc = FALSE] = [copy EXCEPT ![c] = [copy[c] EXCEPT !.crc = FALSE]]
      /\ \A f : [copy EXCEPT ![c].flags = f] = [copy EXCEPT ![c] = [copy[c] EXCEPT !.flags = f]]
  BY Zenon
<1>7. board = "flash" =>
        /\ CopiesOK([copy EXCEPT ![c].flags = 0]) /\ CopiesOK([copy EXCEPT ![c].flags = 1])
  BY <1>2, <1>5, <1>6, Zenon
<1> QED BY <1>2, <1>3, <1>4, <1>6, <1>7, Zenon

\* Writing the flags of a copy changes nothing else.
LEMMA FlagsExcept ==
  ASSUME copy \in [Copies -> CopyType], NEW c \in Copies, NEW f
  PROVE  LET new == [copy EXCEPT ![c].flags = f]
         IN  /\ new[c].flags = f /\ new[c].crc = copy[c].crc /\ new[c].data = copy[c].data
             /\ new[Other(c)] = copy[Other(c)]
<1>1. Other(c) \in Copies /\ Other(c) # c  BY Zenon, OtherCopy
<1>2. copy[c] \in [crc : BOOLEAN, flags : 0..255, data : Values]  BY DEF CopyType
<1>3. LET r == [copy[c] EXCEPT !.flags = f]
      IN r.flags = f /\ r.crc = copy[c].crc /\ r.data = copy[c].data
  BY Zenon, <1>2
<1>4. [copy EXCEPT ![c].flags = f][c] = [copy[c] EXCEPT !.flags = f]  BY Zenon
<1>5. [copy EXCEPT ![c].flags = f][Other(c)] = copy[Other(c)]  BY Zenon, <1>1
<1> QED BY <1>3, <1>4, <1>5, Zenon

\* What has to be shown of a step.
LEMMA Assemble ==
  ASSUME StoresInv, UNCHANGED <<board, worn>>,
         CopiesOK(copy'), active' \in Copies, env' \in Values, pc' \in Pcs,
         result' \in Results, loaded' \in Values \cup {None}, clean' \in BOOLEAN,
         saved' \in Values, maybe' \in SUBSET Values, env_flags' \in 0..Top,
         (loaded' = None) <=> Down',
         pc' \in {"select", "repair"} => copy'[active'].crc,
         pc' \in {"flag", "restore"} => copy'[Other(active')] = FlashNew',
         board # "nand" /\ loaded' \notin {None, Default} => copy'[active'].crc
  PROVE  StoresInv'
BY Zenon DEF StoresInv, CopiesOK, Genuine, Pcs, Top, CopyType, Copies, Other, Results

\* The commands that leave the storage alone, and the power failing.
LEMMA ShapeBase ==
  ASSUME StoresInv, UNCHANGED <<board, worn>>, env_flags' \in 0..Top,
         SetEnv \/ PowerFail \/ \E v \in Values : SaveRefused(v)
  PROVE  StoresInv'
<1>1. /\ UNCHANGED <<copy, active, clean, saved>> /\ pc' \in {pc, "off"}
      /\ env' \in Values /\ result' \in Results
      /\ (loaded' = None /\ pc' = "off") \/ (loaded' = loaded /\ pc' = pc)
      /\ env' = env \/ pc' = "idle"
  BY Zenon DEF StoresInv, SetEnv, PowerFail, SaveRefused, Results
<1>2. maybe' \in SUBSET Values
  BY Zenon DEF StoresInv, SetEnv, PowerFail, SaveRefused
<1>3. pc' \in Pcs  BY Zenon, <1>1 DEF StoresInv, Pcs
<1>4. CopiesOK(copy') /\ active' \in Copies /\ clean' \in BOOLEAN /\ saved' \in Values
      /\ loaded' \in Values \cup {None} /\ env_flags' \in 0..Top
  BY <1>1, Zenon DEF StoresInv
<1>5. (loaded' = None) <=> Down'  BY Zenon, <1>1 DEF StoresInv, Down
<1>6. pc' \in {"select", "repair"} => copy'[active'].crc
  BY Zenon, <1>1 DEF StoresInv
<1>7. pc' \in {"flag", "restore"} => copy'[Other(active')] = FlashNew'
  BY Zenon, <1>1 DEF StoresInv, FlashNew
<1>8. board # "nand" /\ loaded' \notin {None, Default} => copy'[active'].crc
  BY Zenon, <1>1 DEF StoresInv
<1> QED BY <1>1, <1>2, <1>3, <1>4, <1>5, <1>6, <1>7, <1>8, Assemble, Zenon

\* saveenv begins.
LEMMA ShapeBegin ==
  ASSUME StoresInv, UNCHANGED <<board, worn>>, env_flags' \in 0..Top,
         NEW next \in Pcs \ {"off", "select", "repair", "flag", "restore"}, SaveBegin(next)
  PROVE  StoresInv'
<1>1. /\ UNCHANGED <<copy, active, env, loaded, clean, saved>> /\ pc = "idle" /\ pc' = next
      /\ result' \in Results
  BY Zenon DEF SaveBegin, Results
<1>2. maybe' \in SUBSET Values  BY Zenon DEF StoresInv, SaveBegin
<1>3. (loaded' = None) <=> Down'  BY Zenon, <1>1 DEF StoresInv, Down
<1> QED BY <1>1, <1>2, <1>3, Assemble, Zenon DEF StoresInv

\* A step of a save: where it goes on, what it returns, and that a good copy
\* in use stays so.
LEMMA ShapeSave ==
  ASSUME StoresInv, UNCHANGED <<board, worn, env, loaded, clean, env_flags>>, ~Down,
         CopiesOK(copy'), active' \in Copies,
         board # "nand" /\ copy[active].crc => copy'[active'].crc,
         pc' \in Pcs \ {"off", "select", "repair"},
         pc' \in {"flag", "restore"} => copy'[Other(active')] = FlashNew,
         ReturnOk \/ ReturnFail \/ UNCHANGED <<result, saved, maybe>>
  PROVE  StoresInv'
<1>1. result' \in Results /\ saved' \in Values /\ maybe' \in SUBSET Values
  BY Zenon DEF ReturnOk, ReturnFail, StoresInv, Results
<1>2. (loaded' = None) <=> Down'  BY Zenon DEF StoresInv, Down
<1>3. FlashNew' = FlashNew  BY Zenon DEF FlashNew
<1> QED BY <1>1, <1>2, <1>3, Assemble, Zenon DEF StoresInv

-----------------------------------------------------------------------------
(* StoresInv, whatever fails.                                              *)

\* A boot chooses one of the two copies, and a good one if there is one.
LEMMA Chooses ==
  /\ FlashChoice \in Copies /\ SerialChoice \in Copies /\ BootChoice \in Copies
  /\ HasCopy => copy[FlashChoice].crc /\ copy[SerialChoice].crc /\ copy[BootChoice].crc
<1>1. FlashChoice \in Copies /\ (HasCopy => copy[FlashChoice].crc)
  BY DEF FlashChoice, HasCopy, Copies
<1>2. SerialChoice \in Copies /\ (HasCopy => copy[SerialChoice].crc)
  BY DEF SerialChoice, HasCopy, Copies
<1> QED BY <1>1, <1>2, Zenon DEF BootChoice

\* A boot of a board with its environment in NOR flash.
LEMMA FlashBootShape ==
  ASSUME StoresInv, board = "flash", UNCHANGED <<board, worn, env_flags>>,
         FlashInit \/ FlashRepairs \/ FlashImports
  PROVE  StoresInv'
<1>1. CopiesOK(copy) /\ active \in Copies /\ Other(active) \in Copies /\ Other(active) # active
  BY Zenon, OtherCopy DEF StoresInv
<1>2. copy \in [Copies -> CopyType] /\ Default \in Values /\ None \notin Values
  BY Zenon, <1>1, EnvAssumption DEF CopiesOK
<1>3. Pcs = {"off", "select", "repair", "idle", "erase", "write", "flag", "restore"}
  BY Zenon DEF Pcs
<1>4. CASE FlashInit
  <2>1. CASE HasCopy
    <3>1. /\ pc = "off" /\ pc' = "select" /\ active' = FlashChoice
          /\ UNCHANGED <<copy, env, result, loaded, clean, saved, maybe>>
      BY Zenon, <1>4, <2>1 DEF FlashInit
    <3>2. (loaded' = None) <=> Down'  BY Zenon, <3>1 DEF StoresInv, Down
    <3> QED BY <1>3, <2>1, <3>1, <3>2, Chooses, Assemble, Zenon DEF StoresInv
  <2>2. CASE ~HasCopy
    <3>1. /\ pc' = "idle" /\ active' = 1 /\ env' = Default /\ loaded' = Default /\ saved' = Default
          /\ maybe' = {} /\ clean' = TRUE /\ UNCHANGED <<copy, result>>
      BY <1>4, <2>2 DEF FlashInit, Import, HasCopy, Copies
    <3>2. (loaded' = None) <=> Down'  BY Zenon, <1>2, <3>1 DEF Down
    <3>3. active' \in Copies  BY <3>1 DEF Copies
    <3> QED BY <1>2, <1>3, <3>1, <3>2, <3>3, Assemble, Zenon DEF StoresInv
  <2> QED BY Zenon, <2>1, <2>2
<1>5. CASE FlashRepairs
  <2>1. /\ pc = "select" /\ pc' = "repair" /\ copy' \in {copy, [copy EXCEPT ![Other(active)].flags = 0]}
        /\ UNCHANGED <<active, env, result, loaded, clean, saved, maybe>>
    BY Zenon, <1>5 DEF FlashRepairs
  <2>2. CopiesOK(copy')  BY <1>1, <2>1, CopiesExcept, Zenon
  <2>3. copy'[active'].crc  BY Zenon, <1>1, <1>2, <2>1 DEF StoresInv
  <2>4. (loaded' = None) <=> Down'  BY Zenon, <2>1 DEF StoresInv, Down
  <2> QED BY <1>3, <2>1, <2>2, <2>3, <2>4, Assemble, Zenon DEF StoresInv
<1>6. CASE FlashImports
  <2>1. /\ pc = "repair" /\ pc' = "idle" /\ UNCHANGED <<active, result>> /\ loaded' = env'
        /\ env' \in {copy[active].data, Default}
        /\ saved' \in {saved, env'} /\ maybe' \in {maybe, {}} /\ clean' \in {TRUE, FALSE}
    BY Zenon, <1>6 DEF FlashImports
  <2>2. copy[active].crc  BY Zenon, <2>1 DEF StoresInv
  <2>3. copy' = copy  BY <1>1, <1>6, <2>2, Zenon DEF FlashImports, CopiesOK, Genuine
  <2>4. env' \in Values  BY <1>1, <1>2, <2>1 DEF CopyType
  <2>5. saved' \in Values /\ maybe' \in SUBSET Values  BY Zenon, <2>1, <2>4 DEF StoresInv
  <2>6. (loaded' = None) <=> Down'  BY Zenon, <1>2, <2>1, <2>4 DEF Down
  <2>7. clean' \in BOOLEAN  BY <2>1, Zenon
  <2> QED BY <1>3, <2>1, <2>2, <2>3, <2>4, <2>5, <2>6, <2>7, Assemble, Zenon DEF StoresInv
<1> QED BY Zenon, <1>4, <1>5, <1>6

\* A step of saveenv in NOR flash.
LEMMA FlashSaveShape ==
  ASSUME StoresInv, board = "flash", UNCHANGED <<board, worn, env_flags>>,
         FlashErases \/ FlashWrites \/ FlashMarks \/ FlashRestores \/ FlashAlloc
  PROVE  StoresInv'
<1>1. /\ CopiesOK(copy) /\ active \in Copies /\ Other(active) \in Copies /\ Other(active) # active
      /\ Other(Other(active)) = active
  BY Zenon, OtherCopy DEF StoresInv
<1>2. copy \in [Copies -> CopyType]  BY Zenon, <1>1 DEF CopiesOK
<1>3. Pcs = {"off", "select", "repair", "idle", "erase", "write", "flag", "restore"}
  BY Zenon DEF Pcs
<1>4. FlashNew \in CopyType /\ Genuine(FlashNew) /\ FlashNew.crc
  BY DEF FlashNew, CopyType, Genuine, StoresInv
<1>5. CASE FlashAlloc
  <2>1. ~Down /\ pc' = "idle"  BY Zenon, <1>5 DEF FlashAlloc, Down, ReturnOk
  <2> QED BY <1>1, <1>3, <1>5, <2>1, ShapeSave, Zenon DEF FlashAlloc
<1>6. CASE FlashErases
  <2>1. /\ pc = "erase" /\ copy' \in {copy, [copy EXCEPT ![Other(active)] = Blank]}
        /\ UNCHANGED <<active, env, loaded, clean>> /\ pc' \in {"write", "idle"}
        /\ ReturnOk \/ UNCHANGED <<result, saved, maybe>>
    BY Zenon, <1>6 DEF FlashErases, GoOn, ReturnOk
  <2>2. CopiesOK(copy')  BY <1>1, <2>1, CopiesExcept, Zenon
  <2>3. copy'[active'] = copy[active]  BY Zenon, <1>1, <1>2, <2>1
  <2>4. ~Down  BY Zenon, <2>1 DEF Down
  <2> QED BY <1>1, <1>3, <2>1, <2>2, <2>3, <2>4, ShapeSave, Zenon
<1>7. CASE FlashWrites
  <2>1. /\ pc = "write" /\ copy' \in {copy, [copy EXCEPT ![Other(active)] = FlashNew]}
        /\ UNCHANGED <<active, env, loaded, clean>>
        /\ \/ pc' = "flag" /\ copy' = [copy EXCEPT ![Other(active)] = FlashNew]
              /\ UNCHANGED <<result, saved, maybe>>
           \/ pc' = "idle" /\ ReturnFail
    BY Zenon, <1>7 DEF FlashWrites, GoOn, ReturnFail
  <2>2. CopiesOK(copy')  BY <1>1, <1>4, <2>1, CopiesExcept, Zenon
  <2>3. copy'[active'] = copy[active] /\ (pc' = "flag" => copy'[Other(active')] = FlashNew)
    BY Zenon, <1>1, <1>2, <2>1
  <2>4. ~Down  BY Zenon, <2>1 DEF Down
  <2> QED BY <1>1, <1>3, <2>1, <2>2, <2>3, <2>4, ShapeSave, Zenon
<1>8. CASE FlashMarks
  <2>1. /\ pc = "flag" /\ copy' \in {copy, [copy EXCEPT ![active].flags = 0]}
        /\ UNCHANGED <<env, loaded, clean>>
        /\ \/ pc' = "restore" /\ UNCHANGED <<active, result, saved, maybe>>
           \/ pc' = "idle" /\ ReturnOk /\ active' = Other(active)
           \/ pc' = "idle" /\ ReturnFail /\ UNCHANGED active
    BY Zenon, <1>8 DEF FlashMarks, GoOn, ReturnOk, ReturnFail
  <2>2. CopiesOK(copy')  BY <1>1, <2>1, CopiesExcept, Zenon
  <2>3. copy'[active].crc = copy[active].crc /\ copy'[Other(active)] = FlashNew
    <3>1. copy[Other(active)] = FlashNew  BY Zenon, <2>1 DEF StoresInv
    <3>2. CASE copy' = copy  BY Zenon, <3>1, <3>2
    <3>3. CASE copy' = [copy EXCEPT ![active].flags = 0]
      BY <1>1, <1>2, <3>1, <3>3, FlagsExcept, Zenon
    <3> QED BY Zenon, <2>1, <3>2, <3>3
  <2>4. copy'[Other(active)].crc  BY <1>4, <2>3, Zenon
  <2>5. ~Down  BY Zenon, <2>1 DEF Down
  <2> QED BY <1>1, <1>3, <2>1, <2>2, <2>3, <2>4, <2>5, ShapeSave, Zenon
<1>9. CASE FlashRestores
  <2>1. /\ pc = "restore" /\ pc' = "idle" /\ UNCHANGED <<copy, env, loaded, clean>> /\ ReturnOk
        /\ active' \in {active, Other(active)}
    BY Zenon, <1>9 DEF FlashRestores, ReturnOk
  <2>2. copy'[Other(active)].crc  BY Zenon, <1>4, <2>1 DEF StoresInv
  <2>3. ~Down  BY Zenon, <2>1 DEF Down
  <2> QED BY <1>1, <1>3, <2>1, <2>2, <2>3, ShapeSave, Zenon
<1> QED BY Zenon, <1>5, <1>6, <1>7, <1>8, <1>9

\* A boot of a board with its environment on MMC or in NAND flash.
LEMMA SerialBootShape ==
  ASSUME StoresInv, board # "flash", UNCHANGED <<board, worn>>, SerialBoot
  PROVE  StoresInv'
<1>1. /\ pc = "off" /\ pc' = "idle" /\ UNCHANGED <<copy, result>> /\ active' \in Copies
      /\ env' = Default \/ (copy[active'].crc /\ env' = copy[active'].data)
      /\ loaded' = env' /\ saved' \in {saved, env'} /\ maybe' \in {maybe, {}}
      /\ clean' \in {TRUE, FALSE}
      /\ env_flags' = 0 \/ (copy[active'].crc /\ env_flags' = copy[active'].flags)
  BY Zenon DEF SerialBoot
<1>2. CopiesOK(copy) /\ Default \in Values /\ None \notin Values  BY Zenon, EnvAssumption DEF StoresInv
<1>3. copy \in [Copies -> CopyType]  BY Zenon, <1>2 DEF CopiesOK
<1>4. copy[active'].data \in Values  BY <1>1, <1>3 DEF CopyType
<1>5. env' \in Values  BY Zenon, <1>1, <1>2, <1>4
<1>6. saved' \in Values /\ maybe' \in SUBSET Values  BY Zenon, <1>1, <1>5 DEF StoresInv
<1>7. 0 \in 0..Top  BY SerialAssumption, WornAssumption DEF Top, StoresInv
<1>8. env_flags' \in 0..Top  BY <1>1, <1>2, <1>7, Zenon DEF CopiesOK, Genuine
<1>9. (loaded' = None) <=> Down'  BY Zenon, <1>1, <1>2, <1>5 DEF Down
<1>10. "idle" \in Pcs  BY Zenon DEF Pcs, StoresInv
<1>11. clean' \in BOOLEAN  BY <1>1, Zenon
<1>12. loaded' \notin {None, Default} => copy'[active'].crc  BY <1>1, Zenon
<1>13. pc' \notin {"select", "repair", "flag", "restore"}  BY Zenon, <1>1
<1> QED BY <1>1, <1>2, <1>5, <1>6, <1>8, <1>9, <1>10, <1>11, <1>12, <1>13, Assemble, Zenon
        DEF StoresInv

\* The serial stays in its byte, and so does what is written with it.
LEMMA NextSerialType ==
  ASSUME StoresInv
  PROVE  /\ (env_flags + 1) % (Top + 1) \in 0..Top
         /\ EnvNew \in CopyType
         /\ board # "flash" => Genuine(EnvNew)
<1>1. Top \in 2..255  BY Zenon, SerialAssumption, WornAssumption DEF Top, StoresInv
<1>2. env_flags \in 0..Top /\ env \in Values  BY Zenon DEF StoresInv
<1>3. (env_flags + 1) % (Top + 1) \in 0..Top  BY <1>1, <1>2, Z3
<1>4. env_flags \in 0..255  BY <1>1, <1>2
<1>5. EnvNew \in CopyType  BY ZenonT(30), <1>2, <1>4 DEF EnvNew, CopyType
<1>6. board # "flash" => Genuine(EnvNew)  BY Zenon, <1>2 DEF Genuine, EnvNew
<1> QED BY Zenon, <1>3, <1>5, <1>6

\* The commands and the boot that MMC and NAND flash have in common.
LEMMA SerialCommonShape ==
  ASSUME StoresInv, board # "flash", UNCHANGED <<board, worn>>,
         \/ SerialBoot \/ (Quiet /\ UNCHANGED env_flags) \/ (SaveRefused(env) /\ Counts)
         \/ \E next \in Pcs \ {"off", "select", "repair", "flag", "restore"} :
              SaveBegin(next) /\ Counts
  PROVE  StoresInv'
<1>1. (UNCHANGED env_flags \/ Counts) => env_flags' \in 0..Top
  BY NextSerialType, Zenon DEF StoresInv, Counts
<1>2. CASE SerialBoot  BY Zenon, <1>2, SerialBootShape
<1>3. CASE (Quiet /\ UNCHANGED env_flags) \/ (SaveRefused(env) /\ Counts)
  BY <1>1, <1>3, ShapeBase, Zenon DEF Quiet, StoresInv
<1>4. CASE \E next \in Pcs \ {"off", "select", "repair", "flag", "restore"} :
             SaveBegin(next) /\ Counts
  BY <1>1, <1>4, ShapeBegin, Zenon
<1> QED BY Zenon, <1>2, <1>3, <1>4

\* A step on an MMC device.
LEMMA MmcShape ==
  ASSUME StoresInv, board = "mmc", UNCHANGED <<board, worn>>, MmcStep
  PROVE  StoresInv'
<1>1. CopiesOK(copy) /\ active \in Copies /\ Other(active) \in Copies /\ Other(active) # active
  BY Zenon, OtherCopy DEF StoresInv
<1>2. copy \in [Copies -> CopyType]  BY Zenon, <1>1 DEF CopiesOK
<1>3. Pcs = {"off", "idle", "write", "torn"}  BY Zenon DEF Pcs
<1>4. EnvNew \in CopyType /\ Genuine(EnvNew) /\ EnvNew.crc = TRUE
  BY Zenon, NextSerialType DEF EnvNew
<1>5. "write" \in Pcs \ {"off", "select", "repair", "flag", "restore"}  BY Zenon, <1>3
<1>6. CASE MmcTears \/ SerialWrites("torn") \/ MmcFails
  <2>1. /\ pc \in {"write", "torn"} /\ pc' \in {"torn", "idle"} /\ UNCHANGED ramVars
        /\ ReturnOk \/ ReturnFail \/ UNCHANGED <<result, saved, maybe>>
        /\ \/ active' = active /\ copy' = copy
           \/ active' = active /\ copy' = Torn
           \/ active' \in {active, Other(active)} /\ copy' = [copy EXCEPT ![Other(active)] = EnvNew]
    BY Zenon, <1>6 DEF MmcTears, SerialWrites, MmcFails, GoOn, ReturnOk, ReturnFail
  <2>2. CopiesOK(copy') /\ active' \in Copies  BY <1>1, <1>4, <2>1, CopiesExcept, Zenon DEF Torn
  <2>3. (active' = active /\ copy'[active] = copy[active]) \/ copy'[active'] = EnvNew
    BY Zenon, <1>1, <1>2, <2>1 DEF Torn
  <2>4. copy[active].crc => copy'[active'].crc  BY <1>4, <2>3, Zenon
  <2>5. ~Down /\ pc' \in Pcs \ {"off", "select", "repair", "flag", "restore"}
    BY Zenon, <1>3, <2>1 DEF Down
  <2> QED BY <2>1, <2>2, <2>4, <2>5, ShapeSave, Zenon DEF ramVars
<1> QED BY <1>5, <1>6, SerialCommonShape, Zenon DEF MmcStep

\* A step in NAND flash.
LEMMA NandShape ==
  ASSUME StoresInv, board = "nand", UNCHANGED <<board, worn>>, NandStep
  PROVE  StoresInv'
<1>1. CopiesOK(copy) /\ active \in Copies /\ Other(active) \in Copies
  BY Zenon, OtherCopy DEF StoresInv
<1>3. Pcs = {"off", "idle", "erase", "write", "erase2", "write2"}  BY Zenon DEF Pcs
<1>4. EnvNew \in CopyType /\ Genuine(EnvNew)  BY Zenon, NextSerialType
<1>5. "erase" \in Pcs \ {"off", "select", "repair", "flag", "restore"}  BY Zenon, <1>3
<1>6. CASE NandErases \/ SerialWrites("write") \/ NandTurns \/ NandInUse
  <2>1. /\ pc \in {"erase", "write", "erase2", "write2"} /\ pc' \in {"write", "erase2", "write2", "idle"}
        /\ UNCHANGED ramVars /\ active' \in {active, Other(active)}
        /\ ReturnOk \/ ReturnFail \/ UNCHANGED <<result, saved, maybe>>
        /\ \/ copy' = copy
           \/ \E c \in {active, Other(active)} :
                copy' = [copy EXCEPT ![c] = Blank] \/ copy' = [copy EXCEPT ![c] = EnvNew]
    BY Zenon, <1>6 DEF NandErases, SerialWrites, NandTurns, NandInUse, GoOn, ReturnOk, ReturnFail
  <2>2. \A c \in Copies : CopiesOK([copy EXCEPT ![c] = Blank]) /\ CopiesOK([copy EXCEPT ![c] = EnvNew])
    BY <1>1, <1>4, CopiesExcept, Zenon
  <2>3. active' \in Copies /\ CopiesOK(copy')  BY <1>1, <2>1, <2>2, Zenon
  <2>4. ~Down /\ pc' \in Pcs \ {"off", "select", "repair", "flag", "restore"}
    BY Zenon, <1>3, <2>1 DEF Down
  <2> QED BY <2>1, <2>3, <2>4, ShapeSave, Zenon DEF ramVars
<1> QED BY <1>5, <1>6, SerialCommonShape, Zenon DEF NandStep

\* Both copies are blank at first.
LEMMA StoresInvInit == BoardInit => StoresInv
<1> SUFFICES ASSUME BoardInit PROVE StoresInv  BY Zenon
<1> USE DEF BoardInit, Init, BaseInit
<1>1. copy \in [Copies -> CopyType] /\ \A i \in Copies : copy[i].crc = FALSE
  BY EnvAssumption DEF Blank, CopyType
<1>2. CopiesOK(copy)  BY <1>1, Zenon DEF CopiesOK, Genuine
<1>3. active \in Copies /\ "off" \in Pcs  BY DEF Copies, Pcs
<1>4. env_flags \in 0..Top  BY SerialAssumption, WornAssumption DEF Top
<1>5. worn \in BOOLEAN /\ clean \in BOOLEAN  BY Zenon
<1> QED BY Zenon, <1>2, <1>3, <1>4, <1>5, EnvAssumption DEF StoresInv, Down, Results

\* Every step keeps StoresInv.
LEMMA StoresInvStep == StoresInv /\ [BoardStep]_boardVars => StoresInv'
<1> SUFFICES ASSUME StoresInv, [BoardStep]_boardVars PROVE StoresInv'  BY Zenon
<1>1. CASE UNCHANGED boardVars
  BY ZenonT(30), <1>1 DEF boardVars, vars, StoresInv, CopiesOK, Genuine, Top, Pcs, Down, FlashNew
<1>2. ASSUME board = "flash", FlashStep, UNCHANGED <<board, worn, env_flags>>
      PROVE  StoresInv'
  <2>1. env_flags' \in 0..Top  BY Zenon, <1>2 DEF StoresInv
  <2>2. "erase" \in Pcs \ {"off", "select", "repair", "flag", "restore"}  BY Zenon, <1>2 DEF Pcs
  <2>3. CASE Quiet  BY <1>2, <2>1, <2>3, ShapeBase, Zenon DEF Quiet, StoresInv
  <2>4. CASE SaveBegin("erase")  BY <1>2, <2>1, <2>2, <2>4, ShapeBegin, Zenon
  <2> QED BY <1>2, <2>3, <2>4, FlashBootShape, FlashSaveShape, Zenon DEF FlashStep
<1> QED BY <1>1, <1>2, MmcShape, NandShape, Zenon DEF BoardStep

\* Whatever fails, on every board: StoresInv.
LEMMA BoardInvariant == BoardSpec => []StoresInv
BY StoresInvInit, StoresInvStep, PTL DEF BoardSpec

-----------------------------------------------------------------------------
(* What the boot loads.                                                    *)

\* the copy with the serial after that of the other, around the wrap as well
Successor(c) ==
  /\ copy[c].crc
  /\ copy[Other(c)].crc => /\ copy[Other(c)].flags \in 0..Top
                           /\ copy[c].flags = (copy[Other(c)].flags + 1) % (Top + 1)

PicksRight ==
  /\ BootPick \in Values /\ InUse \in Values
  /\ ~copy[Other(active)].crc => BootPick = InUse
  /\ copy[Other(active)] = FlashNew => BootPick \in {InUse, env}
  /\ \A c \in Copies :
       IF board = "flash"
       THEN copy[c] = FlashNew /\ copy[Other(c)].flags = 0 => BootPick = env
       ELSE Successor(c) => BootPick = copy[c].data

\* The choice of env_relocate_spec is right about two successive serials.
LEMMA ChoosesSuccessor ==
  ASSUME StoresInv, NEW c \in Copies, Successor(c)
  PROVE  SerialChoice = c
<1>1. CASE copy[Other(c)].crc
  <2> DEFINE f == copy[Other(c)].flags
  <2>1. Top \in Nat /\ Top >= 2  BY SerialAssumption, WornAssumption DEF Top, StoresInv
  <2>2. f \in 0..Top  BY Zenon, <1>1 DEF Successor
  <2>3. (f + 1) % (Top + 1) = IF f = Top THEN 0 ELSE f + 1  BY <2>1, <2>2, Z3
  <2>4. copy[c].flags = IF f = Top THEN 0 ELSE f + 1  BY Zenon, <1>1, <2>3 DEF Successor
  <2>5. copy[1].crc /\ copy[2].crc  BY <1>1 DEF Copies, Other, Successor
  <2>6. CASE c = 1  BY <2>1, <2>2, <2>4, <2>5, <2>6 DEF SerialChoice, Other
  <2>7. CASE c = 2  BY <2>1, <2>2, <2>4, <2>5, <2>7 DEF SerialChoice, Other
  <2> QED BY <2>6, <2>7 DEF Copies
<1>2. CASE ~copy[Other(c)].crc  BY <1>2 DEF Successor, SerialChoice, Copies, Other
<1> QED BY Zenon, <1>1, <1>2

\* The boot loads the copy in use when the other is bad.  In NOR flash, once
\* that one is written, it loads the new environment, or still the old one until
\* it is marked obsolete; with a serial, it loads the later of the two.
LEMMA Picks == StoresInv => PicksRight
<1> SUFFICES ASSUME StoresInv PROVE PicksRight  BY Zenon
<1>1. copy \in [Copies -> CopyType] /\ active \in Copies /\ env \in Values /\ Default \in Values
  BY Zenon, EnvAssumption DEF StoresInv, CopiesOK
<1>2. active \in Copies /\ Other(active) \in Copies /\ Copies = {active, Other(active)}
  BY <1>1, OtherCopy, Zenon
<1>3. \A c \in Copies : copy[c].data \in Values  BY <1>1 DEF CopyType
<1>4. BootChoice \in Copies /\ ((\E c \in Copies : copy[c].crc) => copy[BootChoice].crc)
  BY Chooses, Zenon DEF HasCopy
<1>5. BootPick \in Values /\ InUse \in Values
  BY <1>1, <1>3, <1>4, Zenon DEF BootPick, InUse, Loads
<1>6. ~copy[Other(active)].crc => BootPick = InUse
  BY <1>2, <1>4, Zenon DEF BootPick, InUse, Loads
<1>7. FlashNew.crc /\ FlashNew.data = env  BY Zenon DEF FlashNew
<1>8. copy[Other(active)] = FlashNew => BootPick \in {InUse, env}
  BY <1>2, <1>4, <1>7, Zenon DEF BootPick, InUse, Loads
<1>9. ASSUME NEW c \in Copies, board = "flash", copy[c] = FlashNew, copy[Other(c)].flags = 0
      PROVE  BootPick = env
  <2>1. FlashChoice = c  BY <1>9 DEF FlashChoice, Copies, Other, FlashNew
  <2> QED BY <1>7, <1>9, <2>1, Zenon DEF BootPick, BootChoice, Loads
<1>10. ASSUME NEW c \in Copies, board # "flash", Successor(c)
       PROVE  BootPick = copy[c].data
  BY <1>10, ChoosesSuccessor, Zenon DEF BootPick, BootChoice, Loads, Successor
<1> QED BY <1>5, <1>6, <1>8, <1>9, <1>10, Zenon DEF PicksRight

\* It depends on the copies only.
LEMMA SamePick ==
  ASSUME UNCHANGED <<board, worn, copy>>
  PROVE  /\ BootPick' = BootPick /\ FlashChoice' = FlashChoice
         /\ UNCHANGED active => InUse' = InUse
<1>1. board' = board /\ worn' = worn /\ copy' = copy  BY Zenon
<1>2. FlashChoice' = FlashChoice  BY ONLY <1>1 DEF FlashChoice
<1>3. SerialChoice' = SerialChoice  BY ONLY Zenon, <1>1 DEF SerialChoice, Top
<1>4. BootChoice' = BootChoice  BY Zenon, <1>1, <1>2, <1>3 DEF BootChoice
<1>5. BootPick' = BootPick  BY Zenon, <1>1, <1>4 DEF BootPick, Loads
<1>6. UNCHANGED active => InUse' = InUse  BY Zenon, <1>1 DEF InUse, Loads
<1> QED BY Zenon, <1>2, <1>5, <1>6

-----------------------------------------------------------------------------
(* PromiseInv, on a board that is not worn.                                *)

\* The calls that do not fail on a board that is not worn.
Healthy ==
  /\ FlashFaults \cap {"alloc", "erase", "rest"} = {}
  /\ SaveFaults \cap {"addr", "erase", "write"} = {}

\* The commands that leave the storage alone, and the power failing.
LEMMA PromiseBase ==
  ASSUME StoresInv, PromiseInv, UNCHANGED <<board, worn, env_flags>>, Quiet
  PROVE  PromiseInv'
<1>1. UNCHANGED <<copy, active, clean, saved>>  BY Zenon DEF Quiet, SetEnv, PowerFail, SaveRefused
<1>2. BootPick' = BootPick /\ FlashChoice' = FlashChoice /\ InUse' = InUse
  BY <1>1, SamePick, Zenon
<1>3. CASE pc = "idle" /\ pc' = "idle" /\ maybe' = maybe
  <2>1. ~Saving /\ ~Saving' /\ ~Down /\ ~Down'  BY Zenon, <1>3 DEF Saving, Down
  <2> QED BY <1>1, <1>2, <1>3, <2>1, Zenon DEF PromiseInv, Settled, Top
<1>4. CASE pc' = "off" /\ maybe' = maybe \cup (IF Saving THEN {env} ELSE {}) /\ result' = "none"
  <2>1. ~Saving' /\ Down'  BY Zenon, <1>4 DEF Saving, Down
  <2>2. BootPick \in Settled'  BY <1>1, <1>4, Zenon DEF PromiseInv, Settled
  <2>3. pc' \notin {"select", "repair", "restore", "erase2", "write2"}  BY Zenon, <1>4
  <2> QED BY <1>2, <1>4, <2>1, <2>2, <2>3, Zenon DEF PromiseInv
<1> QED BY Zenon, <1>3, <1>4 DEF Quiet, SetEnv, PowerFail, SaveRefused

\* saveenv begins.
LEMMA PromiseBegin ==
  ASSUME StoresInv, PromiseInv, UNCHANGED <<board, worn>>,
         NEW next \in {"erase", "write"}, SaveBegin(next), board # "flash" => Counts
  PROVE  PromiseInv'
<1>1. UNCHANGED <<copy, active, env, clean, saved>> /\ pc = "idle" /\ pc' = next
      /\ maybe' = IF clean THEN maybe ELSE Values
  BY Zenon DEF SaveBegin
<1>2. BootPick' = BootPick /\ FlashChoice' = FlashChoice /\ InUse' = InUse
  BY <1>1, SamePick, Zenon
<1>3. /\ ~Saving /\ Saving' /\ ~Down /\ ~Down'
      /\ pc' \notin {"select", "repair", "restore", "erase2", "write2"}
  BY Zenon, <1>1 DEF Saving, Down
<1>4. maybe \subseteq Values  BY Zenon DEF StoresInv
<1>5. Settled \subseteq Settled'  BY <1>1, <1>4, Zenon DEF Settled
<1>6. BootPick \in Settled  BY <1>3, Zenon DEF PromiseInv
<1>7. board # "flash" /\ clean /\ copy[active].crc =>
        env_flags' = (copy[active].flags + 1) % (Top + 1)
  BY <1>3, Zenon DEF PromiseInv, Counts
<1>8. Top' = Top  BY Zenon DEF Top
<1> QED BY <1>1, <1>2, <1>3, <1>5, <1>6, <1>7, <1>8, Zenon DEF PromiseInv

\* saveenv goes on.
LEMMA PromiseGoesOn ==
  ASSUME StoresInv, PromiseInv, Saving,
         UNCHANGED <<board, worn, active, env, clean, env_flags, result, saved, maybe>>,
         Saving', pc' \notin {"erase2", "write2"}, BootPick' \in {BootPick, InUse, env},
         copy'[active].crc = copy[active].crc, copy'[active].data = copy[active].data,
         board # "flash" => copy'[active] = copy[active],
         board = "flash" /\ pc' = "restore" => copy'[active].flags = 0
  PROVE  PromiseInv'
<1>1. ~Down /\ ~Down' /\ pc' \notin {"select", "repair"}  BY Zenon DEF Saving, Down
<1>2. InUse' = InUse  BY Zenon DEF InUse, Loads
<1>3. Settled' = Settled  BY Zenon DEF Settled
<1>4. InUse \in Values  BY Picks, Zenon DEF PicksRight
<1>5. InUse \in Settled  BY <1>1, <1>4, Zenon DEF PromiseInv, Settled, StoresInv
<1>6. BootPick' \in Settled \/ BootPick' = env  BY <1>5, Zenon DEF PromiseInv
<1>7. Top' = Top  BY Zenon DEF Top
<1> QED BY <1>1, <1>2, <1>3, <1>5, <1>6, <1>7, Zenon DEF PromiseInv

\* saveenv fails.
LEMMA PromiseFails ==
  ASSUME StoresInv, PromiseInv, Saving, board = "flash", ReturnFail,
         UNCHANGED <<board, active, env, clean>>,
         BootPick' \in {BootPick, InUse, env},
         copy'[active].crc = copy[active].crc, copy'[active].data = copy[active].data
  PROVE  PromiseInv'
<1>1. ~Down /\ ~Down' /\ ~Saving' /\ pc' \notin {"select", "repair", "restore", "erase2", "write2"}
  BY Zenon DEF Saving, Down, ReturnFail
<1>2. InUse' = InUse  BY Zenon DEF InUse, Loads
<1>3. Settled' = Settled \cup {env}  BY Zenon DEF Settled, ReturnFail
<1>4. InUse \in Values  BY Picks, Zenon DEF PicksRight
<1>5. InUse \in Settled  BY <1>1, <1>4, Zenon DEF PromiseInv, Settled, StoresInv
<1>6. BootPick' \in Settled \/ BootPick' = env  BY <1>5, Zenon DEF PromiseInv
<1> QED BY <1>1, <1>2, <1>3, <1>5, <1>6, Zenon DEF PromiseInv, ReturnFail

\* saveenv succeeds.
LEMMA PromiseSucceeds ==
  ASSUME StoresInv, PromiseInv, Saving, ReturnOk, UNCHANGED <<board, env, clean>>,
         BootPick' \in Values, clean => BootPick' = env,
         copy'[active'].crc, copy'[active'].data = env,
         board # "flash" => env_flags' = copy'[active'].flags
  PROVE  PromiseInv'
<1>1. ~Down' /\ ~Saving' /\ pc' \notin {"select", "repair", "restore", "erase2", "write2"}
  BY Zenon DEF Saving, Down, ReturnOk
<1>2. InUse' = env  BY Zenon DEF InUse, Loads
<1>3. env \in Settled' /\ saved' = env /\ (~clean => Settled' = {env} \cup Values)
  BY Zenon DEF Settled, ReturnOk, PromiseInv
<1> QED BY <1>1, <1>2, <1>3, Zenon DEF PromiseInv

\* A boot that has read the storage, or has not.
LEMMA PromiseBoots ==
  ASSUME PromiseInv, Down, pc' = "idle", UNCHANGED <<board, worn, copy>>,
         \/ /\ clean' = TRUE /\ saved' = BootPick /\ maybe' = {} /\ InUse' = BootPick
            /\ board # "flash" /\ copy[active'].crc => env_flags' = copy[active'].flags
         \/ clean' = FALSE /\ UNCHANGED <<saved, maybe>>
  PROVE  PromiseInv'
<1>1. ~Down' /\ ~Saving' /\ ~Saving /\ pc' \notin {"select", "repair", "restore", "erase2", "write2"}
  BY Zenon DEF Saving, Down
<1>2. BootPick' = BootPick /\ BootPick \in Settled  BY <1>1, SamePick, Zenon DEF PromiseInv
<1>3. CASE clean' = FALSE /\ UNCHANGED <<saved, maybe>>
  <2>1. Settled' = Settled  BY <1>3, Zenon DEF Settled
  <2> QED BY <1>1, <1>2, <1>3, <2>1, Zenon DEF PromiseInv
<1>4. CASE /\ clean' = TRUE /\ saved' = BootPick /\ maybe' = {} /\ InUse' = BootPick
           /\ board # "flash" /\ copy[active'].crc => env_flags' = copy[active'].flags
  <2>1. BootPick \in Settled'  BY <1>4, Zenon DEF Settled
  <2>2. saved' # Default => copy'[active'].crc  BY <1>4, Zenon DEF InUse, Loads
  <2> QED BY <1>1, <1>2, <1>4, <2>1, <2>2, Zenon DEF PromiseInv
<1> QED BY Zenon, <1>3, <1>4

\* A boot in NOR flash: what it repairs does not change what it has chosen.
LEMMA FlashBootPromise ==
  ASSUME StoresInv, StoresInv', PromiseInv, board = "flash", UNCHANGED <<board, worn, env_flags>>,
         FlashInit \/ FlashRepairs \/ FlashImports
  PROVE  PromiseInv'
<1>1. /\ active \in Copies /\ Other(active) \in Copies /\ Copies = {active, Other(active)}
      /\ Other(active) # active
  BY OtherCopy, Zenon DEF StoresInv
<1>2. copy \in [Copies -> CopyType] /\ \A c \in Copies : copy[c].crc => copy[c].flags \in {0, 1}
  BY Zenon DEF StoresInv, CopiesOK, Genuine
<1>3. BootPick = Loads(FlashChoice)  BY Zenon DEF BootPick, BootChoice
<1>4. CASE FlashInit
  <2>1. CASE HasCopy
    <3>1. /\ pc = "off" /\ pc' = "select" /\ active' = FlashChoice
          /\ UNCHANGED <<copy, env, result, loaded, clean, saved, maybe>>
      BY Zenon, <1>4, <2>1 DEF FlashInit
    <3>2. BootPick' = BootPick /\ FlashChoice' = FlashChoice  BY <3>1, SamePick, Zenon
    <3>3. ~Saving /\ ~Saving' /\ Down /\ Down' /\ pc' \notin {"restore", "erase2", "write2"}
      BY Zenon, <3>1 DEF Saving, Down
    <3>4. Settled' = Settled  BY <3>1, Zenon DEF Settled
    <3> QED BY <3>1, <3>2, <3>3, <3>4, Zenon DEF PromiseInv
  <2>2. CASE ~HasCopy
    <3>1. \A c \in Copies : Loads(c) = Default  BY <2>2, Zenon DEF HasCopy, Loads
    <3>2. 1 \in Copies  BY DEF Copies
    <3>3. /\ pc = "off" /\ pc' = "idle" /\ active' = 1 /\ saved' = Default
          /\ maybe' = {} /\ clean' = TRUE /\ UNCHANGED copy
      BY Zenon, <1>4, <2>2, <3>1, <3>2 DEF FlashInit, Import, Loads
    <3>4. BootPick = Default  BY <1>3, <3>1, Chooses, Zenon
    <3>5. InUse' = Default  BY <2>2, <3>2, <3>3, Zenon DEF InUse, Loads, HasCopy
    <3>6. Down  BY Zenon, <3>3 DEF Down
    <3> QED BY <3>3, <3>4, <3>5, <3>6, PromiseBoots, Zenon
  <2> QED BY Zenon, <2>1, <2>2
<1>5. CASE FlashRepairs
  <2>1. /\ pc = "select" /\ pc' = "repair" /\ copy' \in {copy, [copy EXCEPT ![Other(active)].flags = 0]}
        /\ UNCHANGED <<active, env, result, loaded, clean, saved, maybe>>
    BY Zenon, <1>5 DEF FlashRepairs
  <2>2. FlashChoice = active  BY Zenon, <2>1 DEF PromiseInv
  <2>3. ASSUME copy' = copy
        PROVE  FlashChoice' = active /\ BootPick' = BootPick
    <3>1. FlashChoice' = FlashChoice /\ BootPick' = BootPick  BY <2>3, SamePick, Zenon
    <3> QED BY Zenon, <2>2, <3>1
  <2>4. ASSUME copy' = [copy EXCEPT ![Other(active)].flags = 0]
        PROVE  FlashChoice' = active /\ BootPick' = BootPick
    <3>1. /\ copy'[Other(active)].flags = 0 /\ copy'[Other(active)].crc = copy[Other(active)].crc
          /\ copy'[active] = copy[active]
      BY <1>1, <1>2, <2>4, FlagsExcept, OtherCopy, Zenon
    <3>2. copy[active].crc /\ copy[active].flags \in {0, 1}  BY Zenon, <1>1, <1>2, <2>1 DEF StoresInv
    <3>3. FlashChoice' = active
      <4>1. CASE active = 1  BY <3>1, <3>2, <4>1 DEF FlashChoice, Other
      <4>2. CASE active = 2
        <5>1. copy[1].crc => copy[2].flags = 1  BY <2>2, <3>2, <4>2 DEF FlashChoice
        <5> QED BY <3>1, <3>2, <4>2, <5>1 DEF FlashChoice, Other
      <4> QED BY <1>1, <4>1, <4>2 DEF Copies
    <3>4. BootPick' = IF copy'[active].crc THEN copy'[active].data ELSE Default
      BY <3>3, Zenon DEF BootPick, BootChoice, Loads
    <3> QED BY <1>3, <2>2, <3>1, <3>3, <3>4, Zenon DEF Loads
  <2>5. FlashChoice' = active' /\ BootPick' = BootPick  BY Zenon, <2>1, <2>3, <2>4
  <2>6. ~Saving /\ ~Saving' /\ Down /\ Down' /\ pc' \notin {"restore", "erase2", "write2"}
    BY Zenon, <2>1 DEF Saving, Down
  <2>7. Settled' = Settled  BY <2>1, Zenon DEF Settled
  <2> QED BY <2>1, <2>5, <2>6, <2>7, Zenon DEF PromiseInv
<1>6. CASE FlashImports
  <2>1. copy[active].crc /\ FlashChoice = active /\ pc = "repair"
    BY Zenon, <1>6 DEF StoresInv, PromiseInv, FlashImports
  <2>2. copy' = copy  BY <1>1, <1>2, <1>6, <2>1, Zenon DEF FlashImports
  <2>3. /\ pc' = "idle" /\ active' = active
        /\ \/ clean' = TRUE /\ saved' = copy[active].data /\ maybe' = {}
           \/ clean' = FALSE /\ UNCHANGED <<saved, maybe>>
    BY Zenon, <1>6 DEF FlashImports
  <2>4. BootPick = copy[active].data /\ InUse' = copy[active].data
    BY <1>3, <2>1, <2>2, <2>3, Zenon DEF InUse, Loads
  <2>5. Down  BY Zenon, <2>1 DEF Down
  <2> QED BY <2>2, <2>3, <2>4, <2>5, PromiseBoots, Zenon
<1> QED BY Zenon, <1>4, <1>5, <1>6

\* A step of saveenv in NOR flash that is not worn.
LEMMA FlashSavePromise ==
  ASSUME StoresInv, StoresInv', PromiseInv, board = "flash", UNCHANGED <<board, worn, env_flags>>,
         NorFaults \cap {"alloc", "erase", "rest"} = {},
         FlashErases \/ FlashWrites \/ FlashMarks \/ FlashRestores \/ FlashAlloc
  PROVE  PromiseInv'
<1>1. /\ active \in Copies /\ Other(active) \in Copies /\ Other(active) # active
      /\ Other(Other(active)) = active
  BY OtherCopy, Zenon DEF StoresInv
<1>2. copy \in [Copies -> CopyType]  BY Zenon DEF StoresInv, CopiesOK
<1>3. "alloc" \notin NorFaults /\ "erase" \notin NorFaults /\ "rest" \notin NorFaults  BY Zenon
<1>4. PicksRight'  BY Picks, PTL
<1>5. /\ BootPick' \in Values
      /\ ~copy'[Other(active')].crc => BootPick' = InUse'
      /\ copy'[Other(active')] = FlashNew' => BootPick' \in {InUse', env'}
      /\ \A c \in Copies : copy'[c] = FlashNew' /\ copy'[Other(c)].flags = 0 => BootPick' = env'
  BY <1>4, Zenon DEF PicksRight, Copies, Other
<1>6. UNCHANGED env => FlashNew' = FlashNew  BY Zenon DEF FlashNew
<1>7. CASE FlashErases
  <2>1. /\ pc = "erase" /\ copy' = [copy EXCEPT ![Other(active)] = Blank] /\ pc' = "write"
        /\ UNCHANGED <<active, env, loaded, clean, result, saved, maybe>>
    BY Zenon, <1>3, <1>7 DEF FlashErases, GoOn
  <2>2. copy'[active] = copy[active] /\ copy'[Other(active)] = Blank  BY Zenon, <1>1, <1>2, <2>1
  <2>3. ~copy'[Other(active')].crc  BY <2>1, <2>2 DEF Blank
  <2>4. Saving /\ Saving' /\ pc' \notin {"restore", "erase2", "write2"}  BY Zenon, <2>1 DEF Saving
  <2>5. BootPick' = InUse  BY <1>5, <2>1, <2>2, <2>3, Zenon DEF InUse, Loads
  <2> QED BY <2>1, <2>2, <2>4, <2>5, PromiseGoesOn, Zenon
<1>8. CASE FlashWrites
  <2>1. /\ pc = "write" /\ UNCHANGED <<active, env, loaded, clean>>
        /\ \/ pc' = "flag" /\ copy' = [copy EXCEPT ![Other(active)] = FlashNew]
              /\ UNCHANGED <<result, saved, maybe>>
           \/ ReturnFail /\ copy' \in {copy, [copy EXCEPT ![Other(active)] = FlashNew]}
    BY Zenon, <1>8 DEF FlashWrites, GoOn
  <2>2. Saving  BY Zenon, <2>1 DEF Saving
  <2>3. copy'[active] = copy[active] /\ (copy' = copy \/ copy'[Other(active)] = FlashNew)
    BY Zenon, <1>1, <1>2, <2>1
  <2>4. InUse' = InUse  BY <2>1, <2>3, Zenon DEF InUse, Loads
  <2>5. copy' = copy => BootPick' = BootPick  BY SamePick, Zenon
  <2>6. BootPick' \in {BootPick, InUse, env}  BY <1>5, <1>6, <2>1, <2>3, <2>4, <2>5, Zenon
  <2>7. CASE pc' = "flag" /\ UNCHANGED <<result, saved, maybe>>
    <3>1. Saving' /\ pc' \notin {"restore", "erase2", "write2"}  BY Zenon, <2>7 DEF Saving
    <3> QED BY <2>1, <2>2, <2>3, <2>6, <2>7, <3>1, PromiseGoesOn, Zenon
  <2>8. CASE ReturnFail  BY <2>1, <2>2, <2>3, <2>6, <2>8, PromiseFails, Zenon
  <2> QED BY Zenon, <2>1, <2>7, <2>8
<1>9. CASE FlashMarks
  <2> DEFINE Marked == [copy EXCEPT ![active].flags = 0]
  <2>1. /\ pc = "flag" /\ UNCHANGED <<env, loaded, clean>>
        /\ \/ copy' = Marked /\ pc' = "restore" /\ UNCHANGED <<active, result, saved, maybe>>
           \/ copy' = Marked /\ ReturnOk /\ active' = Other(active)
           \/ copy' \in {copy, Marked} /\ ReturnFail /\ UNCHANGED active
    BY Zenon, <1>9 DEF FlashMarks, GoOn
  <2>2. Saving /\ copy[Other(active)] = FlashNew  BY Zenon, <2>1 DEF Saving, StoresInv
  <2>3. /\ Marked[active].flags = 0 /\ Marked[active].crc = copy[active].crc
        /\ Marked[active].data = copy[active].data /\ Marked[Other(active)] = FlashNew
    BY <1>1, <1>2, <2>2, FlagsExcept, Zenon
  <2> HIDE DEF Marked
  <2>4. CASE copy' = Marked /\ pc' = "restore" /\ UNCHANGED <<active, result, saved, maybe>>
    <3>1. Saving' /\ pc' \notin {"erase2", "write2"}  BY Zenon, <2>4 DEF Saving
    <3>2. BootPick' = env  BY <1>1, <1>5, <1>6, <2>1, <2>3, <2>4, Zenon
    <3> QED BY <2>1, <2>2, <2>3, <2>4, <3>1, <3>2, PromiseGoesOn, Zenon
  <2>5. CASE copy' = Marked /\ ReturnOk /\ active' = Other(active)
    <3>1. copy'[active'].crc /\ copy'[active'].data = env  BY <2>3, <2>5 DEF FlashNew
    <3>2. BootPick' = env
      <4>1. copy'[active'] = FlashNew' /\ copy'[Other(active')].flags = 0 /\ active' \in Copies
        BY <1>1, <1>6, <2>1, <2>3, <2>5, Zenon
      <4> QED BY <1>5, <2>1, <4>1, Zenon
    <3> QED BY <1>5, <2>1, <2>2, <2>5, <3>1, <3>2, PromiseSucceeds, Zenon
  <2>6. CASE copy' \in {copy, Marked} /\ ReturnFail /\ UNCHANGED active
    <3>1. /\ copy'[active].crc = copy[active].crc /\ copy'[active].data = copy[active].data
          /\ copy'[Other(active)] = FlashNew
      <4>1. CASE copy' = copy  BY Zenon, <2>2, <4>1
      <4>2. CASE copy' = Marked  BY <2>3, <4>2, Zenon
      <4> QED BY Zenon, <2>6, <4>1, <4>2
    <3>2. InUse' = InUse  BY <2>6, <3>1, Zenon DEF InUse, Loads
    <3>3. BootPick' \in {InUse, env}  BY <1>5, <1>6, <2>1, <2>6, <3>1, <3>2, Zenon
    <3> QED BY <2>1, <2>2, <2>6, <3>1, <3>3, PromiseFails, Zenon
  <2> QED BY <2>1, <2>4, <2>5, <2>6, Zenon
<1>10. CASE FlashRestores
  <2>1. /\ pc = "restore" /\ UNCHANGED <<copy, env, loaded, clean>> /\ ReturnOk
        /\ active' = Other(active)
    BY Zenon, <1>3, <1>10 DEF FlashRestores
  <2>2. Saving /\ copy[Other(active)] = FlashNew /\ copy[active].flags = 0
    BY Zenon, <2>1 DEF Saving, StoresInv, PromiseInv
  <2>3. copy'[active'].crc /\ copy'[active'].data = env  BY <2>1, <2>2 DEF FlashNew
  <2>4. BootPick' = env  BY <1>1, <1>5, <1>6, <2>1, <2>2, Zenon
  <2> QED BY <1>5, <2>1, <2>2, <2>3, <2>4, PromiseSucceeds, Zenon
<1> QED BY <1>3, <1>7, <1>8, <1>9, <1>10, Zenon DEF FlashAlloc

\* A boot with a serial.
LEMMA SerialBootPromise ==
  ASSUME PromiseInv, board # "flash", UNCHANGED <<board, worn>>, SerialBoot
  PROVE  PromiseInv'
<1>1. /\ pc = "off" /\ pc' = "idle" /\ UNCHANGED copy
      /\ \/ /\ clean' = TRUE /\ active' = SerialChoice /\ saved' = Loads(SerialChoice) /\ maybe' = {}
            /\ copy[active'].crc => env_flags' = copy[active'].flags
         \/ clean' = FALSE /\ UNCHANGED <<saved, maybe>>
  BY Zenon DEF SerialBoot
<1>2. BootPick = Loads(SerialChoice)  BY Zenon DEF BootPick, BootChoice
<1>3. active' = SerialChoice => InUse' = Loads(SerialChoice)  BY <1>1, Zenon DEF InUse, Loads
<1>4. Down  BY Zenon, <1>1 DEF Down
<1> QED BY <1>1, <1>2, <1>3, <1>4, PromiseBoots, Zenon

\* saveenv has written the copy not in use, with the serial after that of the
\* copy in use.
LEMMA SerialWritten ==
  ASSUME StoresInv, StoresInv', PromiseInv, board # "flash", UNCHANGED <<board, worn>>,
         NEW at \in {"torn", "write"}, SerialWrites(at)
  PROVE  PromiseInv'
<1>1. /\ active \in Copies /\ Other(active) \in Copies /\ Other(active) # active
      /\ Other(Other(active)) = active
  BY OtherCopy, Zenon DEF StoresInv
<1>2. /\ copy' = [copy EXCEPT ![Other(active)] = EnvNew] /\ active' = Other(active) /\ ReturnOk
      /\ UNCHANGED <<env, clean, env_flags>>
  BY Zenon DEF SerialWrites, ramVars
<1>3. copy \in [Copies -> CopyType]  BY Zenon DEF StoresInv, CopiesOK
<1>4. copy'[Other(active)] = EnvNew /\ copy'[active] = copy[active]  BY Zenon, <1>1, <1>2, <1>3
<1>5. EnvNew.crc /\ EnvNew.flags = env_flags /\ EnvNew.data = env  BY Zenon DEF EnvNew
<1>6. Saving /\ ~Down  BY Zenon DEF SerialWrites, Saving, Down
<1>7. PicksRight'  BY Picks, PTL
<1>8. BootPick' \in Values  BY Zenon, <1>7 DEF PicksRight
<1>9. ASSUME clean PROVE BootPick' = env
  <2>1. copy[active].crc => /\ copy[active].flags \in 0..Top
                            /\ env_flags = (copy[active].flags + 1) % (Top + 1)
    BY <1>1, <1>6, <1>9, Zenon DEF PromiseInv, StoresInv, CopiesOK, Genuine
  <2>2. Top' = Top  BY Zenon DEF Top
  <2>3. Successor(active)'
    BY <1>1, <1>2, <1>4, <1>5, <2>1, <2>2, Zenon DEF Successor, Other
  <2>4. (active \in Copies)' /\ (board # "flash")'  BY Zenon, <1>1, <1>2
  <2>5. BootPick' = copy'[active'].data  BY <1>7, <2>3, <2>4, Zenon DEF PicksRight, Successor
  <2> QED BY <1>2, <1>4, <1>5, <2>5, Zenon
<1> QED BY <1>2, <1>4, <1>5, <1>6, <1>8, <1>9, PromiseSucceeds, Zenon

\* The copy not in use has gone bad.
LEMMA SerialTorn ==
  ASSUME StoresInv, StoresInv', PromiseInv, board # "flash", UNCHANGED <<board, worn>>,
         MmcTears \/ NandErases
  PROVE  PromiseInv'
<1>1. active \in Copies /\ Other(active) \in Copies /\ Other(active) # active
  BY OtherCopy, Zenon DEF StoresInv
<1>2. copy \in [Copies -> CopyType]  BY Zenon DEF StoresInv, CopiesOK
<1>3. /\ UNCHANGED <<active, env, clean, env_flags, result, saved, maybe>>
      /\ pc \in {"write", "erase"} /\ pc' \in {"torn", "write"}
      /\ copy' = Torn \/ copy' = [copy EXCEPT ![Other(active)] = Blank]
  BY Zenon DEF MmcTears, NandErases, GoOn, ramVars
<1>4. Torn[active] = copy[active] /\ ~Torn[Other(active)].crc
  <2>1. copy[Other(active)] \in [crc : BOOLEAN, flags : 0..255, data : Values]
    BY <1>1, <1>2 DEF CopyType
  <2>2. [copy[Other(active)] EXCEPT !.crc = FALSE].crc = FALSE  BY Zenon, <2>1
  <2>3. Torn[active] = copy[active] /\ Torn[Other(active)] = [copy[Other(active)] EXCEPT !.crc = FALSE]
    BY Zenon, <1>1, <1>2 DEF Torn
  <2> QED BY <2>2, <2>3, Zenon
<1>5. LET new == [copy EXCEPT ![Other(active)] = Blank]
      IN new[active] = copy[active] /\ ~new[Other(active)].crc
  BY Zenon, <1>1, <1>2 DEF Blank
<1>6. copy'[active] = copy[active] /\ ~copy'[Other(active)].crc  BY <1>3, <1>4, <1>5, Zenon
<1>7. Saving /\ Saving' /\ pc' \notin {"restore", "erase2", "write2"}  BY Zenon, <1>3 DEF Saving
<1>8. PicksRight'  BY Picks, PTL
<1>9. BootPick' = InUse'  BY <1>3, <1>6, <1>8, Zenon DEF PicksRight, Other
<1>10. InUse' = InUse  BY <1>3, <1>6, Zenon DEF InUse, Loads
<1> QED BY <1>3, <1>6, <1>7, <1>9, <1>10, PromiseGoesOn, Zenon

\* What a step may do that is not a fault of a worn board.
LEMMA HealthySteps ==
  ASSUME Healthy, PromiseInv, ~worn
  PROVE  /\ NorFaults \cap {"alloc", "erase", "rest"} = {}
         /\ MmcStep => \/ SerialBoot \/ (Quiet /\ UNCHANGED env_flags) \/ (SaveBegin("write") /\ Counts)
                       \/ MmcTears \/ SerialWrites("torn")
         /\ NandStep => \/ SerialBoot \/ (Quiet /\ UNCHANGED env_flags) \/ (SaveBegin("erase") /\ Counts)
                        \/ NandErases \/ SerialWrites("write")
<1>1. NorFaults = FlashFaults /\ Faults = SaveFaults  BY Zenon DEF NorFaults, Faults
<1>2. "addr" \notin Faults /\ "erase" \notin Faults /\ "write" \notin Faults  BY Zenon, <1>1 DEF Healthy
<1>3. {"erase", "write"} \cap Faults = {}  BY Zenon, <1>2
<1>4. pc \notin {"erase2", "write2"}  BY Zenon DEF PromiseInv
<1> QED BY <1>1, <1>2, <1>3, <1>4, Zenon DEF Healthy, MmcStep, MmcFails, NandStep, NandTurns, NandInUse

\* Both copies are blank at first, and a boot loads the default environment.
LEMMA PromiseInvInit == BoardInit => PromiseInv
<1> SUFFICES ASSUME BoardInit PROVE PromiseInv  BY Zenon
<1> USE DEF BoardInit, Init, BaseInit
<1>1. \A c \in Copies : ~copy[c].crc  BY Zenon DEF Blank
<1>2. BootPick = Default  BY <1>1, Chooses, Zenon DEF BootPick, Loads
<1>3. Down /\ ~Saving  BY Zenon DEF Down, Saving
<1> QED BY Zenon, <1>2, <1>3 DEF PromiseInv, Settled

\* On a board that is not worn every step keeps PromiseInv.
LEMMA PromiseInvStep ==
  ASSUME Healthy, StoresInv, StoresInv', worn \/ PromiseInv, [BoardStep]_boardVars
  PROVE  (worn \/ PromiseInv)'
<1>1. CASE UNCHANGED boardVars
  <2>1. UNCHANGED <<board, worn, copy, active>>  BY Zenon, <1>1 DEF boardVars, vars
  <2>2. BootPick' = BootPick /\ FlashChoice' = FlashChoice /\ InUse' = InUse  BY <2>1, SamePick, Zenon
  <2> QED BY Zenon, <1>1, <2>2 DEF boardVars, vars, PromiseInv, Settled, Saving, Down, Top
<1>2. CASE BoardStep /\ ~worn
  <2>1. UNCHANGED <<board, worn>> /\ PromiseInv  BY Zenon, <1>2 DEF BoardStep
  <2>2. "erase" \in {"erase", "write"} /\ "write" \in {"erase", "write"} /\ "torn" \in {"torn", "write"}
        /\ "write" \in {"torn", "write"}
    BY Zenon
  <2>3. CASE board = "flash" /\ FlashStep /\ UNCHANGED env_flags
    <3>1. NorFaults \cap {"alloc", "erase", "rest"} = {}  BY <1>2, <2>1, HealthySteps, Zenon
    <3>2. CASE Quiet  BY <2>1, <2>3, <3>2, PromiseBase, Zenon
    <3>3. CASE SaveBegin("erase")  BY <2>1, <2>2, <2>3, <3>3, PromiseBegin, Zenon
    <3> QED BY <2>1, <2>3, <3>1, <3>2, <3>3, FlashBootPromise, FlashSavePromise, Zenon DEF FlashStep
  <2>4. ASSUME board # "flash",
               \/ SerialBoot \/ (Quiet /\ UNCHANGED env_flags)
               \/ (SaveBegin("write") /\ Counts) \/ (SaveBegin("erase") /\ Counts)
               \/ MmcTears \/ NandErases \/ SerialWrites("torn") \/ SerialWrites("write")
        PROVE  PromiseInv'
    <3>1. CASE SerialBoot  BY <2>1, <2>4, <3>1, SerialBootPromise, Zenon
    <3>2. CASE Quiet /\ UNCHANGED env_flags  BY <2>1, <2>4, <3>2, PromiseBase, Zenon
    <3>3. CASE (SaveBegin("write") /\ Counts) \/ (SaveBegin("erase") /\ Counts)
      BY <2>1, <2>2, <3>3, PromiseBegin, Zenon
    <3>4. CASE MmcTears \/ NandErases  BY <2>1, <2>4, <3>4, SerialTorn, Zenon
    <3>5. CASE SerialWrites("torn") \/ SerialWrites("write")
      BY <2>1, <2>2, <2>4, <3>5, SerialWritten, Zenon
    <3> QED BY <2>4, <3>1, <3>2, <3>3, <3>4, <3>5, Zenon
  <2>5. board \in {"mmc", "nand"} => board # "flash"  BY Zenon
  <2> QED BY <1>2, <2>1, <2>3, <2>4, <2>5, HealthySteps, Zenon DEF BoardStep
<1>3. CASE BoardStep /\ worn  BY Zenon, <1>3 DEF BoardStep
<1> QED BY Zenon, <1>1, <1>2, <1>3

\* On every board that is not worn: PromiseInv.
LEMMA HealthyInvariant ==
  ASSUME Healthy PROVE BoardSpec => [](StoresInv /\ (worn \/ PromiseInv))
<1>1. BoardInit => worn \/ PromiseInv  BY Zenon, PromiseInvInit
<1>2. StoresInv /\ StoresInv' /\ (worn \/ PromiseInv) /\ [BoardStep]_boardVars => (worn \/ PromiseInv)'
  BY Zenon, PromiseInvStep
<1> QED BY <1>1, <1>2, BoardInvariant, PTL DEF BoardSpec

\* A step on a board that is not worn leaves the CRC of the copy in use alone,
\* and a boot those of both.
LEMMA GoodCopyStays ==
  ASSUME Healthy, StoresInv, PromiseInv, ~worn, BoardStep
  PROVE  /\ copy'[active].crc = copy[active].crc
         /\ Down => \A c \in Copies : copy'[c].crc = copy[c].crc
<1>1. active \in Copies /\ Other(active) \in Copies /\ Other(active) # active
  BY OtherCopy, Zenon DEF StoresInv
<1>2. copy \in [Copies -> CopyType]  BY Zenon DEF StoresInv, CopiesOK
<1>3. \/ copy' = copy
      \/ \E c \in {active, Other(active)} : copy' = [copy EXCEPT ![c].flags = 0]
      \/ /\ ~Down
         /\ \/ copy' = Torn
            \/ \E r \in {Blank, FlashNew, EnvNew} : copy' = [copy EXCEPT ![Other(active)] = r]
  <2>1. CASE board = "flash" /\ FlashStep
    <3>1. CASE FlashImports
      <4>1. copy[active].crc  BY Zenon, <3>1 DEF StoresInv, FlashImports
      <4> QED BY <1>1, <2>1, <3>1, <4>1, Zenon DEF FlashImports, StoresInv, CopiesOK, Genuine
    <3>2. CASE Quiet \/ SaveBegin("erase") \/ FlashInit \/ FlashRepairs
      BY Zenon, <3>2 DEF Quiet, SetEnv, PowerFail, SaveRefused, SaveBegin, FlashInit, Import, FlashRepairs
    <3>3. CASE FlashErases \/ FlashWrites
      BY Zenon, <3>3 DEF FlashErases, FlashWrites, Down
    <3>4. CASE FlashMarks \/ FlashRestores \/ FlashAlloc
      BY Zenon, <3>4 DEF FlashMarks, FlashRestores, FlashAlloc
    <3> QED BY <2>1, <3>1, <3>2, <3>3, <3>4, Zenon DEF FlashStep
  <2>2. \/ SerialBoot \/ Quiet \/ SaveBegin("write") \/ SaveBegin("erase") => copy' = copy
    BY Zenon DEF SerialBoot, Quiet, SetEnv, PowerFail, SaveRefused, SaveBegin
  <2>3. ASSUME MmcTears \/ NandErases \/ SerialWrites("torn") \/ SerialWrites("write")
        PROVE  /\ ~Down
               /\ \/ copy' = Torn
                  \/ \E r \in {Blank, FlashNew, EnvNew} : copy' = [copy EXCEPT ![Other(active)] = r]
    BY Zenon, <2>3 DEF MmcTears, NandErases, SerialWrites, Down
  <2> QED BY <2>1, <2>2, <2>3, HealthySteps, Zenon DEF BoardStep
<1>4. CASE copy' = copy  BY Zenon, <1>4
<1>5. ASSUME NEW c \in Copies, copy' = [copy EXCEPT ![c].flags = 0]
      PROVE  \A i \in Copies : copy'[i].crc = copy[i].crc
  <2>1. copy'[c].crc = copy[c].crc /\ copy'[Other(c)] = copy[Other(c)]
    BY <1>2, <1>5, FlagsExcept, Zenon
  <2>2. \A i \in Copies : i = c \/ i = Other(c)  BY OtherCopy, Zenon
  <2> QED BY <2>1, <2>2, Zenon
<1>6. CASE /\ ~Down
           /\ \/ copy' = Torn
              \/ \E r \in {Blank, FlashNew, EnvNew} : copy' = [copy EXCEPT ![Other(active)] = r]
  <2>1. copy'[active] = copy[active]  BY Zenon, <1>1, <1>2, <1>6 DEF Torn
  <2> QED BY Zenon, <1>6, <2>1
<1> QED BY <1>1, <1>3, <1>4, <1>5, <1>6, Zenon

-----------------------------------------------------------------------------
(* What a step on a board that is not worn shows of itself.                *)

Silent == UNCHANGED <<saved, maybe, loaded, result, clean, req>>

BootsClean ==
  /\ Down /\ pc' = "idle" /\ loaded' = BootPick /\ saved' = BootPick /\ maybe' = {} /\ clean' = TRUE
  /\ UNCHANGED result

BootsFaulty ==
  /\ Down /\ pc' = "idle" /\ clean' = FALSE /\ UNCHANGED <<saved, maybe, result>>

Ends == Saving /\ (ReturnOk \/ ReturnFail) /\ UNCHANGED <<loaded, clean>>

Visible ==
  \/ Silent \/ BootsClean \/ BootsFaulty \/ Ends
  \/ SaveBegin("erase") \/ SaveBegin("write") \/ SaveRefused(env) \/ PowerFail

\* setenv shows nothing, nor does a step within a boot or a save.
LEMMA SilentSteps ==
  /\ SetEnv => Silent
  /\ /\ UNCHANGED <<saved, maybe, loaded, result, clean, env>> /\ (Saving <=> Saving')
     => Silent
<1>1. ASSUME SetEnv PROVE Silent
  <2>1. ~Saving /\ ~Saving'  BY Zenon, <1>1 DEF SetEnv, Saving
  <2> QED BY <1>1, <2>1, Zenon DEF SetEnv, Silent, req
<1> QED BY <1>1, Zenon DEF Silent, req

\* A step in NOR flash.
LEMMA FlashVisible ==
  ASSUME StoresInv, PromiseInv, board = "flash", FlashStep,
         NorFaults \cap {"alloc", "erase", "rest"} = {}
  PROVE  Visible
<1>1. BootPick = Loads(FlashChoice)  BY Zenon DEF BootPick, BootChoice
<1>2. "alloc" \notin NorFaults  BY Zenon
<1>3. CASE FlashInit
  <2>1. CASE HasCopy
    <3>1. pc = "off" /\ pc' = "select" /\ UNCHANGED <<env, result, loaded, clean, saved, maybe>>
      BY Zenon, <1>3, <2>1 DEF FlashInit
    <3>2. Saving <=> Saving'  BY Zenon, <3>1 DEF Saving
    <3> QED BY <3>1, <3>2, SilentSteps, Zenon DEF Visible
  <2>2. CASE ~HasCopy
    <3>1. \A c \in Copies : Loads(c) = Default /\ ~copy[c].crc  BY <2>2, Zenon DEF HasCopy, Loads
    <3>2. 1 \in Copies  BY DEF Copies
    <3>3. /\ pc = "off" /\ pc' = "idle" /\ loaded' = Default /\ saved' = Default
          /\ maybe' = {} /\ clean' = TRUE /\ UNCHANGED result
      BY Zenon, <1>3, <2>2, <3>1, <3>2 DEF FlashInit, Import
    <3>4. BootPick = Default  BY <1>1, <3>1, Chooses, Zenon
    <3>5. Down  BY Zenon, <3>3 DEF Down
    <3> QED BY <3>3, <3>4, <3>5, Zenon DEF Visible, BootsClean
  <2> QED BY Zenon, <2>1, <2>2
<1>4. CASE FlashRepairs
  <2>1. pc = "select" /\ pc' = "repair" /\ UNCHANGED <<env, result, loaded, clean, saved, maybe>>
    BY Zenon, <1>4 DEF FlashRepairs
  <2>2. Saving <=> Saving'  BY Zenon, <2>1 DEF Saving
  <2> QED BY <2>1, <2>2, SilentSteps, Zenon DEF Visible
<1>5. CASE FlashImports
  <2>1. copy[active].crc /\ FlashChoice = active /\ Down
    BY Zenon, <1>5 DEF StoresInv, PromiseInv, FlashImports, Down
  <2>2. BootPick = copy[active].data  BY <1>1, <2>1, Zenon DEF Loads
  <2> QED BY <1>5, <2>1, <2>2, Zenon DEF FlashImports, Visible, BootsClean, BootsFaulty
<1>6. CASE FlashErases \/ FlashWrites \/ FlashMarks \/ FlashRestores
  <2>1. /\ pc \in {"erase", "write", "flag", "restore"} /\ UNCHANGED <<env, loaded, clean>>
        /\ \/ ReturnOk \/ ReturnFail
           \/ pc' \in {"write", "flag", "restore"} /\ UNCHANGED <<result, saved, maybe>>
    BY Zenon, <1>6 DEF FlashErases, FlashWrites, FlashMarks, FlashRestores, GoOn
  <2>2. Saving /\ (pc' \in {"write", "flag", "restore"} => Saving')  BY Zenon, <2>1 DEF Saving
  <2> QED BY <2>1, <2>2, SilentSteps, Zenon DEF Visible, Ends
<1> QED BY <1>2, <1>3, <1>4, <1>5, <1>6, SilentSteps, Zenon DEF FlashStep, FlashAlloc, Quiet, Visible

\* A step with a serial.
LEMMA SerialVisible ==
  ASSUME board # "flash",
         \/ SerialBoot \/ Quiet \/ SaveBegin("write") \/ SaveBegin("erase")
         \/ MmcTears \/ NandErases \/ SerialWrites("torn") \/ SerialWrites("write")
  PROVE  Visible
<1>1. CASE SerialBoot
  <2>1. BootPick = Loads(SerialChoice)  BY Zenon DEF BootPick, BootChoice
  <2>2. Down  BY Zenon, <1>1 DEF SerialBoot, Down
  <2> QED BY <1>1, <2>1, <2>2, Zenon DEF SerialBoot, Visible, BootsClean, BootsFaulty
<1>2. CASE MmcTears \/ NandErases \/ SerialWrites("torn") \/ SerialWrites("write")
  <2>1. /\ pc \in {"erase", "write", "torn"} /\ UNCHANGED <<env, loaded, clean>>
        /\ ReturnOk \/ (pc' \in {"write", "torn"} /\ UNCHANGED <<result, saved, maybe>>)
    BY Zenon, <1>2 DEF MmcTears, NandErases, SerialWrites, GoOn, ramVars
  <2>2. Saving /\ (pc' \in {"write", "torn"} => Saving')  BY Zenon, <2>1 DEF Saving
  <2> QED BY <2>1, <2>2, SilentSteps, Zenon DEF Visible, Ends
<1> QED BY <1>1, <1>2, SilentSteps, Zenon DEF Quiet, Visible

\* Whatever the backend.
LEMMA StepsVisible ==
  ASSUME Healthy, StoresInv, PromiseInv, ~worn, BoardStep
  PROVE  Visible
<1>1. board \in {"mmc", "nand"} => board # "flash"  BY Zenon
<1> QED BY <1>1, HealthySteps, FlashVisible, SerialVisible, Zenon DEF BoardStep

-----------------------------------------------------------------------------
(* SerialInv, on a worn board with a serial.                               *)

\* Within a turn of the serial, and with boots that read both copies.
SerialSeen ==
  Horizon <= WornMaxSerial /\ WornBootFaults \cap {"init", "read1", "read2"} = {}

Counted == \A c \in Copies : copy[c].crc => copy[c].flags \in 1..Top

LargestPicked ==
  /\ \A c \in Copies : copy[c].crc => copy[c].flags <= copy[SerialChoice].flags
  /\ \A c \in Copies :
       /\ copy[c].crc
       /\ \A i \in Copies : copy[i].crc => copy[i].flags < copy[c].flags \/ copy[i] = copy[c]
       => Loads(SerialChoice) = copy[c].data

\* As long as no serial is 0 the boot chooses the copy with the largest.
LEMMA PicksLargest == StoresInv /\ Counted => LargestPicked
<1> SUFFICES ASSUME StoresInv, Counted PROVE LargestPicked  BY Zenon
<1>1. Top \in Nat  BY SerialAssumption, WornAssumption DEF Top, StoresInv
<1>2. \A c \in Copies : copy[c].crc =>
        copy[c].flags \in Nat /\ copy[c].flags >= 1 /\ copy[c].flags <= Top
  <2> SUFFICES ASSUME NEW c \in Copies, copy[c].crc
               PROVE  /\ copy[c].flags \in Nat /\ copy[c].flags >= 1
                      /\ copy[c].flags <= Top
    BY Zenon
  <2>1. copy[c].flags \in 1..Top  BY Zenon DEF Counted
  <2> QED BY ONLY <1>1, <2>1
<1>3. \A c \in Copies : copy[c].crc => copy[c].flags <= copy[SerialChoice].flags
  BY ONLY <1>1, <1>2 DEF SerialChoice, Copies
<1>4. ASSUME NEW c \in Copies, copy[c].crc,
             \A i \in Copies : copy[i].crc => copy[i].flags < copy[c].flags \/ copy[i] = copy[c]
      PROVE  Loads(SerialChoice) = copy[c].data
  <2>1. copy[SerialChoice].crc /\ SerialChoice \in Copies  BY <1>4, Chooses, Zenon DEF HasCopy
  <2>2. copy[c].flags <= copy[SerialChoice].flags  BY Zenon, <1>3, <1>4
  <2>3. ~(copy[SerialChoice].flags < copy[c].flags)  BY <1>2, <1>4, <2>1, <2>2
  <2>4. copy[SerialChoice] = copy[c]  BY <1>4, <2>1, <2>3, Zenon
  <2> QED BY <2>1, <2>4, Zenon DEF Loads
<1> QED BY <1>3, <1>4, Zenon DEF LargestPicked

\* The largest serial that saveenv writes on a worn board.
LEMMA WornBounds ==
  ASSUME SerialSeen, worn
  PROVE  Horizon \in Nat /\ Top = WornMaxSerial /\ Top \in Nat /\ Horizon <= Top
BY SerialAssumption, WornAssumption DEF SerialSeen, Top

\* A boot takes over the largest serial.
LEMMA SerialBootLargest ==
  ASSUME SerialSeen, worn, StoresInv, SerialInv, SerialBoot
  PROVE  SerialInv'
<1>1. Horizon \in Nat /\ Top \in Nat /\ Horizon <= Top  BY Zenon, WornBounds
<1>2. Counted  BY <1>1 DEF SerialInv, Counted
<1>3. LargestPicked  BY Zenon, <1>2, PicksLargest
<1>4. pc = "off" /\ pc' = "idle" /\ UNCHANGED <<copy, result>>  BY Zenon DEF SerialBoot
<1>5. env_flags' = IF HasCopy THEN copy[SerialChoice].flags ELSE 0
  BY Zenon DEF SerialBoot, SerialSeen, ReadFaults
<1>6. env_flags' \in 0..Horizon
  <2>1. CASE HasCopy
    <3>1. copy[SerialChoice].flags \in 1..Horizon  BY <2>1, Chooses, Zenon DEF SerialInv
    <3>2. env_flags' = copy[SerialChoice].flags  BY <1>5, <2>1, Zenon
    <3> QED BY <1>1, <3>1, <3>2
  <2>2. CASE ~HasCopy
    <3>1. env_flags' = 0  BY <1>5, <2>2, Zenon
    <3> QED BY <1>1, <3>1
  <2> QED BY Zenon, <2>1, <2>2
<1>7. \A c \in Copies : copy[c].crc => copy[c].flags \in 1..Horizon /\ copy[c].flags <= env_flags'
  BY <1>3, <1>5, Zenon DEF SerialInv, LargestPicked, HasCopy
<1>8. result' # "ok"  BY Zenon, <1>4 DEF SerialInv
<1>9. ~Saving'  BY Zenon, <1>4 DEF Saving
<1> QED BY <1>4, <1>6, <1>7, <1>8, <1>9, Zenon DEF SerialInv

\* The serial counts on.
LEMMA SerialCounts ==
  ASSUME SerialSeen, worn, SerialInv, Counts
  PROVE  env_flags' = env_flags + 1 /\ env_flags \in 0..Horizon /\ env_flags + 1 \in 1..Horizon
<1>1. Horizon \in Nat /\ Top \in Nat /\ Horizon <= Top  BY Zenon, WornBounds
<1>2. env_flags \in Nat /\ env_flags < Horizon  BY <1>1 DEF SerialInv, Counts
<1>3. (env_flags + 1) % (Top + 1) = env_flags + 1  BY <1>1, <1>2, Z3
<1> QED BY <1>1, <1>2, <1>3 DEF Counts

\* The power fails, or a command leaves the storage alone.
LEMMA SerialQuiet ==
  ASSUME SerialSeen, worn, SerialInv, UNCHANGED <<board, worn>>,
         (Quiet /\ UNCHANGED env_flags) \/ (SaveRefused(env) /\ Counts)
  PROVE  SerialInv'
<1>1. /\ UNCHANGED <<copy, saved>> /\ pc # "off" /\ pc' \in {"idle", "off"}
      /\ result' = "ok" => result = "ok" /\ pc' = "idle"
  BY Zenon DEF Quiet, SetEnv, PowerFail, SaveRefused
<1>2. ~Saving'  BY Zenon, <1>1 DEF Saving
<1>3. Horizon \in Nat  BY Zenon, SerialAssumption
<1>4. env_flags \in Nat /\ env_flags <= Horizon  BY <1>3 DEF SerialInv
<1>5. env_flags' \in 0..Horizon /\ env_flags <= env_flags' /\ env_flags' \in Nat
  <2>1. CASE UNCHANGED env_flags  BY <1>3, <1>4, <2>1
  <2>2. CASE Counts  BY <1>3, <1>4, <2>2, SerialCounts
  <2> QED BY Zenon, <2>1, <2>2
<1>6. ASSUME NEW c \in Copies, copy[c].crc
      PROVE  copy[c].flags \in 1..Horizon /\ copy[c].flags <= env_flags'
  <2>1. copy[c].flags \in 1..Horizon /\ copy[c].flags <= env_flags  BY Zenon, <1>1, <1>6 DEF SerialInv
  <2> QED BY <1>3, <1>4, <1>5, <2>1
<1>7. BootPick' = BootPick  BY <1>1, SamePick, Zenon
<1>8. result' = "ok" => pc' = "idle" /\ BootPick' = saved'  BY <1>1, <1>7, Zenon DEF SerialInv
<1> QED BY <1>1, <1>2, <1>5, <1>6, <1>8, Zenon DEF SerialInv

\* saveenv begins with the next serial.
LEMMA SerialBegins ==
  ASSUME SerialSeen, worn, SerialInv, NEW next \in {"erase", "write"}, SaveBegin(next), Counts
  PROVE  SerialInv'
<1>1. UNCHANGED copy /\ pc = "idle" /\ pc' = next /\ result' = "none"  BY Zenon DEF SaveBegin
<1>2. Horizon \in Nat  BY Zenon, SerialAssumption
<1>3. env_flags' = env_flags + 1 /\ env_flags \in 0..Horizon /\ env_flags + 1 \in 1..Horizon
  BY Zenon, SerialCounts
<1>5. env_flags' \in 0..Horizon /\ env_flags' >= 1  BY <1>2, <1>3
<1>6. ASSUME NEW c \in Copies, copy[c].crc
      PROVE  copy[c].flags \in 1..Horizon /\ copy[c].flags <= env_flags' /\ copy[c].flags < env_flags'
  <2>1. copy[c].flags \in 1..Horizon /\ copy[c].flags <= env_flags  BY Zenon, <1>1, <1>6 DEF SerialInv
  <2> QED BY <1>2, <1>3, <2>1
<1>7. result' # "ok"  BY Zenon, <1>1
<1> QED BY <1>1, <1>5, <1>6, <1>7, Zenon DEF SerialInv

\* A step of saveenv: each of the copies is as it was, bad, or new.
LEMMA SerialSaves ==
  ASSUME SerialSeen, worn, board # "flash", UNCHANGED <<board, worn>>,
         StoresInv, StoresInv', SerialInv, Saving, UNCHANGED ramVars, pc' # "off",
         \A c \in Copies : copy'[c] = copy[c] \/ ~copy'[c].crc \/ copy'[c] = EnvNew,
         \/ ReturnOk /\ \E c \in Copies : copy'[c] = EnvNew
         \/ ReturnFail
         \/ pc' # "idle" /\ UNCHANGED result
  PROVE  SerialInv'
<1>1. Horizon \in Nat /\ Top \in Nat /\ Horizon <= Top  BY Zenon, WornBounds
<1>2. EnvNew' = EnvNew /\ EnvNew.crc /\ EnvNew.flags = env_flags /\ EnvNew.data = env
  BY Zenon DEF EnvNew, ramVars
<1>3. pc # "off" /\ result # "ok"  BY Zenon DEF Saving, SerialInv
<1>4. env_flags \in 1..Horizon /\ UNCHANGED env_flags  BY <1>1 DEF SerialInv, ramVars
<1>5. ASSUME NEW c \in Copies, copy'[c].crc
      PROVE  /\ copy'[c].flags \in 1..Horizon /\ copy'[c].flags <= env_flags
             /\ copy'[c].flags < env_flags \/ copy'[c] = EnvNew
  <2>1. CASE copy'[c] = copy[c]  BY <1>3, <1>5, <2>1, Zenon DEF SerialInv
  <2>2. CASE copy'[c] = EnvNew  BY <1>1, <1>2, <1>4, <2>2
  <2> QED BY <1>5, <2>1, <2>2, Zenon
<1>6. ASSUME ReturnOk, NEW c \in Copies, copy'[c] = EnvNew
      PROVE  BootPick' = saved'
  <2>1. Top' = Top  BY Zenon DEF Top
  <2>2. \A i \in Copies : copy'[i].crc => copy'[i].flags \in 1..Top
    <3> SUFFICES ASSUME NEW i \in Copies, copy'[i].crc PROVE copy'[i].flags \in 1..Top
      BY Zenon
    <3>1. copy'[i].flags \in 1..Horizon  BY <1>5, Zenon
    <3> QED BY <1>1, <3>1
  <2>3. Counted'  BY <2>1, <2>2, Zenon DEF Counted, Copies
  <2>4. LargestPicked'  BY <2>3, PicksLargest, PTL
  <2>5. copy'[c].crc /\ copy'[c].flags = env_flags /\ copy'[c].data = env  BY <1>2, <1>6, Zenon
  <2>6. \A i \in Copies : copy'[i].crc => copy'[i].flags < copy'[c].flags \/ copy'[i] = copy'[c]
    BY <1>5, <1>6, <2>5, Zenon
  <2>7. Loads(SerialChoice)' = copy'[c].data
    BY <2>4, <2>5, <2>6, Zenon DEF LargestPicked, Copies
  <2>8. BootPick' = Loads(SerialChoice)'  BY Zenon DEF BootPick, BootChoice
  <2> QED BY <1>6, <2>5, <2>7, <2>8, Zenon DEF ReturnOk
<1>7. result' = "ok" => pc' = "idle" /\ BootPick' = saved'
  <2>1. result' = "ok" => ReturnOk /\ \E c \in Copies : copy'[c] = EnvNew
    BY <1>3, Zenon DEF ReturnFail
  <2>2. ReturnOk => pc' = "idle"  BY Zenon DEF ReturnOk
  <2> QED BY <1>6, <2>1, <2>2, Zenon
<1>8. env_flags' \in 0..Horizon /\ env_flags' >= 1  BY <1>1, <1>4
<1> QED BY <1>2, <1>4, <1>5, <1>7, <1>8, Zenon DEF SerialInv, Copies

\* A step of saveenv on a worn MMC device or in worn NAND flash.
LEMMA SerialSaveStep ==
  ASSUME SerialSeen, worn, board # "flash", UNCHANGED <<board, worn>>,
         StoresInv, StoresInv', SerialInv,
         \/ MmcTears \/ MmcFails \/ SerialWrites("torn") \/ SerialWrites("write")
         \/ NandErases \/ NandTurns \/ NandInUse
  PROVE  SerialInv'
<1>1. active \in Copies /\ Other(active) \in Copies /\ Other(active) # active
  BY OtherCopy, Zenon DEF StoresInv
<1>2. copy \in [Copies -> CopyType]  BY Zenon DEF StoresInv, CopiesOK
<1>3. /\ pc \in {"erase", "write", "torn", "erase2", "write2"} /\ UNCHANGED ramVars
      /\ \E c \in {active, Other(active)} :
           \/ copy' = [copy EXCEPT ![c] = EnvNew] /\ ReturnOk
           \/ /\ copy' \in {copy, Torn, [copy EXCEPT ![c] = Blank], [copy EXCEPT ![c] = EnvNew]}
              /\ ReturnFail \/ (pc' \in {"write", "torn", "erase2", "write2"} /\ UNCHANGED result)
  BY Zenon DEF MmcTears, MmcFails, SerialWrites, NandErases, NandTurns, NandInUse, GoOn
<1>4. PICK c \in Copies :
        \/ copy' = [copy EXCEPT ![c] = EnvNew] /\ ReturnOk
        \/ /\ copy' \in {copy, Torn, [copy EXCEPT ![c] = Blank], [copy EXCEPT ![c] = EnvNew]}
           /\ ReturnFail \/ (pc' \in {"write", "torn", "erase2", "write2"} /\ UNCHANGED result)
  BY <1>1, <1>3, Zenon
<1>5. Torn[active] = copy[active] /\ ~Torn[Other(active)].crc
  <2>1. copy[Other(active)] \in [crc : BOOLEAN, flags : 0..255, data : Values]
    BY <1>1, <1>2 DEF CopyType
  <2>2. [copy[Other(active)] EXCEPT !.crc = FALSE].crc = FALSE  BY Zenon, <2>1
  <2>3. Torn[active] = copy[active] /\ Torn[Other(active)] = [copy[Other(active)] EXCEPT !.crc = FALSE]
    BY Zenon, <1>1, <1>2 DEF Torn
  <2> QED BY <2>2, <2>3, Zenon
<1>6. \A i \in Copies : copy'[i] = copy[i] \/ ~copy'[i].crc \/ copy'[i] = EnvNew
  <2>1. CASE copy' = Torn  BY <1>1, <1>5, <2>1, OtherCopy, Zenon
  <2>2. CASE copy' # Torn
    <3>1. (\A i \in Copies : i # c => copy'[i] = copy[i]) /\ copy'[c] \in {copy[c], Blank, EnvNew}
      BY Zenon, <1>2, <1>4, <2>2
    <3>2. ~Blank.crc  BY Zenon DEF Blank
    <3> QED BY <3>1, <3>2, Zenon
  <2> QED BY Zenon, <2>1, <2>2
<1>7. Saving /\ pc' # "off" /\ (pc' \in {"write", "torn", "erase2", "write2"} => pc' # "idle")
  BY Zenon, <1>3, <1>4 DEF Saving, ReturnOk, ReturnFail
<1>8. copy' = [copy EXCEPT ![c] = EnvNew] => copy'[c] = EnvNew  BY Zenon, <1>2
<1>9. ReturnFail \/ (pc' # "idle" /\ UNCHANGED result) \/ (ReturnOk /\ copy'[c] = EnvNew)
  BY <1>4, <1>7, <1>8, Zenon
<1> QED BY <1>3, <1>6, <1>7, <1>9, SerialSaves, Zenon

SerialWorn == worn /\ board # "flash" => SerialInv

\* On every worn board with a serial: SerialInv.
LEMMA WornInvariant == ASSUME SerialSeen PROVE BoardSpec => []SerialWorn
<1>1. BoardInit => SerialWorn
  <2> SUFFICES ASSUME BoardInit PROVE SerialInv  BY Zenon DEF SerialWorn
  <2> USE DEF BoardInit, Init, BaseInit
  <2>1. \A c \in Copies : ~copy[c].crc  BY Zenon DEF Blank
  <2>2. env_flags \in 0..Horizon /\ ~Saving /\ result # "ok"  BY SerialAssumption DEF Saving
  <2> QED BY <2>1, <2>2, Zenon DEF SerialInv
<1>2. StoresInv /\ StoresInv' /\ SerialWorn /\ [BoardStep]_boardVars => SerialWorn'
  <2> SUFFICES ASSUME StoresInv, StoresInv', SerialWorn, [BoardStep]_boardVars, worn', board' # "flash"
               PROVE  SerialInv'
    BY Zenon DEF SerialWorn
  <2>1. UNCHANGED <<board, worn>>  BY Zenon DEF BoardStep, boardVars
  <2>2. SerialInv /\ worn /\ board # "flash"  BY Zenon, <2>1 DEF SerialWorn
  <2>3. CASE UNCHANGED boardVars
    <3>1. UNCHANGED <<board, worn, copy>>  BY Zenon, <2>3 DEF boardVars, vars
    <3>2. BootPick' = BootPick  BY <3>1, SamePick, Zenon
    <3> QED BY Zenon, <2>2, <2>3, <3>2 DEF boardVars, vars, SerialInv, Saving, EnvNew
  <2>4. CASE BoardStep
    <3>1. MmcStep \/ NandStep  BY Zenon, <2>2, <2>4 DEF BoardStep
    <3>2. CASE SerialBoot  BY Zenon, <2>2, <3>2, SerialBootLargest
    <3>3. CASE (Quiet /\ UNCHANGED env_flags) \/ (SaveRefused(env) /\ Counts)
      BY Zenon, <2>1, <2>2, <3>3, SerialQuiet
    <3>4. CASE (SaveBegin("write") /\ Counts) \/ (SaveBegin("erase") /\ Counts)
      BY Zenon, <2>2, <3>4, SerialBegins
    <3> QED BY <2>1, <2>2, <3>1, <3>2, <3>3, <3>4, SerialSaveStep, Zenon DEF MmcStep, NandStep
  <2> QED BY Zenon, <2>3, <2>4
<1> QED BY <1>1, <1>2, BoardInvariant, PTL DEF BoardSpec
=============================================================================
