--------------------------- MODULE StartUpProofs ---------------------------
(***************************************************************************)
(* Proofs about the start of the camera.  The firmware upgrade: the pages  *)
(* in front of complete_size are the new image, and the flash is only      *)
(* touched while the good file is on the card; as long as no read of that  *)
(* file was cut short.                                                     *)
(***************************************************************************)
EXTENDS StartUp, TLAPS

-----------------------------------------------------------------------------
(* The firmware upgrade.                                                   *)

Contents == {"old", "new", "stale", "erased", "junk"}

Flashing == {"block", "erase", "page", "verify"}

Whole == {"old", "new"}

UpgradeTypes ==
  /\ flash \in [Page -> Contents]
  /\ bin \in {"none", "good", "bad"} /\ gaveUp \in BOOLEAN
  /\ complete \in Nat
  /\ flags \in [exist : BOOLEAN, back : BOOLEAN, del : BOOLEAN]

(* The upgrade has got as far as complete says, and what it programs is    *)
(* the file.                                                               *)
Progress ==
  /\ upc \in Flashing => bin = "good" /\ \A p \in Page : p < complete => flash[p] = "new"
  /\ upc \in {"erase", "page", "verify"} => complete < Pages /\ ram = Block
  /\ upc = "erase" => complete % BlockPages = 0
  /\ upc \in {"message", "delete", "upgraded"} /\ ~gaveUp => All("new")

(* What is left when something fails: a mixture is only ever in the flash  *)
(* beside the good file, and only a whole image starts.                    *)
Rest ==
  /\ bin = "bad" => All("old")
  /\ ~gaveUp => Bootable \/ bin = "good"
  /\ upc = "ini" => Bootable

(* The backup is made before the flash is touched.                         *)
Copied ==
  /\ upc \in {"backup", "copy", "find", "sum"} \cup Flashing => ~gaveUp
  /\ upc \in {"find", "sum"} \cup Flashing /\ flags.back /\ "write" \notin short => backup \in Whole
  /\ gaveUp /\ flags.back /\ "write" \notin short => backup \in Whole

UpgradeInv == UpgradeTypes /\ Copied /\ ("read" \notin short => Progress /\ Rest)

(* The pages of a block.                                                   *)
LEMMA Division ==
  ASSUME NEW B \in Nat \ {0}, NEW c \in Nat
  PROVE  /\ c = B * (c \div B) + (c % B) /\ c \div B \in Nat /\ c % B \in 0..(B - 1)
         /\ c - (c % B) = B * (c \div B)
<1> DEFINE q == c \div B  r == c % B
<1>1. c = B * q + r /\ q \in Nat /\ r \in 0..(B - 1)
  OBVIOUS
<1>2. QED
  <2>1. B * q \in Int
    BY <1>1
  <2> HIDE DEF q, r
  <2>2. c - r = B * q
    BY <1>1, <2>1
  <2>3. QED
    BY <1>1, <2>2 DEF q, r

(* The block to be erased begins at complete.                              *)
LEMMA BlockBegins ==
  ASSUME complete \in Nat, complete % BlockPages = 0, NEW p \in Block
  PROVE  p \in Page /\ ~(p < complete)
<1> DEFINE B == BlockPages  q == complete \div B
<1>1. B \in Nat /\ B > 0 /\ p \in Nat
  BY UpgradeAssumption DEF Block, Page
<1>2. p \div B = q
  BY DEF Block
<1>3. complete = B * q + (complete % B)
  BY <1>1
<1>4. p = B * (p \div B) + (p % B) /\ p % B >= 0
  BY <1>1
<1>5. QED
  BY <1>1, <1>2, <1>3, <1>4 DEF Block

LEMMA FlashTypes ==
  ASSUME UpgradeTypes, NEW ok \in BOOLEAN
  PROVE  /\ SPI_Flash_erase_block(ok) => flash' \in [Page -> Contents]
         /\ SPI_Flash_write_page(ok) => flash' \in [Page -> Contents]
BY DEF UpgradeTypes, SPI_Flash_erase_block, SPI_Flash_write_page, With, Programmed, Held, Contents

(* Neither erasing nor programming touches what is done.                   *)
LEMMA DoneIsKept ==
  ASSUME UpgradeTypes, Progress, NEW ok \in BOOLEAN,
         \/ upc = "erase" /\ SPI_Flash_erase_block(ok)
         \/ upc = "page" /\ SPI_Flash_write_page(ok)
  PROVE  \A p \in Page : p < complete => flash'[p] = "new"
<1>1. CASE upc = "erase" /\ SPI_Flash_erase_block(ok)
  <2>1. ASSUME NEW p \in Page, p < complete
        PROVE  p \notin Block
    BY <1>1, <2>1, BlockBegins DEF UpgradeTypes, Progress
  <2>2. QED
    BY <1>1, <2>1 DEF SPI_Flash_erase_block, With, Progress, Flashing, UpgradeTypes
<1>2. CASE upc = "page" /\ SPI_Flash_write_page(ok)
  BY <1>2 DEF SPI_Flash_write_page, With, Progress, Flashing, UpgradeTypes
<1>3. QED
  BY <1>1, <1>2

LEMMA InitUpgrade == Init => UpgradeInv
<1> SUFFICES ASSUME Init PROVE UpgradeInv
  OBVIOUS
<1>1. flash = [p \in Page |-> "old"] /\ All("old")
  BY DEF Init, UpgradeInit, All
<1>2. upc \in {"off", "left"}
  BY DEF Init, UpgradeInit
<1>3. QED
  BY <1>1, <1>2 DEF Init, UpgradeInit, UpgradeInv, UpgradeTypes, Progress, Rest, Copied, Contents,
        Flashing, Bootable

(* What a step does to the types and the backup, and to the rest while no  *)
(* read was cut short.                                                     *)
LEMMA FlashSteps ==
  ASSUME UpgradeInv, EraseBlock \/ WritePage
  PROVE  flash' \in [Page -> Contents]
         /\ ("read" \notin short => \A p \in Page : p < complete => flash'[p] = "new")
<1>1. CASE EraseBlock
  <2>1. PICK ok \in BOOLEAN : SPI_Flash_erase_block(ok)
    BY <1>1 DEF EraseBlock
  <2>2. QED
    BY <1>1, <2>1, FlashTypes, DoneIsKept DEF EraseBlock, UpgradeInv
<1>2. CASE WritePage
  <2>1. PICK ok \in BOOLEAN : SPI_Flash_write_page(ok)
    BY <1>2 DEF WritePage
  <2>2. QED
    BY <1>2, <2>1, FlashTypes, DoneIsKept DEF WritePage, UpgradeInv
<1>3. QED
  BY <1>1, <1>2

(* Reading goes back to the beginning of the block at hand.                *)
LEMMA ReadBegins ==
  ASSUME UpgradeTypes, ReadBlock
  PROVE  complete' \in Nat /\ complete' <= complete /\ complete' % BlockPages = 0 /\ Block' = Block
<1> DEFINE B == BlockPages  q == complete \div B  r == complete % B
<1>1. B \in Nat \ {0} /\ complete \in Nat
  BY UpgradeAssumption DEF UpgradeTypes
<1>2. q \in Nat /\ r \in 0..(B - 1) /\ complete - r = B * q
  BY <1>1, Division
<1>3. complete' = complete - r
  BY DEF ReadBlock
<1>4. \A k \in Nat : (B * k) % B = 0 /\ B * k \in Nat /\ (B * k) \div B = k
  BY <1>1
<1>5. complete' = B * q
  BY <1>2, <1>3
<1>6. complete' <= complete
  BY <1>1, <1>2, <1>3
<1>7. complete' \in Nat /\ complete' % B = 0 /\ complete' \div B = q
  BY <1>2, <1>4, <1>5
<1>8. Block' = Block
  BY <1>7 DEF Block, Page
<1>9. QED
  BY <1>6, <1>7, <1>8

(* The next page is in the same block, unless a new one begins there.      *)
LEMMA NextPage ==
  ASSUME UpgradeTypes, complete' = complete + 1, complete' % BlockPages # 0
  PROVE  Block' = Block
<1> DEFINE B == BlockPages  q == complete \div B  r == complete % B
<1>1. B \in Nat \ {0} /\ complete \in Nat
  BY UpgradeAssumption DEF UpgradeTypes
<1>2. complete = B * q + r /\ q \in Nat /\ r \in 0..(B - 1)
  BY <1>1, Division
<1>3. \A k \in Nat, m \in 0..(B - 1) : (B * k + m) \div B = k
  BY <1>1
<1>4. \A k \in Nat : (B * k) % B = 0 /\ B * k \in Nat /\ B * (k + 1) = B * k + B
  BY <1>1
<1>5. r + 1 \in 0..(B - 1)
  <2>1. CASE r + 1 = B
    <3>1. complete + 1 = B * (q + 1)
      <4> HIDE DEF q, r, B
      <4>1. B * q \in Nat /\ B * (q + 1) = B * q + B
        BY <1>2, <1>4
      <4>2. QED
        BY <1>1, <1>2, <2>1, <4>1
    <3>2. QED
      BY <1>2, <1>4, <3>1
  <2>2. QED
    BY <1>1, <1>2, <2>1
<1>6. complete' = B * q + (r + 1)
  <2> HIDE DEF q, r, B
  <2>1. B * q \in Nat
    BY <1>2, <1>4
  <2>2. QED
    BY <1>1, <1>2, <2>1
<1>7. complete' \div B = q
  BY <1>2, <1>3, <1>5, <1>6
<1>8. QED
  BY <1>7 DEF Block, Page

LEMMA StepTypes ==
  ASSUME UpgradeInv, UpgradeStep
  PROVE  UpgradeTypes' /\ Copied'
<1> USE DEF UpgradeInv, UpgradeTypes, Copied, Flashing, Whole, Goto, cardVars, pastVars
<1>1. CASE ReadIni
  <2>1. flags' \in [exist : BOOLEAN, back : BOOLEAN, del : BOOLEAN] /\ gaveUp' = FALSE
    <3>1. [exist |-> FALSE, back |-> FALSE, del |-> FALSE] \in [exist : BOOLEAN, back : BOOLEAN, del : BOOLEAN]
      OBVIOUS
    <3>2. \A f \in [exist : {TRUE}, back : BOOLEAN, del : BOOLEAN] :
            f \in [exist : BOOLEAN, back : BOOLEAN, del : BOOLEAN]
      OBVIOUS
    <3> HIDE DEF UpgradeInv, UpgradeTypes, Copied
    <3>3. QED
      BY <1>1, <3>1, <3>2 DEF ReadIni
  <2>2. upc' = (IF flags'.back THEN "backup" ELSE "find")
    BY <1>1 DEF ReadIni
  <2>3. UNCHANGED <<flash, bin, backup, complete, short>>
    BY <1>1 DEF ReadIni
  <2>4. CASE flags'.back
    BY <2>1, <2>2, <2>3, <2>4
  <2>5. CASE ~flags'.back
    BY <2>1, <2>2, <2>3, <2>5
  <2>6. QED
    BY <2>4, <2>5
<1>2. CASE BackupBegin \/ BackupEnd
  BY <1>2 DEF BackupBegin, BackupEnd
<1>3. CASE Find
  BY <1>3 DEF Find
<1>4. CASE CheckSum
  BY <1>4 DEF CheckSum
<1>5. CASE ReadBlock
  BY <1>5, ReadBegins DEF ReadBlock
<1>6. CASE EraseBlock \/ WritePage
  <2>1. flash' \in [Page -> Contents]
    BY <1>6, FlashSteps
  <2>2. upc \in Flashing /\ upc' \in Flashing
    BY <1>6 DEF EraseBlock, WritePage
  <2>3. UNCHANGED <<bin, backup, flags, complete, gaveUp, short>>
    BY <1>6 DEF EraseBlock, WritePage
  <2>4. QED
    BY <2>1, <2>2, <2>3
<1>7. CASE VerifyPage
  BY <1>7 DEF VerifyPage
<1>8. CASE Finish
  BY <1>8 DEF Finish
<1>9. CASE WriteMessage \/ DeleteBin \/ SwitchOff
  BY <1>9 DEF WriteMessage, DeleteBin, SwitchOff
<1>10. QED
  BY <1>1, <1>2, <1>3, <1>4, <1>5, <1>6, <1>7, <1>8, <1>9 DEF UpgradeStep

LEMMA StepProgress ==
  ASSUME UpgradeInv, UpgradeStep, "read" \notin short'
  PROVE  Progress' /\ Rest'
<1>1. "read" \notin short
  BY DEF UpgradeStep, ReadIni, BackupBegin, BackupEnd, Find, CheckSum, ReadBlock, EraseBlock,
         WritePage, VerifyPage, Finish, WriteMessage, DeleteBin, SwitchOff, pastVars
<1>2. UpgradeTypes /\ Progress /\ Rest
  BY <1>1 DEF UpgradeInv
<1> USE <1>2 DEF UpgradeTypes, Progress, Rest, Flashing, Goto, All, Bootable, cardVars, pastVars
<1>3. CASE ReadIni \/ BackupBegin \/ BackupEnd
  BY <1>3 DEF ReadIni, BackupBegin, BackupEnd
<1>4. CASE Find
  BY <1>4 DEF Find
<1>5. CASE CheckSum
  BY <1>5 DEF CheckSum, Page
<1>6. CASE ReadBlock
  <2>1. complete' \in Nat /\ complete' <= complete /\ complete' % BlockPages = 0 /\ Block' = Block
    BY <1>6, ReadBegins
  <2>2. upc' = "erase" => ram' = Block'
    BY <1>6, <2>1 DEF ReadBlock
  <2>3. QED
    BY <1>6, <2>1, <2>2, UpgradeAssumption DEF ReadBlock, Page
<1>7. CASE EraseBlock \/ WritePage
  <2>1. complete' = complete /\ ram' = ram /\ Block' = Block
    BY <1>7 DEF EraseBlock, WritePage, Block, Page
  <2>2. \A p \in Page : p < complete => flash'[p] = "new"
    BY <1>1, <1>7, FlashSteps
  <2>3. QED
    BY <1>7, <2>1, <2>2 DEF EraseBlock, WritePage
<1>8. CASE VerifyPage
  <2>1. CASE complete' = complete
    BY <1>8, <2>1 DEF VerifyPage
  <2>2. CASE complete' = complete + 1 /\ flash[complete] = Held
    <3>1. Held = "new"
      BY <1>8, UpgradeAssumption DEF VerifyPage, Held, Block, Page
    <3>2. \A p \in Page : p < complete' => flash'[p] = "new"
      BY <1>8, <2>2, <3>1 DEF VerifyPage, Page
    <3>3. upc' = "page" => complete' < Pages /\ ram' = Block'
      BY <1>8, <2>2, NextPage, UpgradeAssumption DEF VerifyPage
    <3>4. QED
      BY <1>8, <3>2, <3>3 DEF VerifyPage
  <2>3. QED
    BY <1>8, <2>1, <2>2 DEF VerifyPage
<1>9. CASE Finish
  <2>1. flash' = flash /\ complete' = complete /\ bin' \in {"none", bin}
    BY <1>9 DEF Finish
  <2>2. upc' \in {"message", "delete"} /\ gaveUp' = (complete < Pages)
    BY <1>9 DEF Finish
  <2>3. bin = "good"
    BY <1>9 DEF Finish
  <2>4. ~gaveUp' => \A p \in Page : flash[p] = "new"
    <3>1. complete >= Pages => \A p \in Page : p < complete
      BY UpgradeAssumption DEF Page
    <3>2. \A p \in Page : p < complete => flash[p] = "new"
      BY <1>9 DEF Finish
    <3>3. ~(complete < Pages) => complete >= Pages
      BY UpgradeAssumption
    <3>4. QED
      BY <2>2, <3>1, <3>2, <3>3
  <2>5. QED
    BY <2>1, <2>2, <2>3, <2>4
<1>10. CASE WriteMessage \/ DeleteBin \/ SwitchOff
  BY <1>10 DEF WriteMessage, DeleteBin, SwitchOff
<1>11. QED
  BY <1>3, <1>4, <1>5, <1>6, <1>7, <1>8, <1>9, <1>10 DEF UpgradeStep

LEMMA CutKeeps ==
  ASSUME UpgradeInv, CutUpgrade
  PROVE  UpgradeInv'
<1> USE DEF UpgradeInv, UpgradeTypes, Rest, Copied, Flashing, Whole, Goto, All, Bootable, cardVars, pastVars
<1>1. flash' \in [Page -> Contents]
  <2>1. CASE upc = "erase"
    BY <2>1 DEF CutUpgrade, With, Contents
  <2>2. CASE upc = "page"
    BY <2>2, FlashTypes DEF CutUpgrade
  <2>3. QED
    BY <2>1, <2>2 DEF CutUpgrade
<1>2. Progress'
  BY DEF CutUpgrade, Progress
<1>3. "read" \notin short /\ upc \in {"erase", "page"} => bin = "good"
  BY DEF Progress
<1>4. "read" \notin short => Rest'
  BY <1>3 DEF CutUpgrade
<1>5. Copied'
  BY DEF CutUpgrade
<1>6. QED
  BY <1>1, <1>2, <1>4, <1>5 DEF CutUpgrade

LEMMA UpgradeInvStep == UpgradeInv /\ [Next]_vars => UpgradeInv'
<1> SUFFICES ASSUME UpgradeInv, [Next]_vars PROVE UpgradeInv'
  OBVIOUS
<1>1. CASE PowerOn
  BY <1>1 DEF PowerOn, UpgradeInv, UpgradeTypes, Progress, Rest, Copied, Flashing, All, Bootable,
              cardVars, pastVars
<1>2. CASE UNCHANGED upgradeVars
  BY <1>2 DEF upgradeVars, UpgradeInv, UpgradeTypes, Progress, Rest, Copied, Flashing, All, Bootable,
              Block, Page
<1>3. CASE UpgradeStep
  BY <1>3, StepTypes, StepProgress DEF UpgradeInv
<1>4. QED
  BY <1>1, <1>2, <1>3, CutKeeps DEF Next, PowerCut, FirmwareDone, vars

(* An upgrade shown as good is in the flash, whatever answered with an     *)
(* error and was retried (ap_umi_firmware_upgrade), unless the retries     *)
(* were used up or a read of the file was cut short.                       *)
THEOREM UpgradeIsTrue == Spec => []FlashIsTrue
<1>1. UpgradeInv => FlashIsTrue
  BY DEF UpgradeInv, Progress, Rest, FlashIsTrue
<1>2. QED
  BY <1>1, InitUpgrade, UpgradeInvStep, PTL DEF Spec

(* A whole image is left wherever the power is cut, in the flash, in its   *)
(* file or, if the retries were used up, in the backup that was asked for, *)
(* unless a read of the file (or a write of the backup) was cut short.     *)
THEOREM ImageAlwaysSurvives == Spec => []ImageSurvives
<1>1. UpgradeInv => ImageSurvives
  BY DEF UpgradeInv, Rest, Copied, Whole, ImageSurvives
<1>2. QED
  BY <1>1, InitUpgrade, UpgradeInvStep, PTL DEF Spec
-----------------------------------------------------------------------------
(* The file with the time.                                                 *)

(* Past the setting of the clock the user's file is of no more use.        *)
FileDone ==
  /\ cpc \in {"getSec", "putSec", "getMin", "putMin", "getHour", "putHour", "getDay", "putDay", "save"}
       /\ file.kind = "user" => used \/ ~Settable(file.at[1])
  /\ cpc = "write" => file.kind # "user"

LEMMA InitFileDone == Init => FileDone
BY DEF Init, ClockInit, FileDone, NoFile

LEMMA FileDoneStep == FileDone /\ [Next]_vars => FileDone'
<1> SUFFICES ASSUME FileDone, [Next]_vars PROVE FileDone'
  OBVIOUS
<1> USE DEF FileDone, hardware, At
<1>1. CASE PowerOn \/ FirmwareDone \/ UNCHANGED clockVars
  BY <1>1 DEF PowerOn, FirmwareDone, clockVars
<1>2. CASE PowerCut
  BY <1>2 DEF PowerCut, LoseClock
<1>3. CASE ParseFile
  BY <1>3 DEF ParseFile
<1>4. CASE SetSec \/ SetMin \/ SetHour \/ SetDay
  BY <1>4 DEF SetSec, SetMin, SetHour, SetDay
<1>5. CASE CopyTime \/ CopyDay
  BY <1>5 DEF CopyTime, CopyDay, Get, Put, PutDay
<1>6. CASE EmptyFile \/ WriteExample
  BY <1>6 DEF EmptyFile, WriteExample, NoFile
<1>7. CASE ReadTime \/ Tick
  BY <1>7 DEF ReadTime, Tick
<1>8. QED
  BY <1>1, <1>2, <1>3, <1>4, <1>5, <1>6, <1>7 DEF Next, SetClock, vars

(* The user's time is not thrown away before it was taken over, unless no  *)
(* month has its date or the file could not be read                        *)
(* (rtc_time_get_and_start).                                               *)
THEOREM TimeFileAlwaysKept == Spec => TimeFileKept
<1> DEFINE Kept == file.kind = "user" /\ file' # file => used \/ ~Settable(file.at[1])
<1>1. FileDone /\ [Next]_vars => [Kept]_clockVars
  <2> SUFFICES ASSUME FileDone, [Next]_vars, file.kind = "user", file' # file
               PROVE  used \/ ~Settable(file.at[1])
    OBVIOUS
  <2>1. EmptyFile \/ WriteExample
    BY DEF Next, PowerOn, FirmwareDone, PowerCut, LoseClock, SetClock, ParseFile, SetSec, SetMin, SetHour,
           SetDay, CopyTime, CopyDay, Get, Put, PutDay, ReadTime, Tick, hardware, clockVars, vars
  <2>2. QED
    BY <2>1 DEF EmptyFile, WriteExample, FileDone, At
<1>2. QED
  BY <1>1, InitFileDone, FileDoneStep, PTL DEF Spec, TimeFileKept
-----------------------------------------------------------------------------
(* The calendar: the code's formulas for the years at hand.                *)

(* Days from the first of March to the first of each month.                *)
Before == <<306, 337, 0, 31, 61, 92, 122, 153, 184, 214, 245, 275>>

YearFrom(d) == IF d[2] > 2 THEN d[1] - 2000 ELSE d[1] - 2001

LEMMA JulianDay ==
  ASSUME NEW d \in (2016..2028) \X (1..12) \X Int
  PROVE  /\ YearFrom(d) \in 15..28
         /\ Before[d[2]] \in 0..337
         /\ (1461 * YearFrom(d)) \div 4 \in Int
         /\ date_to_jd(d) = 2451604 + ((1461 * YearFrom(d)) \div 4) + Before[d[2]] + d[3]
<1>1. d[1] \in 2016..2028 /\ d[2] \in 1..12 /\ d[3] \in Int
  OBVIOUS
<1>2. YearFrom(d) \in 15..28
  BY <1>1 DEF YearFrom
<1> DEFINE m == IF d[2] > 2 THEN d[2] - 3 ELSE d[2] + 9
           y == IF d[2] > 2 THEN d[1] ELSE d[1] - 1
<1>3. y \div 100 = 20 /\ y % 100 = YearFrom(d)
  BY <1>1 DEF YearFrom
<1>4. (153 * m + 2) \div 5 = Before[d[2]]
  <2>1. d[2] \in {1, 2, 3, 4, 5, 6, 7, 8, 9, 10, 11, 12}
    BY <1>1
  <2>2. QED
    BY <2>1 DEF Before
<1>5. (146097 * 20) \div 4 = 730485
  OBVIOUS
<1>6. Before[d[2]] \in 0..337
  BY <1>1 DEF Before
<1>7. (1461 * YearFrom(d)) \div 4 \in Int
  BY <1>2
<1>8. date_to_jd(d) = (146097 * (y \div 100)) \div 4 + (1461 * (y % 100)) \div 4
                        + (153 * m + 2) \div 5 + d[3] + 1721119
  BY DEF date_to_jd
<1>9. QED
  <2> HIDE DEF m, y
  <2>1. QED
    BY <1>1, <1>2, <1>3, <1>4, <1>5, <1>6, <1>7, <1>8

LEMMA MonthLength ==
  ASSUME NEW d \in (2016..2027) \X (1..12) \X Int
  PROVE  /\ DaysIn(d[1], d[2]) \in 28..31
         /\ d[2] \notin {2, 12} => Before[d[2]] + DaysIn(d[1], d[2]) = Before[d[2] + 1]
         /\ d[2] = 2 => DaysIn(d[1], d[2]) = IF d[1] % 4 = 0 THEN 29 ELSE 28
         /\ d[2] = 12 => DaysIn(d[1], d[2]) = 31
<1>1. d[1] \in 2016..2027 /\ d[2] \in 1..12
  OBVIOUS
<1>2. d[2] = 2 => DaysIn(d[1], d[2]) = IF d[1] % 4 = 0 THEN 29 ELSE 28
  <2>1. d[1] % 100 # 0
    BY <1>1
  <2>2. QED
    BY <2>1 DEF DaysIn, Leap
<1>3. d[2] \in {1, 2, 3, 4, 5, 6, 7, 8, 9, 10, 11, 12}
  BY <1>1
<1>4. d[2] # 2 => DaysIn(d[1], d[2]) = IF d[2] \in {4, 6, 9, 11} THEN 30 ELSE 31
  BY DEF DaysIn
<1>5. d[2] \notin {2, 12} => Before[d[2]] + DaysIn(d[1], d[2]) = Before[d[2] + 1]
  BY <1>3, <1>4 DEF Before
<1>6. QED
  BY <1>1, <1>2, <1>4, <1>5

(* Where a day behind the last of a month comes out.                       *)
LEMMA MonthTurns ==
  ASSUME NEW d \in (2016..2027) \X (1..12) \X Int, d[3] = DaysIn(d[1], d[2])
  PROVE  date_to_jd(NextDate(d)) = date_to_jd(<<d[1], d[2], d[3] + 1>>)
<1> DEFINE y == d[1]  m == d[2]
           next == IF m < 12 THEN <<y, m + 1, 1>> ELSE <<y + 1, 1, 1>>
           last == <<y, m, DaysIn(y, m)>>
           over == <<y, m, DaysIn(y, m) + 1>>
<1>0. y \in 2016..2027 /\ m \in 1..12
  OBVIOUS
<1>a. NextDate(d) = next /\ over = <<d[1], d[2], d[3] + 1>>
  BY DEF NextDate
<1> HIDE DEF y, m
<1> SUFFICES date_to_jd(next) = date_to_jd(over)
  BY <1>a DEF y, m
<1> USE <1>0
<1>1. last \in (2016..2027) \X (1..12) \X Int /\ DaysIn(y, m) \in 28..31
  BY DEF DaysIn
<1>2. /\ m \notin {2, 12} => Before[m] + DaysIn(y, m) = Before[m + 1]
      /\ m = 2 => DaysIn(y, m) = IF y % 4 = 0 THEN 29 ELSE 28
      /\ m = 12 => DaysIn(y, m) = 31
  BY <1>1, MonthLength
<1>3. next \in (2016..2028) \X (1..12) \X Int /\ over \in (2016..2028) \X (1..12) \X Int
  BY <1>1
<1>4. /\ date_to_jd(next) = 2451604 + ((1461 * YearFrom(next)) \div 4) + Before[next[2]] + 1
      /\ date_to_jd(over) = 2451604 + ((1461 * YearFrom(over)) \div 4) + Before[m] + DaysIn(y, m) + 1
      /\ YearFrom(next) \in Int /\ YearFrom(over) \in Int
  <2>1. over[2] = m /\ over[3] = DaysIn(y, m) + 1 /\ next[3] = 1
    OBVIOUS
  <2> HIDE DEF next, over
  <2>2. QED
    BY <1>1, <1>3, <2>1, JulianDay
<1>5. CASE m \notin {2, 12}
  <2>1. YearFrom(next) = YearFrom(over) /\ next[2] = m + 1
    BY <1>5 DEF YearFrom
  <2>2. Before[m] \in Int /\ Before[m + 1] \in Int
    BY <1>5 DEF Before
  <2> HIDE DEF next, over
  <2>3. QED
    BY <1>1, <1>2, <1>4, <1>5, <2>1, <2>2
<1>6. CASE m = 2
  <2>1. YearFrom(next) = y - 2000 /\ YearFrom(over) = y - 2001 /\ next[2] = 3
    BY <1>6 DEF YearFrom
  <2>2. (1461 * (y - 2000)) \div 4 = ((1461 * (y - 2001)) \div 4) + IF y % 4 = 0 THEN 366 ELSE 365
    OBVIOUS
  <2>3. Before[2] = 337 /\ Before[3] = 0
    BY DEF Before
  <2> HIDE DEF next, over
  <2>4. QED
    BY <1>1, <1>2, <1>4, <1>6, <2>1, <2>2, <2>3
<1>7. CASE m = 12
  <2>1. YearFrom(next) = y - 2000 /\ YearFrom(over) = y - 2000 /\ next[2] = 1
    BY <1>7 DEF YearFrom
  <2>2. Before[1] = 306 /\ Before[12] = 275
    BY DEF Before
  <2> HIDE DEF next, over
  <2>3. QED
    BY <1>2, <1>4, <1>7, <2>1, <2>2
<1>8. QED
  BY <1>5, <1>6, <1>7

(* Each date has the number behind that of the day before.                 *)
LEMMA NextDay ==
  ASSUME NEW d, RealDate(d)
  PROVE  date_to_jd(NextDate(d)) = date_to_jd(d) + 1
<1>1. /\ d \in (2016..2028) \X (1..12) \X Int /\ d[1] \in 2016..2027 /\ d[2] \in 1..12 /\ d[3] \in Int
      /\ d[3] <= DaysIn(d[1], d[2]) /\ DaysIn(d[1], d[2]) \in Int
  BY SMTT(30) DEF RealDate, DaysIn
<1> DEFINE e == <<d[1], d[2], d[3] + 1>>
<1>2. date_to_jd(e) = date_to_jd(d) + 1
  <2>1. e \in (2016..2028) \X (1..12) \X Int /\ e[2] = d[2] /\ e[3] = d[3] + 1 /\ YearFrom(e) = YearFrom(d)
    BY <1>1, SMTT(30) DEF YearFrom
  <2> HIDE DEF e
  <2>2. QED
    BY <1>1, <2>1, JulianDay, SMTT(30)
<1>3. CASE d[3] < DaysIn(d[1], d[2])
  BY <1>2, <1>3, SMTT(30) DEF NextDate
<1>4. CASE d[3] = DaysIn(d[1], d[2])
  BY <1>1, <1>2, <1>4, MonthTurns, SMTT(30)
<1>5. QED
  BY <1>1, <1>3, <1>4, SMTT(30)

LEMMA DayRange ==
  ASSUME NEW d, RealDate(d)
  PROVE  date_to_jd(d) \in Int /\ date_to_jd(d) > LAST_JULIAN_DATE
<1>1. d \in (2016..2028) \X (1..12) \X Int /\ d[1] \in 2016..2027 /\ d[2] \in 1..12 /\ d[3] >= 1 /\ d[3] \in Int
  BY DEF RealDate
<1>2. d[2] > 2 => YearFrom(d) >= 16
  BY <1>1 DEF YearFrom
<1>3. d[2] <= 2 => Before[d[2]] >= 306
  BY <1>1 DEF Before
<1>4. (1461 * YearFrom(d)) \div 4 >= 5478 /\ (YearFrom(d) >= 16 => (1461 * YearFrom(d)) \div 4 >= 5844)
  BY <1>1, JulianDay
<1>5. QED
  BY <1>1, <1>2, <1>3, <1>4, JulianDay DEF LAST_JULIAN_DATE

(* The conversion back: the steps of JdToDate for a date at hand.          *)
LEMMA BackFromDay ==
  ASSUME NEW d, RealDate(d)
  PROVE  JdToDate(date_to_jd(d)) = d
<1> DEFINE f == YearFrom(d)  q == (1461 * f) \div 4  k == Before[d[2]]
           jd == date_to_jd(d)
           j == jd - 1721119
           c == (4 * j - 1) \div 146097
           a == (4 * j - 1 - 146097 * c) \div 4
           y == (4 * a + 3) \div 1461
           e == (4 * a + 3 - 1461 * y + 4) \div 4
           m == (5 * e - 3) \div 153
           n == (5 * e - 3 - 153 * m + 5) \div 5
<1>1. /\ d \in (2016..2028) \X (1..12) \X Int /\ d = <<d[1], d[2], d[3]>>
      /\ d[1] \in 2016..2027 /\ d[2] \in 1..12 /\ d[3] \in 1..31
  BY DEF RealDate
<1>2. f \in 15..28 /\ k \in 0..337 /\ q \in Int /\ jd = 2451604 + q + k + d[3]
  BY <1>1, JulianDay
<1>3. 4 * q <= 1461 * f /\ 1461 * f <= 4 * q + 3
  BY <1>2
<1>4. 4 * (k + d[3] - 1) + 4 * q + 3 < 1461 * (f + 1)
  <2>1. d[2] \notin {2, 12} => d[3] <= DaysIn(d[1], d[2]) /\ k + DaysIn(d[1], d[2]) = Before[d[2] + 1]
    BY <1>1, MonthLength DEF RealDate
  <2>2. d[2] = 2 => d[3] <= IF d[1] % 4 = 0 THEN 29 ELSE 28
    BY <1>1, MonthLength DEF RealDate
  <2>3. CASE d[2] = 2
    <3>1. k = 337 /\ f = d[1] - 2001
      BY <2>3 DEF Before, YearFrom
    <3>2. QED
      BY <1>1, <1>2, <1>3, <2>2, <2>3, <3>1
  <2>4. CASE d[2] # 2
    <3>1. k <= 306
      BY <1>1, <2>4 DEF Before
    <3> HIDE DEF f, q, k
    <3>2. QED
      BY <1>1, <1>2, <1>3, <3>1
  <2>5. QED
    BY <2>3, <2>4
<1>5. c = 20 /\ a = q + k + d[3] - 1
  <2> HIDE DEF f, q, k, jd
  <2>1. j \in Int /\ j = 730485 + q + k + d[3]
    BY <1>1, <1>2
  <2>2. 4 * j - 1 >= 146097 * 20 /\ 4 * j - 1 < 146097 * 21
    BY <1>1, <1>2, <1>3, <2>1
  <2> HIDE DEF j
  <2>3. c = 20
    BY <2>1, <2>2
  <2>4. a = (4 * (q + k + d[3]) - 1) \div 4
    BY <1>1, <1>2, <2>1, <2>3
  <2>5. QED
    BY <1>1, <1>2, <2>3, <2>4
<1>6. y = f
  <2>1. 4 * a + 3 >= 1461 * f /\ 4 * a + 3 < 1461 * (f + 1) /\ a \in Int
    <3> HIDE DEF a, f, q, k, c
    <3>1. QED
      BY <1>1, <1>2, <1>3, <1>4, <1>5
  <2> HIDE DEF a, f
  <2>2. QED
    BY <1>2, <2>1
<1>7. e = k + d[3]
  <2> HIDE DEF f, q, k, a, y
  <2>1. e = (4 * (q + k + d[3] - 1) + 7 - 1461 * f) \div 4
    BY <1>1, <1>2, <1>5, <1>6
  <2>2. QED
    BY <1>1, <1>2, <1>3, <2>1
<1> DEFINE i == IF d[2] > 2 THEN d[2] - 3 ELSE d[2] + 9
<1>8. m = i /\ n = d[3]
  <2>1. /\ 153 * i <= 5 * k + 2 /\ 5 * k + 2 <= 153 * i + 4
        /\ 5 * (k + d[3]) - 3 < 153 * (i + 1)
    <3>1. d[2] \in {1, 2, 3, 4, 5, 6, 7, 8, 9, 10, 11, 12}
      BY <1>1
    <3>2. d[3] <= DaysIn(d[1], d[2])
      BY DEF RealDate
    <3>3. DaysIn(d[1], d[2]) <= (IF d[2] = 2 THEN 29 ELSE IF d[2] \in {4, 6, 9, 11} THEN 30 ELSE 31)
      BY <1>1, MonthLength DEF DaysIn
    <3>4. DaysIn(d[1], d[2]) \in Int
      BY DEF DaysIn
    <3>5. QED
      BY <1>1, <3>1, <3>2, <3>3, <3>4 DEF Before
  <2>2. i \in 0..11
    BY <1>1
  <2> HIDE DEF i, k, e
  <2>3. 5 * e - 3 >= 153 * i /\ 5 * e - 3 < 153 * (i + 1)
    BY <1>1, <1>2, <1>7, <2>1, <2>2
  <2>4. m = i
    BY <1>1, <1>2, <1>7, <2>2, <2>3
  <2>5. n = d[3]
    BY <1>1, <1>2, <1>7, <2>1, <2>2, <2>4
  <2>6. QED
    BY <2>4, <2>5
<1>9. JdToDate(jd) = IF m < 10 THEN <<100 * c + y, m + 3, n>> ELSE <<100 * c + y + 1, m - 9, n>>
  BY DEF JdToDate
<1>10. IF m < 10 THEN <<100 * c + y, m + 3, n>> = <<d[1], d[2], d[3]>>
                 ELSE <<100 * c + y + 1, m - 9, n>> = <<d[1], d[2], d[3]>>
  <2> HIDE DEF c, y, m, n
  <2>1. QED
    BY <1>1, <1>5, <1>6, <1>8 DEF YearFrom
<1>11. QED
  <2> HIDE DEF c, y, m, n, jd
  <2>1. QED
    BY <1>1, <1>9, <1>10 DEF jd
-----------------------------------------------------------------------------
(* The clock: what its digits can be.                                      *)

(* An interval of numbers would be taken apart by the prover.              *)
Days12 == {n \in Nat : n < 4096}

Moment == [s : 0..(Secs - 1), m : 0..(Mins - 1), h : 0..(Hours - 1), day : Int]

InFile == ((2016..2026) \X (0..12) \X (0..31)) \X Digits

ClockTypes ==
  /\ battery \in Moment /\ battery.day \in Days12
  /\ chip \in Digits
  /\ day_count \in Int
  /\ file.at \in InFile
  /\ cpc = "putSec" => t \in 0..(Secs - 1)
  /\ cpc = "putMin" => t \in 0..(Mins - 1)
  /\ cpc = "putHour" => t \in 0..(Hours - 1)
  /\ cpc = "putDay" => t \in Days12
  /\ result \in [pc : {"idle", "min", "hour", "day"}, read : Moment, from : Int, carried : BOOLEAN]

LEMMA DigitTypes ==
  /\ Secs \in Nat /\ Secs > 1 /\ Mins \in Nat /\ Mins > 1 /\ Hours \in Nat /\ Hours > 1
  /\ Midnight \in Digits /\ LastSecond \in Digits
<1>1. Secs \in Nat /\ Secs > 1 /\ Mins \in Nat /\ Mins > 1 /\ Hours \in Nat /\ Hours > 1
  BY ClockAssumption
<1>2. QED
  BY <1>1 DEF Midnight, LastSecond, Digits

(* One more on a digit of n values.                                        *)
LEMMA NextDigit ==
  ASSUME NEW n \in Nat, n > 1, NEW k \in 0..(n - 1)
  PROVE  /\ (k + 1) % n = (IF k = n - 1 THEN 0 ELSE k + 1)
         /\ k % n = k /\ n % n = 0
<1>1. k % n = k /\ n % n = 0
  OBVIOUS
<1>2. k # n - 1 => (k + 1) % n = k + 1
  OBVIOUS
<1>3. k = n - 1 => (k + 1) % n = 0
  BY <1>1
<1>4. QED
  BY <1>1, <1>2, <1>3

(* A second later.                                                         *)
LEMMA NextTimeFacts ==
  ASSUME NEW c, c \in Digits \/ c \in Moment
  PROVE  /\ NextTime(c) \in Digits
         /\ c.s # Secs - 1 => NextTime(c) = [s |-> c.s + 1, m |-> c.m, h |-> c.h]
         /\ c.s = Secs - 1 /\ c.m # Mins - 1 => NextTime(c) = [s |-> 0, m |-> c.m + 1, h |-> c.h]
         /\ c.s = Secs - 1 /\ c.m = Mins - 1 /\ c.h # Hours - 1 =>
              NextTime(c) = [s |-> 0, m |-> 0, h |-> c.h + 1]
         /\ c.s = Secs - 1 /\ c.m = Mins - 1 /\ c.h = Hours - 1 => NextTime(c) = Midnight
<1>1. c.s \in 0..(Secs - 1) /\ c.m \in 0..(Mins - 1) /\ c.h \in 0..(Hours - 1)
  BY DEF Digits, Moment
<1> DEFINE m == IF c.s = Secs - 1 THEN c.m + 1 ELSE c.m
           h == IF m = Mins THEN c.h + 1 ELSE c.h
<1>2. (c.s + 1) % Secs = IF c.s = Secs - 1 THEN 0 ELSE c.s + 1
  BY <1>1, DigitTypes, NextDigit
<1>3. /\ c.m % Mins = c.m /\ Mins % Mins = 0
      /\ c.m # Mins - 1 => (c.m + 1) % Mins = c.m + 1
  BY <1>1, DigitTypes, NextDigit
<1>4. /\ c.h % Hours = c.h /\ Hours % Hours = 0
      /\ c.h # Hours - 1 => (c.h + 1) % Hours = c.h + 1
  BY <1>1, DigitTypes, NextDigit
<1>5. NextTime(c) = [s |-> (c.s + 1) % Secs, m |-> m % Mins, h |-> h % Hours]
  BY DEF NextTime
<1>6. CASE c.s # Secs - 1
  <2>1. m = c.m /\ h = c.h
    BY <1>1, <1>6, DigitTypes
  <2>2. QED
    BY <1>1, <1>2, <1>3, <1>4, <1>5, <1>6, <2>1, DigitTypes DEF Digits
<1>7. CASE c.s = Secs - 1 /\ c.m # Mins - 1
  <2>1. m = c.m + 1 /\ h = c.h
    BY <1>1, <1>7, DigitTypes
  <2>2. QED
    BY <1>1, <1>2, <1>3, <1>4, <1>5, <1>7, <2>1, DigitTypes DEF Digits
<1>8. CASE c.s = Secs - 1 /\ c.m = Mins - 1
  <2>1. m = Mins /\ h = c.h + 1
    BY <1>1, <1>8, DigitTypes
  <2>2. c.h = Hours - 1 => h = Hours
    BY <2>1, DigitTypes
  <2>3. QED
    BY <1>1, <1>2, <1>3, <1>4, <1>5, <1>8, <2>1, <2>2, DigitTypes DEF Digits, Midnight
<1>9. QED
  BY <1>6, <1>7, <1>8

LEMMA InitClockTypes == Init => ClockTypes
<1> SUFFICES ASSUME Init PROVE ClockTypes
  OBVIOUS
<1>1. NoFile.at \in InFile /\ FileTimes \subseteq InFile
  BY DigitTypes, DatesAssumption DEF NoFile, InFile
<1>2. file.at \in InFile
  BY <1>1 DEF Init, ClockInit, NoFile
<1>3. result \in [pc : {"idle", "min", "hour", "day"}, read : Moment, from : Int, carried : BOOLEAN]
  BY DigitTypes DEF Init, ClockInit, NoResult, Clock, Midnight, Moment
<1>4. CASE battery = Clock(Midnight, 0) /\ chip = Midnight /\ day_count = Unset /\ cpc = "off"
  BY <1>2, <1>3, <1>4, DigitTypes DEF ClockTypes, Clock, Midnight, Moment, Unset, Days12
<1>5. ASSUME NEW d \in RunningDates, day_count = date_to_jd(d), chip = LastSecond, cpc = "ready",
             battery = Clock(LastSecond, day_count - LAST_JULIAN_DATE)
      PROVE  ClockTypes
  <2>1. day_count \in Int /\ day_count - LAST_JULIAN_DATE \in Days12
    BY <1>5, DatesAssumption, DayRange DEF LAST_JULIAN_DATE, Days12
  <2>2. QED
    BY <1>2, <1>3, <1>5, <2>1, DigitTypes DEF ClockTypes, Clock, LastSecond, Moment, LAST_JULIAN_DATE
<1>6. QED
  BY <1>4, <1>5 DEF Init, ClockInit

LEMMA DayTypes ==
  ASSUME NEW d \in (2016..2026) \X (0..12) \X (0..31)
  PROVE  date_to_jd(d) \in Int /\ (date_to_jd(d) - LAST_JULIAN_DATE) % 4096 \in Days12
<1>1. d[1] \in Int /\ d[2] \in Int /\ d[3] \in Int
  OBVIOUS
<1> DEFINE m == IF d[2] > 2 THEN d[2] - 3 ELSE d[2] + 9
           y == IF d[2] > 2 THEN d[1] ELSE d[1] - 1
<1>2. m \in Int /\ y \in Int
  BY <1>1
<1>3. date_to_jd(d) = (146097 * (y \div 100)) \div 4 + (1461 * (y % 100)) \div 4
                        + (153 * m + 2) \div 5 + d[3] + 1721119
  BY DEF date_to_jd
<1> HIDE DEF m, y
<1>4. date_to_jd(d) \in Int
  BY <1>1, <1>2, <1>3, SMT
<1>5. QED
  BY <1>4, SMT DEF LAST_JULIAN_DATE, Days12

LEMMA ReadTypes ==
  ASSUME ClockTypes, ReadTime
  PROVE  ClockTypes'
<1> USE DigitTypes DEF Moment, Digits
<1>1. chip \in Digits /\ day_count \in Int /\ result.read \in Moment /\ result.from \in Int
        /\ result.pc \in {"idle", "min", "hour", "day"} /\ result.carried \in BOOLEAN
  BY DEF ClockTypes
<1>2. /\ result.pc = "idle" => Take(result.pc) = <<"min", Clock([Midnight EXCEPT !.s = chip.s], 0)>>
      /\ result.pc = "min"  => Take(result.pc) = <<"hour", [result.read EXCEPT !.m = chip.m]>>
      /\ result.pc = "hour" => Take(result.pc) = <<"day", [result.read EXCEPT !.h = chip.h]>>
      /\ result.pc = "day"  => Take(result.pc) = <<"idle", [result.read EXCEPT !.day = day_count]>>
  BY DEF Take
<1>3. Take(result.pc)[1] \in {"idle", "min", "hour", "day"} /\ Take(result.pc)[2] \in Moment
  BY <1>1, <1>2 DEF Clock, Midnight
<1>4. Seconds(Clock(chip, day_count)) \in Int
  <2>1. Clock(chip, day_count).day \in Int /\ Clock(chip, day_count).h \in Int
          /\ Clock(chip, day_count).m \in Int /\ Clock(chip, day_count).s \in Int
    BY <1>1 DEF Clock
  <2> HIDE DEF Moment, Digits
  <2>2. QED
    BY <2>1 DEF Seconds
<1>5. result' \in [pc : {"idle", "min", "hour", "day"}, read : Moment, from : Int, carried : BOOLEAN]
  BY <1>1, <1>3, <1>4 DEF ReadTime
<1> HIDE DEF Moment, Digits
<1>6. QED
  BY <1>5 DEF ReadTime, ClockTypes, hardware

LEMMA WithDay ==
  ASSUME NEW b \in Moment, NEW n \in Int
  PROVE  [b EXCEPT !.day = n] \in Moment /\ [b EXCEPT !.day = n].day = n
BY DEF Moment

LEMMA TickTypes ==
  ASSUME ClockTypes, Tick
  PROVE  ClockTypes'
<1>1. NextTime(battery) \in Digits /\ NextTime(chip) \in Digits
  BY NextTimeFacts DEF ClockTypes
<1>2. battery' \in Moment /\ battery'.day \in Days12
  <2> DEFINE n == IF Changed.d THEN (battery.day + 1) % 4096 ELSE battery.day
  <2>1. battery.day \in Days12
    BY DEF ClockTypes
  <2>2. (battery.day + 1) % 4096 \in Days12
    <3>1. \A k \in Nat : k % 4096 \in Days12
      BY SMT DEF Days12
    <3>2. battery.day + 1 \in Nat
      BY <2>1 DEF Days12
    <3>3. QED
      BY <3>1, <3>2
  <2>3. n \in Days12
    BY <2>1, <2>2
  <2>4. battery' = Clock(NextTime(battery), n)
    BY DEF Tick
  <2> HIDE DEF n
  <2>5. QED
    BY <1>1, <2>3, <2>4 DEF Clock, Moment, Digits, Days12
<1>3. chip' \in Digits /\ day_count' \in Int
  BY <1>1 DEF Tick, ClockTypes
<1>4. result' \in [pc : {"idle", "min", "hour", "day"}, read : Moment, from : Int, carried : BOOLEAN]
  <2> DEFINE b == result.carried \/ (result.pc # "idle" /\ chip.s = Secs - 1)
  <2>1. result' = [result EXCEPT !.carried = b] /\ b \in BOOLEAN
    BY DEF Tick
  <2> HIDE DEF b
  <2>2. QED
    BY <2>1 DEF ClockTypes
<1>5. cpc' = cpc /\ t' = t /\ file' = file
  BY DEF Tick
<1>6. QED
  BY <1>2, <1>3, <1>4, <1>5 DEF ClockTypes

LEMMA ClockStepTypes ==
  ASSUME ClockTypes, SetClock
  PROVE  ClockTypes'
<1>0. day_count \in Int /\ (cpc = "putDay" => t \in Int)
  BY DEF ClockTypes, Days12
<1> USE DEF ClockTypes, hardware, At
<1>1. CASE ParseFile
  BY <1>1 DEF ParseFile
<1>2. CASE SetSec \/ SetMin \/ SetHour
  <2>1. file.at[2] \in Digits
    BY DEF InFile
  <2>2. battery' \in Moment /\ battery'.day = battery.day /\ chip' \in Digits
    BY <1>2, <2>1 DEF SetSec, SetMin, SetHour, Moment, Digits
  <2>3. QED
    BY <1>2, <2>2 DEF SetSec, SetMin, SetHour
<1>3. CASE SetDay
  <2> DEFINE d == file.at[1]  n == (date_to_jd(d) - LAST_JULIAN_DATE) % 4096
  <2>1. d \in (2016..2026) \X (0..12) \X (0..31)
    BY DEF InFile
  <2> HIDE DEF d
  <2>2. n \in Days12 /\ date_to_jd(d) \in Int
    BY <2>1, DayTypes
  <2> HIDE DEF n
  <2>3. battery' = [battery EXCEPT !.day = n] /\ day_count' = date_to_jd(d)
    BY <1>3 DEF SetDay, n, d
  <2>4. battery' \in Moment /\ battery'.day \in Days12
    <3>1. battery \in Moment
      OBVIOUS
    <3> HIDE DEF ClockTypes
    <3>2. QED
      BY <2>2, <2>3, <3>1, WithDay DEF Days12
  <2>5. cpc' = "getSec" /\ UNCHANGED <<chip, file, t, result>>
    BY <1>3 DEF SetDay
  <2>6. QED
    BY <2>2, <2>3, <2>4, <2>5
<1>4. CASE CopyTime
  <2>2. chip' \in Digits
    BY <1>4 DEF CopyTime, Get, Put, Digits
  <2>3. battery' = battery /\ day_count' = day_count /\ file' = file /\ result' = result
    BY <1>4 DEF CopyTime, Get, Put
  <2>4. battery.s \in 0..(Secs - 1) /\ battery.m \in 0..(Mins - 1) /\ battery.h \in 0..(Hours - 1)
    BY DEF Moment
  <2>6. /\ cpc' = "putSec" => t' = battery.s
        /\ cpc' = "putMin" => t' = battery.m
        /\ cpc' = "putHour" => t' = battery.h
        /\ cpc' # "putDay"
    BY <1>4 DEF CopyTime, Get, Put
  <2>7. QED
    BY <2>2, <2>3, <2>4, <2>6
<1>5. CASE CopyDay
  <2>1. /\ cpc' \in {"putDay", "save", "ready"} /\ (cpc' = "putDay" => t' = battery.day)
        /\ battery' = battery /\ chip' = chip /\ file' = file /\ result' = result
    BY <1>5 DEF CopyDay, Get, PutDay
  <2>2. day_count' \in Int
    <3>1. cpc = "putDay" => (IF t = 0 THEN 122 ELSE t) \in Int
      BY <1>0
    <3>2. LAST_JULIAN_DATE \in Int
      BY SMT DEF LAST_JULIAN_DATE
    <3>3. QED
      BY <1>0, <1>5, <3>1, <3>2 DEF CopyDay, Get, PutDay
  <2>3. QED
    BY <2>1, <2>2
<1>6. CASE EmptyFile \/ WriteExample
  <2>1. NoFile.at \in InFile
    BY DigitTypes, SMT DEF NoFile, InFile
  <2>2. file'.at \in InFile /\ cpc' \in {"write", "ready"}
    BY <1>6, <2>1 DEF EmptyFile, WriteExample, NoFile
  <2>3. UNCHANGED <<battery, chip, day_count, t, result>>
    BY <1>6 DEF EmptyFile, WriteExample
  <2>4. QED
    BY <2>2, <2>3
<1> HIDE DEF ClockTypes, hardware, At
<1>7. QED
  BY <1>1, <1>2, <1>3, <1>4, <1>5, <1>6 DEF SetClock

LEMMA ClockTypesStep == ClockTypes /\ [Next]_vars => ClockTypes'
<1> SUFFICES ASSUME ClockTypes, [Next]_vars PROVE ClockTypes'
  OBVIOUS
<1>1. CASE PowerOn \/ UNCHANGED clockVars
  BY <1>1 DEF PowerOn, clockVars, ClockTypes
<1>2. CASE FirmwareDone
  BY <1>2 DEF FirmwareDone, hardware, ClockTypes
<1>3. CASE PowerCut
  BY <1>3, DigitTypes DEF PowerCut, LoseClock, ClockTypes, Unset, NoResult, Clock, Midnight, Moment
<1>4. QED
  BY <1>1, <1>2, <1>3, ClockStepTypes, ReadTypes, TickTypes DEF Next, vars
-----------------------------------------------------------------------------
(* Reading the time.                                                       *)

(* What has been read, with what the clock shows for the rest.             *)
Seen == [s   |-> result.read.s,
         m   |-> IF result.pc = "min" THEN chip.m ELSE result.read.m,
         h   |-> IF result.pc \in {"min", "hour"} THEN chip.h ELSE result.read.h,
         day |-> day_count]

(* The day counts whenever it is set, and reading waits for that.          *)
Counted ==
  /\ day_count # Unset => counting
  /\ cpc \notin {"off", "parse", "ready"} => counting
  /\ result.pc # "idle" => cpc = "ready" /\ counting

(* It is never behind the beginning, nor ahead while no minute turned.     *)
Between ==
  result.pc # "idle" =>
    /\ Seconds(Seen) >= result.from
    /\ ~result.carried => Seen.s <= chip.s /\ Seen.m = chip.m /\ Seen.h = chip.h

LEMMA CountedStep ==
  /\ Init => Counted /\ Between
  /\ ClockTypes /\ Counted /\ [Next]_vars => Counted'
<1>1. Init => Counted /\ Between
  BY DEF Init, ClockInit, NoResult, Counted, Between
<1>2. ASSUME ClockTypes, Counted, [Next]_vars PROVE Counted'
  <2> USE <1>2 DEF Counted, hardware, At
  <2>1. CASE PowerOn \/ FirmwareDone \/ UNCHANGED clockVars
    BY <2>1 DEF PowerOn, FirmwareDone, hardware, clockVars
  <2>2. CASE PowerCut
    BY <2>2 DEF PowerCut, LoseClock, NoResult
  <2>3. CASE ParseFile
    BY <2>3 DEF ParseFile
  <2>4. CASE SetSec \/ SetMin \/ SetHour \/ SetDay
    BY <2>4 DEF SetSec, SetMin, SetHour, SetDay
  <2>5. CASE CopyTime \/ CopyDay
    BY <2>5 DEF CopyTime, CopyDay, Get, Put, PutDay
  <2>6. CASE EmptyFile \/ WriteExample
    BY <2>6 DEF EmptyFile, WriteExample
  <2>7. CASE ReadTime
    BY <2>7 DEF ReadTime, ClockTypes
  <2>8. CASE Tick
    <3>1. cpc' = cpc /\ counting' = counting /\ result'.pc = result.pc /\ (day_count' = day_count \/ counting)
      BY <2>8 DEF Tick, ClockTypes
    <3>2. QED
      BY <3>1
  <2>9. QED
    BY <2>1, <2>2, <2>3, <2>4, <2>5, <2>6, <2>7, <2>8 DEF Next, SetClock, vars
<1>3. QED
  BY <1>1, <1>2

LEMMA TimesMonotone ==
  ASSUME NEW a \in Int, NEW b \in Int, NEW n \in Nat, a <= b
  PROVE  a * n \in Int /\ b * n \in Int /\ a * n <= b * n
<1>1. (b - a) * n >= 0
  OBVIOUS
<1>2. QED
  BY <1>1

(* A moment whose hour (or minute, or second) is no earlier is no earlier. *)
LEMMA Later ==
  ASSUME NEW a \in [s : Int, m : Int, h : Int, day : Int], NEW b \in [s : Int, m : Int, h : Int, day : Int]
  PROVE  LET hours(x) == x.day * Hours + x.h  mins(x) == hours(x) * Mins + x.m
         IN  /\ Seconds(a) \in Int
             /\ a.day <= b.day /\ a.h = b.h => hours(a) <= hours(b)
             /\ hours(a) <= hours(b) /\ a.m = b.m => mins(a) <= mins(b)
             /\ mins(a) <= mins(b) /\ a.s <= b.s => Seconds(a) <= Seconds(b)
<1> DEFINE hours(x) == x.day * Hours + x.h  mins(x) == hours(x) * Mins + x.m
<1>1. Secs \in Nat /\ Mins \in Nat /\ Hours \in Nat
  BY DigitTypes
<1>2. /\ a.day \in Int /\ a.h \in Int /\ a.m \in Int /\ a.s \in Int
      /\ b.day \in Int /\ b.h \in Int /\ b.m \in Int /\ b.s \in Int
  OBVIOUS
<1>3. /\ a.day * Hours \in Int /\ b.day * Hours \in Int
      /\ a.day <= b.day => a.day * Hours <= b.day * Hours
  BY <1>1, <1>2, TimesMonotone
<1>4. hours(a) \in Int /\ hours(b) \in Int
  BY <1>2, <1>3
<1>5. a.day <= b.day /\ a.h = b.h => hours(a) <= hours(b)
  BY <1>2, <1>3
<1> HIDE DEF hours
<1>6. /\ hours(a) * Mins \in Int /\ hours(b) * Mins \in Int
      /\ hours(a) <= hours(b) => hours(a) * Mins <= hours(b) * Mins
  BY <1>1, <1>4, TimesMonotone
<1>7. mins(a) \in Int /\ mins(b) \in Int /\ (hours(a) <= hours(b) /\ a.m = b.m => mins(a) <= mins(b))
  BY <1>2, <1>6
<1>8. Seconds(a) = mins(a) * Secs + a.s /\ Seconds(b) = mins(b) * Secs + b.s
  BY DEF Seconds, hours
<1> HIDE DEF mins
<1>9. /\ mins(a) * Secs \in Int /\ mins(b) * Secs \in Int
      /\ mins(a) <= mins(b) => mins(a) * Secs <= mins(b) * Secs
  BY <1>1, <1>7, TimesMonotone
<1>10. Seconds(a) \in Int /\ (mins(a) <= mins(b) /\ a.s <= b.s => Seconds(a) <= Seconds(b))
  BY <1>2, <1>8, <1>9
<1>11. QED
  BY <1>5, <1>7, <1>10 DEF hours, mins

(* What the clock shows for hours, or for minutes and hours, never falls.  *)
LEMMA TickGoesOn ==
  ASSUME ClockTypes, counting, Tick, cpc # "off"
  PROVE  /\ day_count' \in Int /\ day_count <= day_count'
         /\ day_count * Hours + chip.h <= day_count' * Hours + chip'.h
         /\ (day_count * Hours + chip.h) * Mins + chip.m <= (day_count' * Hours + chip'.h) * Mins + chip'.m
         /\ chip.s # Secs - 1 => chip'.s = chip.s + 1 /\ chip'.m = chip.m /\ chip'.h = chip.h /\ day_count' = day_count
<1>1. chip \in Digits /\ day_count \in Int
  BY DEF ClockTypes
<1>2. chip' = NextTime(chip) /\ day_count' = IF chip = LastSecond THEN day_count + 1 ELSE day_count
  BY DEF Tick
<1>3. chip.s \in 0..(Secs - 1) /\ chip.m \in 0..(Mins - 1) /\ chip.h \in 0..(Hours - 1)
        /\ Secs \in Nat /\ Mins \in Nat /\ Hours \in Nat
  BY <1>1, DigitTypes DEF Digits
<1>4. chip = LastSecond <=> chip.s = Secs - 1 /\ chip.m = Mins - 1 /\ chip.h = Hours - 1
  BY <1>1 DEF LastSecond, Digits
<1> DEFINE H == day_count * Hours + chip.h  H2 == day_count' * Hours + chip'.h
<1>5. day_count * Hours \in Int /\ (day_count + 1) * Hours = day_count * Hours + Hours
  BY <1>1, <1>3
<1>6. CASE chip.s # Secs - 1
  <2>1. chip' = [s |-> chip.s + 1, m |-> chip.m, h |-> chip.h] /\ day_count' = day_count
    BY <1>1, <1>2, <1>4, <1>6, NextTimeFacts
  <2>2. chip'.s = chip.s + 1 /\ chip'.m = chip.m /\ chip'.h = chip.h
    BY <2>1
  <2>3. H \in Int /\ H * Mins \in Int
    BY <1>3, <1>5
  <2> HIDE DEF H
  <2>4. H * Mins + chip.m <= H * Mins + chip.m
    BY <1>3, <2>3
  <2>5. QED
    BY <1>1, <2>1, <2>2, <2>3, <2>4 DEF H
<1>7. CASE chip.s = Secs - 1 /\ chip.m # Mins - 1
  <2>1. chip' = [s |-> 0, m |-> chip.m + 1, h |-> chip.h] /\ day_count' = day_count
    BY <1>1, <1>2, <1>4, <1>7, NextTimeFacts
  <2>2. chip'.m = chip.m + 1 /\ chip'.h = chip.h
    BY <2>1
  <2>3. H \in Int /\ H * Mins \in Int
    BY <1>3, <1>5
  <2> HIDE DEF H
  <2>4. H * Mins + chip.m <= H * Mins + (chip.m + 1) /\ H <= H
    BY <1>3, <2>3
  <2>5. QED
    BY <1>1, <1>7, <2>1, <2>2, <2>3, <2>4 DEF H
<1>8. CASE chip.s = Secs - 1 /\ chip.m = Mins - 1
  <2>1. chip'.m = 0 /\ H2 = H + 1 /\ day_count <= day_count' /\ day_count' \in Int
    <3>1. CASE chip.h # Hours - 1
      <4>1. chip' = [s |-> 0, m |-> 0, h |-> chip.h + 1] /\ day_count' = day_count
        BY <1>1, <1>2, <1>4, <1>8, <3>1, NextTimeFacts
      <4>2. chip'.m = 0 /\ chip'.h = chip.h + 1
        BY <4>1
      <4>3. QED
        BY <1>1, <1>3, <1>5, <4>1, <4>2
    <3>2. CASE chip.h = Hours - 1
      <4>1. chip' = Midnight /\ day_count' = day_count + 1
        BY <1>1, <1>2, <1>4, <1>8, <3>2, NextTimeFacts
      <4>2. chip'.m = 0 /\ chip'.h = 0
        BY <4>1 DEF Midnight
      <4>3. QED
        BY <1>1, <1>3, <1>5, <3>2, <4>1, <4>2
    <3>3. QED
      BY <3>1, <3>2
  <2>2. H \in Int /\ H2 \in Int
    BY <1>3, <1>5, <2>1
  <2> HIDE DEF H, H2
  <2>3. H <= H2 /\ H2 * Mins = H * Mins + Mins /\ H * Mins \in Int
    BY <1>3, <2>1, <2>2
  <2>4. H * Mins + chip.m <= H2 * Mins + 0
    BY <1>3, <1>8, <2>2, <2>3
  <2>5. QED
    BY <1>8, <2>1, <2>3, <2>4 DEF H, H2
<1>9. QED
  BY <1>6, <1>7, <1>8

LEMMA SeenTypes == ClockTypes => Seen \in [s : Int, m : Int, h : Int, day : Int]
<1> SUFFICES ASSUME ClockTypes PROVE Seen \in [s : Int, m : Int, h : Int, day : Int]
  OBVIOUS
<1>1. result.read \in [s : Int, m : Int, h : Int, day : Int]
  BY DigitTypes DEF ClockTypes, Moment
<1>2. chip.m \in Int /\ chip.h \in Int /\ day_count \in Int
  BY DigitTypes DEF ClockTypes, Digits
<1>3. QED
  BY <1>1, <1>2 DEF Seen

LEMMA BetweenStep ==
  ASSUME ClockTypes, ClockTypes', Counted, Between, [Next]_vars
  PROVE  Between'
<1> SUFFICES ASSUME result'.pc # "idle"
             PROVE  /\ (Seconds(Seen) >= result.from)'
                    /\ ~result'.carried =>
                         (Seen.s <= chip.s /\ Seen.m = chip.m /\ Seen.h = chip.h)'
  BY DEF Between
<1>1. CASE ReadTime
  <2>1. /\ result.pc \in {"idle", "min", "hour", "day"}
        /\ result' = [pc |-> Take(result.pc)[1], read |-> Take(result.pc)[2],
                from |-> IF result.pc = "idle" THEN Seconds(Clock(chip, day_count)) ELSE result.from,
                carried |-> result.pc # "idle" /\ result.carried]
        /\ chip' = chip /\ day_count' = day_count
    BY <1>1 DEF ReadTime, hardware, ClockTypes
  <2>2. CASE result.pc = "idle"
    <3>1. result'.pc = "min" /\ result'.read.s = chip.s /\ result'.from = Seconds(Clock(chip, day_count))
      BY <2>1, <2>2 DEF Take, Clock, Midnight
    <3>2. Seen' = Clock(chip, day_count)
      BY <2>1, <3>1 DEF Seen, Clock
    <3>3. Seconds(Seen') \in Int
      <4>1. Seen' \in [s : Int, m : Int, h : Int, day : Int]
        <5>1. (ClockTypes => Seen \in [s : Int, m : Int, h : Int, day : Int])'
          BY SeenTypes, PTL
        <5>2. QED
          BY <5>1
      <4>2. QED
        BY <4>1, Later
    <3>4. chip.s \in Int
      BY DigitTypes DEF ClockTypes, Digits
    <3>5. (Seconds(Seen) >= result.from)'
      BY <3>1, <3>2, <3>3 DEF Seconds
    <3>6. QED
      BY <2>1, <3>2, <3>4, <3>5 DEF Clock
  <2>3. CASE result.pc \in {"min", "hour"}
    <3>1. result'.from = result.from /\ result'.carried = result.carried
      <4>1. result.carried \in BOOLEAN
        BY DEF ClockTypes
      <4>2. QED
        BY <2>1, <2>3, <4>1
    <3>2. Seen' = Seen
      <4>1. result.read \in Moment
        BY DEF ClockTypes
      <4>2. CASE result.pc = "min"
        <5>1. result'.pc = "hour" /\ result'.read = [result.read EXCEPT !.m = chip.m]
          BY <2>1, <4>2 DEF Take
        <5>2. result'.read.s = result.read.s /\ result'.read.m = chip.m
          BY <4>1, <5>1 DEF Moment
        <5>3. QED
          BY <2>1, <4>2, <5>1, <5>2 DEF Seen
      <4>3. CASE result.pc = "hour"
        <5>1. result'.pc = "day" /\ result'.read = [result.read EXCEPT !.h = chip.h]
          BY <2>1, <4>3 DEF Take
        <5>2. result'.read.s = result.read.s /\ result'.read.m = result.read.m /\ result'.read.h = chip.h
          BY <4>1, <5>1 DEF Moment
        <5>3. QED
          BY <2>1, <4>3, <5>1, <5>2 DEF Seen
      <4>4. QED
        BY <2>3, <4>2, <4>3
    <3>3. QED
      BY <2>1, <2>3, <3>1, <3>2 DEF Between, Seconds
  <2>4. CASE result.pc = "day"
    <3>1. result'.pc = "idle"
      BY <2>1, <2>4 DEF Take
    <3>2. QED
      BY <3>1
  <2>5. QED
    BY <2>1, <2>2, <2>3, <2>4
<1>2. CASE Tick
  <2>1. /\ result'.pc = result.pc /\ result'.read = result.read /\ result'.from = result.from
        /\ result'.carried = (result.carried \/ chip.s = Secs - 1)
    BY <1>2 DEF Tick, ClockTypes
  <2>2. counting /\ cpc # "off" /\ Seconds(Seen) >= result.from
          /\ (~result.carried => Seen.s <= chip.s /\ Seen.m = chip.m /\ Seen.h = chip.h)
    BY <2>1 DEF Counted, Between
  <2>3. Seen \in [s : Int, m : Int, h : Int, day : Int] /\ Seen' \in [s : Int, m : Int, h : Int, day : Int]
    <3>1. (ClockTypes => Seen \in [s : Int, m : Int, h : Int, day : Int])'
      BY SeenTypes, PTL
    <3>2. QED
      BY <3>1, SeenTypes
  <2>4. result.from \in Int /\ chip.s \in Int
    BY DigitTypes DEF ClockTypes, Digits
  <2>5. result.pc \in {"min", "hour", "day"}
    BY <2>1 DEF ClockTypes
  <2>6. /\ Seen.s = result.read.s /\ Seen.day = day_count /\ Seen'.s = result.read.s /\ Seen'.day = day_count'
        /\ Seen.m = (IF result.pc = "min" THEN chip.m ELSE result.read.m)
        /\ Seen'.m = (IF result.pc = "min" THEN chip'.m ELSE result.read.m)
        /\ Seen.h = (IF result.pc \in {"min", "hour"} THEN chip.h ELSE result.read.h)
        /\ Seen'.h = (IF result.pc \in {"min", "hour"} THEN chip'.h ELSE result.read.h)
    BY <2>1 DEF Seen
  <2>7. Seconds(Seen) <= Seconds(Seen')
    <3> DEFINE hours(x) == x.day * Hours + x.h  mins(x) == hours(x) * Mins + x.m
    <3>1. mins(Seen) <= mins(Seen')
      <4>1. CASE result.pc = "min"
        BY <1>2, <2>2, <2>6, <4>1, TickGoesOn
      <4>2. CASE result.pc = "hour"
        <5>1. hours(Seen) <= hours(Seen') /\ Seen.m = Seen'.m
          BY <1>2, <2>2, <2>6, <4>2, TickGoesOn
        <5>2. QED
          BY <2>3, <5>1, Later
      <4>3. CASE result.pc = "day"
        <5>1. Seen.day <= Seen'.day /\ Seen.h = Seen'.h /\ Seen.m = Seen'.m
          BY <1>2, <2>2, <2>6, <4>3, TickGoesOn
        <5>2. QED
          BY <2>3, <5>1, Later
      <4>4. QED
        BY <2>5, <4>1, <4>2, <4>3
    <3>2. Seen.s <= Seen'.s
      BY <2>3, <2>6
    <3>3. QED
      BY <2>3, <3>1, <3>2, Later
  <2>8. Seconds(Seen) \in Int /\ Seconds(Seen') \in Int
    BY <2>3, Later
  <2>9. (Seconds(Seen) >= result.from)'
    <3>1. Seconds(Seen') >= result'.from
      BY <2>1, <2>2, <2>4, <2>7, <2>8
    <3>2. QED
      BY <3>1 DEF Seconds
  <2>10. ~result'.carried => Seen'.s <= chip'.s /\ Seen'.m = chip'.m /\ Seen'.h = chip'.h
    <3> SUFFICES ASSUME ~result.carried, chip.s # Secs - 1
                 PROVE  Seen'.s <= chip'.s /\ Seen'.m = chip'.m /\ Seen'.h = chip'.h
      BY <2>1
    <3>1. chip'.s = chip.s + 1 /\ chip'.m = chip.m /\ chip'.h = chip.h
      BY <1>2, <2>2, TickGoesOn
    <3>2. Seen'.s = Seen.s /\ Seen'.m = Seen.m /\ Seen'.h = Seen.h
      BY <2>6, <3>1
    <3>3. QED
      BY <2>2, <2>3, <2>4, <3>1, <3>2
  <2>11. QED
    BY <2>9, <2>10
<1>3. CASE PowerCut
  <2>1. result'.pc = "idle"
    BY <1>3 DEF PowerCut, LoseClock, NoResult
  <2>2. QED
    BY <2>1
<1>4. CASE SetClock
  <2>1. result' = result /\ cpc # "ready"
    BY <1>4 DEF SetClock, ParseFile, SetSec, SetMin, SetHour, SetDay, CopyTime, CopyDay, Get, Put, PutDay,
                EmptyFile, WriteExample, At
  <2>2. QED
    BY <2>1 DEF Counted
<1>5. CASE PowerOn \/ FirmwareDone \/ UNCHANGED clockVars
  <2>1. UNCHANGED <<result, chip, day_count>>
    BY <1>5 DEF PowerOn, FirmwareDone, hardware, clockVars
  <2>2. QED
    BY <2>1 DEF Between, Seen, Seconds
<1>6. QED
  BY <1>1, <1>2, <1>3, <1>4, <1>5 DEF Next, vars

(* A time is never read earlier than when reading began, and never later   *)
(* than when it ended unless a minute turned: then nearly a minute, an     *)
(* hour or a day ahead (cal_time_get).                                     *)
THEOREM ReadAlwaysHonest == Spec => ReadIsHonest
<1> DEFINE Inv == ClockTypes /\ Counted /\ Between
           Honest == result.pc = "day" /\ result'.pc = "idle" /\ cpc' = "ready" =>
                       /\ Seconds(result'.read) >= result.from
                       /\ result.carried \/ Seconds(result'.read) <= Seconds(Clock(chip, day_count))
<1>1. Inv /\ [Next]_vars => [Honest]_clockVars
  <2> SUFFICES ASSUME ClockTypes, Counted, Between, [Next]_vars,
                      result.pc = "day", result'.pc = "idle", cpc' = "ready"
               PROVE  /\ Seconds(result'.read) >= result.from
                      /\ result.carried \/ Seconds(result'.read) <= Seconds(Clock(chip, day_count))
    OBVIOUS
  <2>1. ReadTime
    <3>1. cpc = "ready" /\ result # result'
      BY DEF Counted
    <3>2. SetClock => cpc # "ready"
      BY DEF SetClock, ParseFile, SetSec, SetMin, SetHour, SetDay, CopyTime, CopyDay, Get, Put, PutDay,
             EmptyFile, WriteExample, At
    <3>3. Tick => result'.pc = result.pc
      BY DEF Tick, ClockTypes
    <3>4. QED
      BY <3>1, <3>2, <3>3 DEF Next, PowerOn, FirmwareDone, PowerCut, LoseClock, clockVars, vars
  <2>2. result'.read = [result.read EXCEPT !.day = day_count]
    BY <2>1 DEF ReadTime, Take
  <2>3. result'.read.s = Seen.s /\ result'.read.m = Seen.m /\ result'.read.h = Seen.h /\ result'.read.day = Seen.day
    BY <2>2 DEF ClockTypes, Moment, Seen
  <2>4. Seconds(result'.read) = Seconds(Seen)
    BY <2>3 DEF Seconds
  <2>5. Seconds(Seen) >= result.from
    BY DEF Between
  <2>6. ~result.carried => Seconds(Seen) <= Seconds(Clock(chip, day_count))
    <3> SUFFICES ASSUME ~result.carried PROVE Seconds(Seen) <= Seconds(Clock(chip, day_count))
      OBVIOUS
    <3> DEFINE now == Clock(chip, day_count)
    <3>1. /\ now.day = Seen.day /\ now.h = Seen.h /\ now.m = Seen.m /\ Seen.s <= now.s
      BY DEF Between, Seen, Clock
    <3>2. now \in [s : Int, m : Int, h : Int, day : Int]
      BY DigitTypes DEF ClockTypes, Digits, Clock
    <3>3. Seen \in [s : Int, m : Int, h : Int, day : Int]
      BY SeenTypes
    <3> HIDE DEF now
    <3>4. Seen.day <= now.day
      BY <3>1, <3>2, <3>3
    <3>5. QED
      BY <3>1, <3>2, <3>3, <3>4, Later DEF now
  <2>7. QED
    BY <2>4, <2>5, <2>6
<1>2. Init => Inv
  BY InitClockTypes, CountedStep
<1>3. Inv /\ [Next]_vars => Inv'
  BY ClockTypesStep, CountedStep, BetweenStep
<1>4. QED
  BY <1>1, <1>2, <1>3, PTL DEF Spec, ReadIsHonest
-----------------------------------------------------------------------------
(* The time that is shown.                                                 *)

Setting == {"setMin", "setHour", "setDay"}

SameDigits(a, b) == a.s = b.s /\ a.m = b.m /\ a.h = b.h

(* What a correct clock shows is a date of the 12-bit calendar, and the    *)
(* file that is being set holds a date that a month may have.              *)
CivilRight ==
  /\ isSet => RealDate(civil[1]) /\ civil[2] \in Digits
  /\ cpc \in {"setSec"} \cup Setting => Settable(file.at[1])

(* The battery clock is right, or as far as it has been set.               *)
BatteryRight ==
  isSet =>
    /\ cpc \notin Setting => SameDigits(battery, civil[2]) /\ battery.day = date_to_jd(civil[1]) - LAST_JULIAN_DATE
    /\ cpc \in Setting => battery.s = civil[2].s /\ civil[1] = Meant(file.at[1])
    /\ cpc \in {"setHour", "setDay"} => battery.m = civil[2].m
    /\ cpc = "setDay" => battery.h = civil[2].h
    /\ cpc = "setMin" => civil[2].m = file.at[2].m
    /\ cpc \in {"setMin", "setHour"} => civil[2].h = file.at[2].h

HasDay  == cpc \in {"save", "write"} \/ (cpc = "ready" /\ counting)
HasHour == HasDay \/ cpc \in {"getDay", "putDay"}
HasMin  == HasHour \/ cpc \in {"getHour", "putHour"}
HasSec  == HasMin \/ cpc \in {"getMin", "putMin"}

(* The chip follows the battery clock as far as it has been copied.        *)
ChipRight ==
  ~torn =>
    /\ cpc = "putSec" => t = battery.s
    /\ cpc = "putMin" => t = battery.m
    /\ cpc = "putHour" => t = battery.h
    /\ cpc = "putDay" => t = battery.day
    /\ HasSec => chip.s = battery.s
    /\ HasMin => chip.m = battery.m
    /\ HasHour => chip.h = battery.h
    /\ HasDay /\ isSet => day_count = LAST_JULIAN_DATE + battery.day

(* A day that was never set does not count.                                *)
Uncounted ==
  /\ cpc \in {"off", "parse"} => ~counting
  /\ cpc = "ready" /\ ~counting => day_count = Unset

HistoryTypes == isSet \in BOOLEAN /\ torn \in BOOLEAN

TimeInv == HistoryTypes /\ CivilRight /\ BatteryRight /\ ChipRight /\ Uncounted

LEMMA MeantIsReal ==
  ASSUME NEW d \in (2016..2026) \X (0..12) \X (0..31), Settable(d)
  PROVE  RealDate(Meant(d)) /\ date_to_jd(Meant(d)) = date_to_jd(d)
<1>1. d \in (2016..2027) \X (1..12) \X Int /\ d[1] \in 2016..2026 /\ d[2] \in 1..12 /\ d[3] \in 1..monday[d[2]]
  BY DEF Settable
<1>2. DaysIn(d[1], d[2]) \in 28..31
  BY <1>1, MonthLength
<1>3. monday[d[2]] \in 29..31 /\ d[3] >= 1
  BY <1>1 DEF monday
<1>4. CASE d[3] <= DaysIn(d[1], d[2])
  <2>1. d \in (2016..2027) \X (1..12) \X (1..31)
    BY <1>1, <1>3
  <2>2. QED
    BY <1>4, <2>1 DEF Meant, RealDate
<1>5. CASE ~(d[3] <= DaysIn(d[1], d[2]))
  <2> DEFINE e == <<d[1], d[2], d[3] - 1>>
  <2>1. d[3] - 1 = DaysIn(d[1], d[2]) /\ d[2] < 12
    <3>1. d[2] \in {1, 2, 3, 4, 5, 6, 7, 8, 9, 10, 11, 12}
      BY <1>1
    <3>2. d[2] # 2 => DaysIn(d[1], d[2]) = IF d[2] \in {4, 6, 9, 11} THEN 30 ELSE 31
      BY DEF DaysIn
    <3>3. QED
      BY <1>1, <1>2, <1>5, <3>1, <3>2 DEF monday
  <2>2. e \in (2016..2027) \X (1..12) \X Int /\ e[1] = d[1] /\ e[2] = d[2] /\ e[3] = d[3] - 1
    BY <1>1
  <2>3. NextDate(e) = <<d[1], d[2] + 1, 1>> /\ Meant(d) = NextDate(e)
    BY <1>2, <1>5, <2>1, <2>2 DEF NextDate, Meant
  <2>4. d = <<e[1], e[2], e[3] + 1>>
    BY <1>1, <2>2
  <2> HIDE DEF e
  <2>5. date_to_jd(NextDate(e)) = date_to_jd(d)
    BY <2>1, <2>2, <2>4, MonthTurns
  <2>6. RealDate(<<d[1], d[2] + 1, 1>>)
    <3> DEFINE f == <<d[1], d[2] + 1, 1>>
    <3>1. f \in (2016..2027) \X (1..12) \X (1..31) /\ f[3] = 1
      BY <1>1, <2>1
    <3>2. DaysIn(f[1], f[2]) >= 1
      BY DEF DaysIn
    <3> HIDE DEF f
    <3>3. QED
      BY <3>1, <3>2 DEF RealDate, f
  <2>7. QED
    BY <2>3, <2>5, <2>6
<1>6. QED
  BY <1>4, <1>5

(* The days of the years the file may hold have 12 bits.                   *)
LEMMA FileDays ==
  ASSUME NEW d \in (2016..2026) \X (0..12) \X (0..31), Settable(d)
  PROVE  date_to_jd(d) - LAST_JULIAN_DATE < 4096
<1>1. d \in (2016..2028) \X (1..12) \X Int /\ d[1] \in 2016..2026 /\ d[2] \in 1..12 /\ d[3] \in 0..31
  BY DEF Settable
<1>2. YearFrom(d) \in 15..26 /\ (d[2] > 2 \/ YearFrom(d) <= 25)
  BY <1>1 DEF YearFrom
<1>3. Before[d[2]] \in 0..337 /\ (d[2] > 2 => Before[d[2]] <= 275)
  BY <1>1 DEF Before
<1>4. (1461 * YearFrom(d)) \div 4 <= 9496 /\ (YearFrom(d) <= 25 => (1461 * YearFrom(d)) \div 4 <= 9131)
  BY <1>2, SMT
<1>5. (1461 * YearFrom(d)) \div 4 \in Int /\ date_to_jd(d) = 2451604 + ((1461 * YearFrom(d)) \div 4) + Before[d[2]] + d[3]
  BY <1>1, JulianDay, SMT
<1>6. QED
  BY <1>1, <1>2, <1>3, <1>4, <1>5, SMT DEF LAST_JULIAN_DATE

(* The day after is a date of the 12-bit calendar while the bits last.     *)
LEMMA NextIsReal ==
  ASSUME NEW d, RealDate(d), date_to_jd(d) - LAST_JULIAN_DATE < 4095
  PROVE  RealDate(NextDate(d))
<1>1. /\ d \in (2016..2028) \X (1..12) \X Int /\ d[1] \in 2016..2027 /\ d[2] \in 1..12 /\ d[3] \in 1..31
      /\ d[3] <= DaysIn(d[1], d[2]) /\ DaysIn(d[1], d[2]) \in 28..31
  BY DEF RealDate, DaysIn
<1>2. CASE d[3] < DaysIn(d[1], d[2])
  <2> DEFINE e == <<d[1], d[2], d[3] + 1>>
  <2>1. e \in (2016..2027) \X (1..12) \X (1..31) /\ e[1] = d[1] /\ e[2] = d[2] /\ e[3] = d[3] + 1
    BY <1>1, <1>2
  <2>2. NextDate(d) = e
    BY <1>2 DEF NextDate
  <2> HIDE DEF e
  <2>3. QED
    BY <1>1, <1>2, <2>1, <2>2 DEF RealDate
<1>3. CASE ~(d[3] < DaysIn(d[1], d[2]))
  <2>1. d[2] = 12 => d[1] < 2027
    <3> SUFFICES ASSUME d[2] = 12, d[1] = 2027 PROVE FALSE
      BY <1>1
    <3>1. d[3] = 31
      BY <1>1, <1>3 DEF DaysIn
    <3>2. Before[d[2]] = 275 /\ YearFrom(d) = 27
      BY DEF Before, YearFrom
    <3>3. date_to_jd(d) = 2451604 + ((1461 * 27) \div 4) + 275 + 31
      BY <1>1, <3>1, <3>2, JulianDay, SMT
    <3>4. QED
      BY <3>3, SMT DEF LAST_JULIAN_DATE
  <2> DEFINE e == IF d[2] < 12 THEN <<d[1], d[2] + 1, 1>> ELSE <<d[1] + 1, 1, 1>>
  <2>2. e \in (2016..2027) \X (1..12) \X (1..31) /\ e[3] = 1
    BY <1>1, <2>1
  <2>3. NextDate(d) = e
    BY <1>3 DEF NextDate
  <2> HIDE DEF e
  <2>4. DaysIn(e[1], e[2]) >= 1
    BY DEF DaysIn
  <2>5. QED
    BY <2>2, <2>3, <2>4 DEF RealDate
<1>4. QED
  BY <1>2, <1>3

(* Equal digits go on equally.                                             *)
LEMMA SameSecond ==
  ASSUME NEW a, NEW b, a \in Digits \/ a \in Moment, b \in Digits \/ b \in Moment, a.s = b.s
  PROVE  /\ NextTime(a).s = NextTime(b).s
         /\ a.m = b.m => NextTime(a).m = NextTime(b).m
         /\ a.m = b.m /\ a.h = b.h => NextTime(a) = NextTime(b)
BY DEF NextTime

LEMMA TickTimeInv ==
  ASSUME ClockTypes, Counted, TimeInv, Tick
  PROVE  TimeInv'
<1>1. /\ battery \in Moment /\ chip \in Digits /\ battery.day \in Nat /\ battery.day < 4096
      /\ NextTime(battery) \in Digits /\ NextTime(chip) \in Digits
  BY NextTimeFacts DEF ClockTypes, Days12
<1>2. /\ UNCHANGED <<counting, file, cpc, t, saves, used>>
      /\ civil' = <<IF civil[2] = LastSecond THEN NextDate(civil[1]) ELSE civil[1], NextTime(civil[2])>>
  BY DEF Tick
<1> DEFINE Turns == SameDigits(battery, LastSecond)
           n == IF Turns THEN (battery.day + 1) % 4096 ELSE battery.day
<1>c. Changed.d <=> Turns
  <2>1. Changed.d <=> Time(battery) = LastSecond
    BY Zenon DEF Changed
  <2>2. Time(battery) = LastSecond <=> Turns
    BY DEF Time, LastSecond, SameDigits
  <2>3. QED
    BY <2>1, <2>2
<1>3. battery' = Clock(NextTime(battery), n)
  <2>1. battery' = Clock(NextTime(battery), IF Changed.d THEN (battery.day + 1) % 4096 ELSE battery.day)
    BY DEF Tick
  <2> HIDE DEF Turns
  <2>2. CASE Turns
    BY <1>c, <2>1, <2>2
  <2>3. CASE ~Turns
    BY <1>c, <2>1, <2>3
  <2>4. QED
    BY <2>2, <2>3
<1>4. /\ battery'.s = NextTime(battery).s /\ battery'.m = NextTime(battery).m
      /\ battery'.h = NextTime(battery).h /\ battery'.day = n
  BY <1>3 DEF Clock
<1> HIDE DEF n
<1>5. /\ Lost <=> ((cpc = "setMin" /\ battery'.m # battery.m)
                   \/ (cpc = "setHour" /\ battery'.h # battery.h) \/ (cpc = "setDay" /\ Turns))
      /\ Stale <=> (cpc = "putSec" \/ (cpc = "putMin" /\ battery'.m # battery.m)
                   \/ (cpc = "putHour" /\ battery'.h # battery.h) \/ (cpc = "putDay" /\ Turns))
  <2>1. Changed.m <=> battery'.m # battery.m
    BY <1>4, Zenon DEF Changed
  <2>2. Changed.h <=> battery'.h # battery.h
    BY <1>4, Zenon DEF Changed
  <2> HIDE DEF Turns
  <2>3. QED
    BY <1>c, <2>1, <2>2, Zenon DEF Lost, Stale
<1>d. /\ isSet' \in BOOLEAN /\ torn' \in BOOLEAN /\ (torn' <=> torn \/ Stale)
      /\ isSet' <=> isSet /\ ~Lost /\ ~(Turns /\ battery.day = 4095)
  <2> DEFINE last == battery.day = 4095
  <2>1. isSet' = (isSet /\ ~Lost /\ ~(Changed.d /\ last)) /\ torn' = (torn \/ Stale)
    BY DEF Tick
  <2>2. isSet \in BOOLEAN /\ torn \in BOOLEAN
    BY DEF TimeInv, HistoryTypes
  <2> HIDE DEF Turns, last
  <2>3. isSet' = (isSet /\ ~Lost /\ ~(Turns /\ last)) /\ torn' = (torn \/ Stale)
    BY <1>c, <2>1, Zenon
  <2>4. isSet' <=> isSet /\ ~Lost /\ ~(Turns /\ last)
    BY <2>2, <2>3
  <2>5. isSet' \in BOOLEAN /\ torn' \in BOOLEAN /\ (torn' <=> torn \/ Stale)
    BY <2>2, <2>3
  <2>6. QED
    BY <2>4, <2>5 DEF last
<1>6. /\ battery.s # Secs - 1 => battery'.m = battery.m /\ battery'.h = battery.h
      /\ battery'.h # battery.h => battery'.m # battery.m
  <2>1. /\ battery.s \in 0..(Secs - 1) /\ battery.m \in 0..(Mins - 1) /\ battery.h \in 0..(Hours - 1)
    BY <1>1 DEF Moment
  <2>2. battery.s # Secs - 1 => NextTime(battery).m = battery.m /\ NextTime(battery).h = battery.h
    BY <1>1, NextTimeFacts
  <2>3. battery.s = Secs - 1 /\ battery.m # Mins - 1 => NextTime(battery).m = battery.m + 1
    BY <1>1, NextTimeFacts
  <2>4. battery.s = Secs - 1 /\ battery.m = Mins - 1 => NextTime(battery).m = 0
    BY <1>1, NextTimeFacts DEF Midnight
  <2>5. QED
    BY <1>4, <2>1, <2>2, <2>3, <2>4, DigitTypes
<1>7. CivilRight'
  <2>1. ASSUME isSet' PROVE RealDate(civil'[1]) /\ civil'[2] \in Digits
    <3>1. isSet /\ RealDate(civil[1]) /\ civil[2] \in Digits /\ ~(Turns /\ battery.day = 4095) /\ ~Lost
      BY <1>d, <2>1 DEF TimeInv, CivilRight
    <3>2. civil'[2] \in Digits
      BY <1>2, <3>1, NextTimeFacts
    <3>3. CASE civil[2] # LastSecond
      BY <1>2, <3>1, <3>2, <3>3
    <3>4. CASE civil[2] = LastSecond
      <4>1. civil[2].s = Secs - 1 /\ civil[2].m = Mins - 1 /\ civil[2].h = Hours - 1
        BY <3>4 DEF LastSecond
      <4>2. cpc \notin Setting
        <5>1. ASSUME cpc \in Setting PROVE FALSE
          <6>1. battery.s = Secs - 1
            BY <3>1, <4>1, <5>1 DEF TimeInv, BatteryRight
          <6>2. battery.m \in 0..(Mins - 1) /\ battery.h \in 0..(Hours - 1)
            BY <1>1 DEF Moment
          <6>3. battery.m = Mins - 1 => battery'.m = 0
            BY <1>1, <1>4, <6>1, NextTimeFacts DEF Midnight
          <6>4. battery.m # Mins - 1 => battery'.m = battery.m + 1
            BY <1>1, <1>4, <6>1, NextTimeFacts
          <6>5. battery'.m # battery.m
            BY <6>2, <6>3, <6>4, DigitTypes
          <6>6. cpc # "setMin"
            BY <1>5, <3>1, <6>5 DEF Lost
          <6>7. battery.m = Mins - 1
            BY <3>1, <4>1, <5>1, <6>6 DEF TimeInv, BatteryRight, Setting
          <6>8. battery'.h # battery.h
            <7>1. battery.h = Hours - 1 => battery'.h = 0
              BY <1>1, <1>4, <6>1, <6>7, NextTimeFacts DEF Midnight
            <7>2. battery.h # Hours - 1 => battery'.h = battery.h + 1
              BY <1>1, <1>4, <6>1, <6>7, NextTimeFacts
            <7>3. QED
              BY <6>2, <7>1, <7>2, DigitTypes
          <6>9. cpc = "setDay"
            BY <1>5, <3>1, <5>1, <6>6, <6>8 DEF Lost, Setting
          <6>10. battery.h = Hours - 1
            BY <3>1, <4>1, <6>9 DEF TimeInv, BatteryRight
          <6>11. SameDigits(battery, LastSecond)
            BY <6>1, <6>7, <6>10 DEF SameDigits, LastSecond
          <6>12. QED
            BY <1>5, <3>1, <6>9, <6>11 DEF Lost
        <5>2. QED
          BY <5>1
      <4>3. SameDigits(battery, LastSecond) /\ battery.day = date_to_jd(civil[1]) - LAST_JULIAN_DATE
        BY <3>1, <3>4, <4>2 DEF TimeInv, BatteryRight
      <4>4. battery.day < 4095
        BY <1>1, <1>5, <3>1, <4>3
      <4>5. RealDate(NextDate(civil[1]))
        BY <3>1, <4>3, <4>4, NextIsReal
      <4>6. QED
        BY <1>2, <3>2, <3>4, <4>5
    <3>5. QED
      BY <3>3, <3>4
  <2>2. QED
    BY <1>2, <2>1 DEF TimeInv, CivilRight
<1>8. BatteryRight'
  <2> SUFFICES ASSUME isSet'
               PROVE  /\ cpc \notin Setting => SameDigits(battery', civil'[2])
                           /\ battery'.day = date_to_jd(civil'[1]) - LAST_JULIAN_DATE
                      /\ cpc \in Setting => battery'.s = civil'[2].s /\ civil'[1] = Meant(file.at[1])
                      /\ cpc \in {"setHour", "setDay"} => battery'.m = civil'[2].m
                      /\ cpc = "setDay" => battery'.h = civil'[2].h
                      /\ cpc = "setMin" => civil'[2].m = file.at[2].m
                      /\ cpc \in {"setMin", "setHour"} => civil'[2].h = file.at[2].h
    BY <1>2 DEF BatteryRight, SameDigits
  <2>1. isSet /\ RealDate(civil[1]) /\ civil[2] \in Digits /\ ~(Turns /\ battery.day = 4095) /\ ~Lost
    BY <1>d DEF TimeInv, CivilRight
  <2>2. civil'[2] = NextTime(civil[2]) /\ civil'[1] = IF civil[2] = LastSecond THEN NextDate(civil[1]) ELSE civil[1]
    BY <1>2
  <2>3. battery.s = civil[2].s /\ battery'.s = civil'[2].s
    <3>1. battery.s = civil[2].s
      BY <2>1 DEF TimeInv, BatteryRight, SameDigits
    <3>2. QED
      BY <1>1, <1>4, <2>1, <2>2, <3>1, SameSecond
  <2>4. ASSUME battery.m = civil[2].m PROVE battery'.m = civil'[2].m
    BY <1>1, <1>4, <2>1, <2>2, <2>3, <2>4, SameSecond
  <2>5. ASSUME battery.m = civil[2].m, battery.h = civil[2].h
        PROVE  /\ battery'.h = civil'[2].h /\ (Turns <=> civil[2] = LastSecond)
    <3>1. NextTime(battery) = NextTime(civil[2])
      BY <1>1, <2>1, <2>3, <2>5, SameSecond
    <3>2. civil[2] = LastSecond <=> SameDigits(civil[2], LastSecond)
      BY <2>1 DEF SameDigits, LastSecond, Digits
    <3>3. SameDigits(civil[2], LastSecond) <=> SameDigits(battery, LastSecond)
      BY <2>3, <2>5 DEF SameDigits
    <3>4. QED
      BY <1>4, <1>5, <2>2, <3>1, <3>2, <3>3
  <2>6. CASE cpc \notin Setting
    <3>1. battery.m = civil[2].m /\ battery.h = civil[2].h /\ battery.day = date_to_jd(civil[1]) - LAST_JULIAN_DATE
      BY <2>1, <2>6 DEF TimeInv, BatteryRight, SameDigits
    <3>2. SameDigits(battery', civil'[2])
      BY <2>3, <2>4, <2>5, <3>1 DEF SameDigits
    <3>3. CASE civil[2] # LastSecond
      BY <1>4, <2>2, <2>5, <2>6, <3>1, <3>2, <3>3 DEF n, Setting
    <3>4. CASE civil[2] = LastSecond
      <4>1. Turns /\ battery.day < 4095
        BY <1>1, <2>1, <2>5, <3>1, <3>4
      <4>2. battery'.day = battery.day + 1
        <5>1. (battery.day + 1) % 4096 = battery.day + 1
          BY <1>1, <4>1, SMT
        <5>2. QED
          BY <1>4, <4>1, <5>1 DEF n
      <4>3. date_to_jd(civil'[1]) = date_to_jd(civil[1]) + 1 /\ date_to_jd(civil[1]) \in Int
        BY <2>1, <2>2, <3>4, NextDay, DayRange
      <4>4. battery'.day = date_to_jd(civil'[1]) - LAST_JULIAN_DATE
        BY <3>1, <4>2, <4>3, SMT DEF LAST_JULIAN_DATE
      <4>5. QED
        BY <2>6, <3>2, <4>4 DEF Setting
    <3>5. QED
      BY <3>3, <3>4
  <2>7. CASE cpc \in Setting
    <3>1. civil[1] = Meant(file.at[1])
      BY <2>1, <2>7 DEF TimeInv, BatteryRight
    <3>2. ASSUME civil[2] = LastSecond PROVE FALSE
      <4>1. battery.s = Secs - 1 /\ battery.m \in 0..(Mins - 1) /\ battery.h \in 0..(Hours - 1)
        BY <1>1, <2>3, <3>2 DEF LastSecond, Moment
      <4>2. cpc # "setMin"
        <5>1. battery.m = Mins - 1 => battery'.m = 0
          BY <1>1, <1>4, <4>1, NextTimeFacts DEF Midnight
        <5>2. battery.m # Mins - 1 => battery'.m = battery.m + 1
          BY <1>1, <1>4, <4>1, NextTimeFacts
        <5>3. battery'.m # battery.m
          BY <4>1, <5>1, <5>2, DigitTypes
        <5>4. QED
          BY <1>5, <2>1, <5>3 DEF Lost
      <4>3. battery.m = Mins - 1
        BY <2>1, <2>7, <3>2, <4>2 DEF TimeInv, BatteryRight, Setting, LastSecond
      <4>4. cpc # "setHour"
        <5>1. battery.h = Hours - 1 => battery'.h = 0
          BY <1>1, <1>4, <4>1, <4>3, NextTimeFacts DEF Midnight
        <5>2. battery.h # Hours - 1 => battery'.h = battery.h + 1
          BY <1>1, <1>4, <4>1, <4>3, NextTimeFacts
        <5>3. battery'.h # battery.h
          BY <4>1, <5>1, <5>2, DigitTypes
        <5>4. QED
          BY <1>5, <2>1, <5>3 DEF Lost
      <4>5. cpc = "setDay" /\ battery.h = Hours - 1
        BY <2>1, <2>7, <3>2, <4>2, <4>4 DEF TimeInv, BatteryRight, Setting, LastSecond
      <4>6. SameDigits(battery, LastSecond)
        BY <4>1, <4>3, <4>5 DEF SameDigits, LastSecond
      <4>7. QED
        BY <1>5, <2>1, <4>5, <4>6 DEF Lost
    <3>3. civil'[1] = Meant(file.at[1])
      BY <2>2, <3>1, <3>2
    <3>4. CASE cpc = "setMin"
      <4>1. civil[2].m = file.at[2].m /\ civil[2].h = file.at[2].h
        BY <2>1, <3>4 DEF TimeInv, BatteryRight
      <4>2. battery.s # Secs - 1
        <5>1. battery'.m = battery.m
          BY <1>5, <2>1, <3>4 DEF Lost
        <5>2. battery.m \in 0..(Mins - 1)
          BY <1>1 DEF Moment
        <5>3. battery.s = Secs - 1 /\ battery.m = Mins - 1 => battery'.m = 0
          BY <1>1, <1>4, NextTimeFacts DEF Midnight
        <5>4. battery.s = Secs - 1 /\ battery.m # Mins - 1 => battery'.m = battery.m + 1
          BY <1>1, <1>4, NextTimeFacts
        <5>5. QED
          BY <5>1, <5>2, <5>3, <5>4, DigitTypes
      <4>3. civil'[2].m = civil[2].m /\ civil'[2].h = civil[2].h
        BY <2>1, <2>2, <2>3, <4>2, NextTimeFacts
      <4>4. QED
        BY <2>3, <3>3, <3>4, <4>1, <4>3 DEF Setting
    <3>5. CASE cpc = "setHour"
      <4>1. civil[2].h = file.at[2].h /\ battery.m = civil[2].m
        BY <2>1, <3>5 DEF TimeInv, BatteryRight
      <4>2. battery'.h = battery.h /\ battery'.m = civil'[2].m
        BY <1>5, <2>1, <2>4, <3>5, <4>1 DEF Lost
      <4>3. civil'[2].h = civil[2].h
        <5>1. battery.s \in 0..(Secs - 1) /\ battery.m \in 0..(Mins - 1) /\ battery.h \in 0..(Hours - 1)
          BY <1>1 DEF Moment
        <5>2. ~(battery.s = Secs - 1 /\ battery.m = Mins - 1)
          <6>1. battery.s = Secs - 1 /\ battery.m = Mins - 1 /\ battery.h = Hours - 1 => battery'.h = 0
            BY <1>1, <1>4, NextTimeFacts DEF Midnight
          <6>2. battery.s = Secs - 1 /\ battery.m = Mins - 1 /\ battery.h # Hours - 1 => battery'.h = battery.h + 1
            BY <1>1, <1>4, NextTimeFacts
          <6>3. QED
            BY <4>2, <5>1, <6>1, <6>2, DigitTypes
        <5>3. ~(civil[2].s = Secs - 1 /\ civil[2].m = Mins - 1)
          BY <2>3, <4>1, <5>2
        <5>4. civil[2].s # Secs - 1 => NextTime(civil[2]).h = civil[2].h
          BY <2>1, NextTimeFacts
        <5>5. civil[2].s = Secs - 1 /\ civil[2].m # Mins - 1 => NextTime(civil[2]).h = civil[2].h
          BY <2>1, NextTimeFacts
        <5>6. QED
          BY <2>2, <5>3, <5>4, <5>5
      <4>4. QED
        BY <2>3, <3>3, <3>5, <4>1, <4>2, <4>3 DEF Setting
    <3>6. CASE cpc = "setDay"
      <4>1. battery.m = civil[2].m /\ battery.h = civil[2].h
        BY <2>1, <3>6 DEF TimeInv, BatteryRight
      <4>2. QED
        BY <2>3, <2>4, <2>5, <3>3, <3>6, <4>1 DEF Setting
    <3>7. QED
      BY <2>7, <3>4, <3>5, <3>6 DEF Setting
  <2>8. QED
    BY <2>6, <2>7
<1>9. ChipRight'
  <2> SUFFICES ASSUME ~torn'
               PROVE  /\ cpc = "putSec" => t = battery'.s
                      /\ cpc = "putMin" => t = battery'.m
                      /\ cpc = "putHour" => t = battery'.h
                      /\ cpc = "putDay" => t = battery'.day
                      /\ HasSec => chip'.s = battery'.s
                      /\ HasMin => chip'.m = battery'.m
                      /\ HasHour => chip'.h = battery'.h
                      /\ HasDay /\ isSet' => day_count' = LAST_JULIAN_DATE + battery'.day
    BY <1>2 DEF ChipRight, HasSec, HasMin, HasHour, HasDay
  <2>1. ~torn /\ ~Stale
    BY <1>d
  <2>2. /\ cpc # "putSec"
        /\ cpc = "putMin" => t = battery'.m
        /\ cpc = "putHour" => t = battery'.h
        /\ cpc = "putDay" => t = battery'.day
    BY <1>4, <1>5, <2>1 DEF TimeInv, ChipRight, Stale, n
  <2>3. HasSec => cpc # "off"
    BY DEF HasSec, HasMin, HasHour, HasDay
  <2>4. HasSec => chip' = NextTime(chip) /\ day_count' = IF chip = LastSecond /\ counting THEN day_count + 1 ELSE day_count
    BY <2>3 DEF Tick
  <2>5. HasSec => chip.s = battery.s /\ chip'.s = battery'.s
    <3>1. HasSec => chip.s = battery.s
      BY <2>1 DEF TimeInv, ChipRight
    <3>2. QED
      BY <1>1, <1>4, <2>4, <3>1, SameSecond
  <2>6. HasMin => chip.m = battery.m /\ chip'.m = battery'.m
    <3>1. HasMin => HasSec /\ chip.m = battery.m
      BY <2>1 DEF TimeInv, ChipRight, HasSec
    <3>2. QED
      BY <1>1, <1>4, <2>4, <2>5, <3>1, SameSecond
  <2>7. HasHour => chip.h = battery.h /\ chip'.h = battery'.h
    <3>1. HasHour => HasMin /\ HasSec /\ chip.h = battery.h
      BY <2>1 DEF TimeInv, ChipRight, HasSec, HasMin
    <3>2. QED
      BY <1>1, <1>4, <2>4, <2>5, <2>6, <3>1, SameSecond
  <2>8. ASSUME HasDay, isSet' PROVE day_count' = LAST_JULIAN_DATE + battery'.day
    <3>1. isSet /\ ~(Turns /\ battery.day = 4095) /\ day_count = LAST_JULIAN_DATE + battery.day /\ counting
      BY <1>d, <2>1, <2>8 DEF TimeInv, ChipRight, Counted, HasDay
    <3>2. SameDigits(chip, battery)
      BY <2>5, <2>6, <2>7, <2>8 DEF SameDigits, HasSec, HasMin, HasHour
    <3>3. chip = LastSecond <=> SameDigits(chip, LastSecond)
      BY <1>1 DEF SameDigits, LastSecond, Digits
    <3>4. chip = LastSecond <=> Turns
      BY <1>5, <3>2, <3>3 DEF SameDigits
    <3>5. day_count' = IF Turns THEN day_count + 1 ELSE day_count
      BY <2>4, <2>8, <3>1, <3>4 DEF HasSec, HasMin, HasHour
    <3>6. battery'.day = IF Turns THEN battery.day + 1 ELSE battery.day
      <4>1. battery.day < 4095 => (battery.day + 1) % 4096 = battery.day + 1
        BY <1>1, SMT
      <4>2. Turns => battery.day < 4095
        BY <1>1, <3>1
      <4>3. QED
        BY <1>4, <4>1, <4>2 DEF n
    <3>7. QED
      BY <1>1, <3>1, <3>5, <3>6, SMT DEF LAST_JULIAN_DATE
  <2>9. QED
    BY <2>2, <2>5, <2>6, <2>7, <2>8
<1>10. Uncounted'
  BY <1>2 DEF Tick, TimeInv, Uncounted
<1>11. QED
  BY <1>d, <1>7, <1>8, <1>9, <1>10 DEF TimeInv, HistoryTypes

LEMMA InitTimeInv == Init => TimeInv
<1> SUFFICES ASSUME Init PROVE TimeInv
  OBVIOUS
<1>1. CASE cpc = "off" /\ isSet = FALSE /\ counting = FALSE
  <2>1. torn = FALSE
    BY DEF Init, ClockInit
  <2>2. HistoryTypes /\ CivilRight /\ Uncounted
    BY <1>1, <2>1 DEF HistoryTypes, CivilRight, Uncounted, Setting
  <2>3. BatteryRight /\ ChipRight
    BY <1>1 DEF BatteryRight, ChipRight, HasSec, HasMin, HasHour, HasDay
  <2>4. QED
    BY <2>2, <2>3 DEF TimeInv
<1>2. ASSUME cpc = "ready", counting = TRUE, NEW d \in RunningDates, day_count = date_to_jd(d),
             battery = Clock(LastSecond, day_count - LAST_JULIAN_DATE),
             chip = LastSecond, civil = <<d, LastSecond>>
      PROVE  TimeInv
  <2>1. RealDate(d) /\ date_to_jd(d) \in Int
    BY DatesAssumption, DayRange
  <2>2. battery.day = day_count - LAST_JULIAN_DATE /\ SameDigits(battery, LastSecond)
    BY <1>2 DEF Clock, SameDigits
  <2>3. civil[1] = d /\ civil[2] = LastSecond /\ LastSecond \in Digits
    BY <1>2, DigitTypes
  <2>4. day_count = LAST_JULIAN_DATE + battery.day
    BY <1>2, <2>1, <2>2, SMT DEF LAST_JULIAN_DATE
  <2>5. HistoryTypes /\ CivilRight
    BY <1>2, <2>1, <2>3 DEF Init, ClockInit, HistoryTypes, CivilRight, Setting
  <2>6. BatteryRight
    BY <1>2, <2>2, <2>3 DEF BatteryRight, Setting
  <2>7. ChipRight
    BY <1>2, <2>2, <2>4 DEF ChipRight, SameDigits
  <2>8. Uncounted
    BY <1>2 DEF Uncounted
  <2>9. QED
    BY <2>5, <2>6, <2>7, <2>8 DEF TimeInv
<1>3. \/ cpc = "off" /\ isSet = FALSE /\ counting = FALSE
      \/ /\ cpc = "ready" /\ counting = TRUE
         /\ \E d \in RunningDates :
              /\ day_count = date_to_jd(d)
              /\ battery = Clock(LastSecond, day_count - LAST_JULIAN_DATE)
              /\ chip = LastSecond /\ civil = <<d, LastSecond>>
  BY DEF Init, ClockInit
<1>4. QED
  BY <1>1, <1>2, <1>3

LEMMA SetTimeInv ==
  ASSUME ClockTypes, Counted, TimeInv, SetClock
  PROVE  TimeInv'
<1> USE DEF TimeInv, HistoryTypes
<1>1. CASE ParseFile
  <2>1. /\ UNCHANGED <<battery, chip, day_count, civil, isSet, torn, file>> /\ cpc = "parse"
        /\ cpc' \in {"getSec", "ready", "setSec"}
        /\ cpc' = "setSec" => Settable(file.at[1])
        /\ cpc' = "ready" => counting' = counting
    BY <1>1 DEF ParseFile, hardware
  <2>2. ~counting /\ day_count = Unset
    BY <2>1 DEF Uncounted, Counted
  <2>3. CivilRight' /\ Uncounted'
    BY <2>1, <2>2 DEF CivilRight, Uncounted, Setting
  <2>4. BatteryRight'
    BY <2>1 DEF BatteryRight, Setting, SameDigits
  <2>5. ChipRight'
    BY <2>1, <2>2 DEF ChipRight, HasSec, HasMin, HasHour, HasDay
  <2>6. QED
    BY <2>1, <2>3, <2>4, <2>5
<1>2. CASE SetSec
  <2>1. /\ cpc = "setSec" /\ cpc' = "setMin" /\ UNCHANGED <<chip, day_count, torn, file, counting, t>>
        /\ battery' = [battery EXCEPT !.s = file.at[2].s]
        /\ civil' = <<Meant(file.at[1]), file.at[2]>> /\ isSet' = TRUE
    BY <1>2 DEF SetSec, At
  <2>2. file.at[1] \in (2016..2026) \X (0..12) \X (0..31) /\ file.at[2] \in Digits /\ battery \in Moment
    BY DEF ClockTypes, InFile
  <2>3. Settable(file.at[1])
    BY <2>1 DEF CivilRight
  <2>4. RealDate(Meant(file.at[1]))
    BY <2>2, <2>3, MeantIsReal
  <2>5. CivilRight'
    BY <2>1, <2>2, <2>3, <2>4 DEF CivilRight
  <2>6. BatteryRight'
    <3>1. battery'.s = file.at[2].s
      BY <2>1, <2>2 DEF Moment
    <3>2. civil'[1] = Meant(file.at[1]) /\ civil'[2] = file.at[2]
      BY <2>1
    <3>3. QED
      BY <2>1, <3>1, <3>2 DEF BatteryRight, Setting
  <2>7. ChipRight' /\ Uncounted'
    BY <2>1 DEF ChipRight, HasSec, HasMin, HasHour, HasDay, Uncounted
  <2>8. QED
    BY <2>1, <2>5, <2>6, <2>7
<1>3. CASE SetMin
  <2>1. /\ cpc = "setMin" /\ cpc' = "setHour" /\ UNCHANGED <<chip, day_count, civil, isSet, torn, file, counting, t>>
        /\ battery' = [battery EXCEPT !.m = file.at[2].m]
    BY <1>3 DEF SetMin, At
  <2>2. battery'.s = battery.s /\ battery'.m = file.at[2].m
    BY <2>1 DEF ClockTypes, Moment
  <2>3. CivilRight' /\ Uncounted'
    BY <2>1 DEF CivilRight, Uncounted, Setting
  <2>4. BatteryRight'
    BY <2>1, <2>2 DEF BatteryRight, Setting
  <2>5. ChipRight'
    BY <2>1 DEF ChipRight, HasSec, HasMin, HasHour, HasDay
  <2>6. QED
    BY <2>1, <2>3, <2>4, <2>5
<1>4. CASE SetHour
  <2>1. /\ cpc = "setHour" /\ cpc' = "setDay" /\ UNCHANGED <<day_count, civil, isSet, torn, file, counting, t>>
        /\ battery' = [battery EXCEPT !.h = file.at[2].h]
    BY <1>4 DEF SetHour, At
  <2>2. battery'.s = battery.s /\ battery'.m = battery.m /\ battery'.h = file.at[2].h
    BY <2>1 DEF ClockTypes, Moment
  <2>3. CivilRight' /\ Uncounted'
    BY <2>1 DEF CivilRight, Uncounted, Setting
  <2>4. BatteryRight'
    BY <2>1, <2>2 DEF BatteryRight, Setting
  <2>5. ChipRight'
    BY <2>1 DEF ChipRight, HasSec, HasMin, HasHour, HasDay
  <2>6. QED
    BY <2>1, <2>3, <2>4, <2>5
<1>5. CASE SetDay
  <2> DEFINE d == file.at[1]
  <2>1. /\ cpc = "setDay" /\ cpc' = "getSec" /\ UNCHANGED <<chip, civil, isSet, torn, file, counting, t>>
        /\ battery' = [battery EXCEPT !.day = (date_to_jd(d) - LAST_JULIAN_DATE) % 4096]
    BY <1>5 DEF SetDay, At
  <2>2. battery'.s = battery.s /\ battery'.m = battery.m /\ battery'.h = battery.h
          /\ battery'.day = (date_to_jd(d) - LAST_JULIAN_DATE) % 4096
    BY <2>1, SMT DEF ClockTypes, Moment
  <2>3. d \in (2016..2026) \X (0..12) \X (0..31) /\ Settable(d)
    BY <2>1 DEF ClockTypes, InFile, CivilRight, Setting
  <2>4. (date_to_jd(d) - LAST_JULIAN_DATE) % 4096 = date_to_jd(Meant(d)) - LAST_JULIAN_DATE
    <3> HIDE DEF d
    <3>1. date_to_jd(d) = date_to_jd(Meant(d)) /\ date_to_jd(d) \in Int /\ date_to_jd(d) > LAST_JULIAN_DATE
      BY <2>3, MeantIsReal, DayRange
    <3>2. date_to_jd(d) - LAST_JULIAN_DATE < 4096
      BY <2>3, FileDays
    <3>3. QED
      BY <3>1, <3>2, SMT DEF LAST_JULIAN_DATE
  <2>5. CivilRight' /\ Uncounted'
    BY <2>1 DEF CivilRight, Uncounted, Setting
  <2>6. BatteryRight'
    <3>1. isSet => SameDigits(battery, civil[2]) /\ civil[1] = Meant(d)
      BY <2>1 DEF BatteryRight, Setting, SameDigits
    <3>2. isSet => SameDigits(battery', civil[2]) /\ battery'.day = date_to_jd(civil[1]) - LAST_JULIAN_DATE
      BY <2>2, <2>4, <3>1 DEF SameDigits
    <3>3. QED
      BY <2>1, <3>2 DEF BatteryRight, Setting, SameDigits
  <2>7. ChipRight'
    BY <2>1 DEF ChipRight, HasSec, HasMin, HasHour, HasDay
  <2>8. QED
    BY <2>1, <2>5, <2>6, <2>7
<1>6. CASE CopyTime
  <2>1. /\ UNCHANGED <<battery, day_count, civil, isSet, torn, file, counting>>
        /\ cpc \notin Setting \cup {"off", "parse", "ready", "setSec"}
        /\ cpc' \notin Setting \cup {"off", "parse", "ready", "setSec"}
    BY <1>6 DEF CopyTime, Get, Put, At, hardware, Setting
  <2>2. CivilRight' /\ BatteryRight' /\ Uncounted'
    BY <2>1 DEF CivilRight, BatteryRight, Uncounted, Setting, SameDigits
  <2>3. chip \in Digits
    BY DEF ClockTypes
  <2>4. ChipRight'
    <3>1. CASE Get("getSec", "putSec", battery.s) \/ Get("getMin", "putMin", battery.m) \/ Get("getHour", "putHour", battery.h)
      BY <3>1 DEF Get, At, hardware, ChipRight, HasSec, HasMin, HasHour, HasDay
    <3>2. CASE Put("putSec", "getMin", [chip EXCEPT !.s = t])
      <4>1. chip'.s = t
        BY <2>3, <3>2 DEF Put, Digits
      <4>2. QED
        BY <3>2, <4>1 DEF Put, At, ChipRight, HasSec, HasMin, HasHour, HasDay
    <3>3. CASE Put("putMin", "getHour", [chip EXCEPT !.m = t])
      <4>1. chip'.s = chip.s /\ chip'.m = t
        BY <2>3, <3>3 DEF Put, Digits
      <4>2. QED
        BY <3>3, <4>1 DEF Put, At, ChipRight, HasSec, HasMin, HasHour, HasDay
    <3>4. CASE Put("putHour", "getDay", [chip EXCEPT !.h = t])
      <4>1. chip'.s = chip.s /\ chip'.m = chip.m /\ chip'.h = t
        BY <2>3, <3>4 DEF Put, Digits
      <4>2. QED
        BY <3>4, <4>1 DEF Put, At, ChipRight, HasSec, HasMin, HasHour, HasDay
    <3>5. QED
      BY <1>6, <3>1, <3>2, <3>3, <3>4 DEF CopyTime
  <2>5. QED
    BY <2>1, <2>2, <2>4
<1>7. CASE CopyDay
  <2>1. /\ UNCHANGED <<battery, chip, civil, isSet, torn, file, counting>>
        /\ cpc \notin Setting \cup {"off", "parse", "ready", "setSec"}
        /\ cpc' \notin Setting \cup {"off", "parse", "setSec"} /\ (cpc' = "ready" => counting)
    BY <1>7 DEF CopyDay, Get, PutDay, At, hardware, Setting, Counted
  <2>2. CivilRight' /\ BatteryRight' /\ Uncounted'
    BY <2>1 DEF CivilRight, BatteryRight, Uncounted, Setting, SameDigits
  <2>3. CASE Get("getDay", "putDay", battery.day)
    <3>1. ChipRight'
      BY <2>3 DEF Get, At, hardware, ChipRight, HasSec, HasMin, HasHour, HasDay
    <3>2. QED
      BY <2>1, <2>2, <3>1
  <2>4. CASE PutDay
    <3>1. /\ cpc = "putDay" /\ cpc' \in {"save", "ready"} /\ t' = t
          /\ day_count' = LAST_JULIAN_DATE + (IF t = 0 THEN 122 ELSE t)
      BY <2>4 DEF PutDay, At
    <3>2. ASSUME isSet, ~torn PROVE day_count' = LAST_JULIAN_DATE + battery.day
      <4>1. t = battery.day
        BY <3>1, <3>2 DEF ChipRight
      <4>2. battery.day = date_to_jd(civil[1]) - LAST_JULIAN_DATE /\ RealDate(civil[1])
        BY <3>1, <3>2 DEF BatteryRight, CivilRight, Setting
      <4>3. battery.day # 0
        BY <4>2, DayRange, SMT DEF LAST_JULIAN_DATE
      <4>4. QED
        BY <3>1, <4>1, <4>3
    <3>3. ChipRight'
      BY <2>1, <3>1, <3>2 DEF ChipRight, HasSec, HasMin, HasHour, HasDay
    <3>4. QED
      BY <2>1, <2>2, <3>3
  <2>5. QED
    BY <1>7, <2>3, <2>4 DEF CopyDay
<1>8. CASE EmptyFile \/ WriteExample
  <2>1. /\ UNCHANGED <<battery, chip, day_count, civil, isSet, torn, counting, t>>
        /\ cpc \in {"save", "write"} /\ cpc' \in {"write", "ready"} /\ counting
    BY <1>8 DEF EmptyFile, WriteExample, At, hardware, Counted
  <2>2. CivilRight' /\ BatteryRight' /\ Uncounted'
    BY <2>1 DEF CivilRight, BatteryRight, Uncounted, Setting, SameDigits
  <2>3. ChipRight'
    BY <2>1 DEF ChipRight, HasSec, HasMin, HasHour, HasDay
  <2>4. QED
    BY <2>1, <2>2, <2>3
<1>9. QED
  BY <1>1, <1>2, <1>3, <1>4, <1>5, <1>6, <1>7, <1>8 DEF SetClock

LEMMA TimeInvStep == ClockTypes /\ Counted /\ TimeInv /\ [Next]_vars => TimeInv'
<1> SUFFICES ASSUME ClockTypes, Counted, TimeInv, [Next]_vars PROVE TimeInv'
  OBVIOUS
<1>1. CASE PowerOn \/ UNCHANGED clockVars
  BY <1>1 DEF PowerOn, clockVars, TimeInv, HistoryTypes, CivilRight, BatteryRight, ChipRight, Uncounted, Setting,
              SameDigits, HasSec, HasMin, HasHour, HasDay
<1>2. CASE FirmwareDone \/ ReadTime
  BY <1>2 DEF FirmwareDone, ReadTime, hardware, TimeInv, HistoryTypes, CivilRight, BatteryRight, ChipRight, Uncounted,
              Setting, SameDigits, HasSec, HasMin, HasHour, HasDay
<1>3. CASE PowerCut
  <2>1. /\ isSet' = (isSet /\ cpc \notin {"setMin", "setHour", "setDay"}) /\ cpc' = "off" /\ counting' = FALSE
        /\ torn' = FALSE /\ UNCHANGED <<battery, file, civil>>
    BY <1>3 DEF PowerCut, LoseClock
  <2>2. isSet' \in BOOLEAN /\ (isSet' => isSet /\ cpc \notin Setting)
    BY <2>1 DEF Setting, TimeInv, HistoryTypes
  <2>3. CivilRight' /\ HistoryTypes' /\ Uncounted'
    BY <2>1, <2>2 DEF TimeInv, CivilRight, HistoryTypes, Uncounted, Setting
  <2>4. BatteryRight'
    BY <2>1, <2>2 DEF TimeInv, BatteryRight, Setting, SameDigits
  <2>5. ChipRight'
    BY <2>1 DEF ChipRight, HasSec, HasMin, HasHour, HasDay
  <2>6. QED
    BY <2>3, <2>4, <2>5 DEF TimeInv
<1>4. QED
  BY <1>1, <1>2, <1>3, SetTimeInv, TickTimeInv DEF Next, vars

(* The camera shows the time that was set, through ticks, midnights, ends  *)
(* of months, leap years and restarts (cal_time_get, F_TimeData_ext2int),  *)
(* unless it was never set, the power was cut while it was half set, its   *)
(* days ran out, or a carry came between two digits set or copied.         *)
THEOREM TimeIsAlwaysRight == Spec => []TimeIsRight
<1> DEFINE Inv == ClockTypes /\ Counted /\ TimeInv
<1>1. Inv => TimeIsRight
  <2> SUFFICES ASSUME ClockTypes, TimeInv, cpc = "ready", isSet, ~torn, day_count # Unset
               PROVE  chip = civil[2] /\ JdToDate(day_count) = civil[1]
    BY DEF TimeIsRight
  <2>1. counting
    BY DEF TimeInv, Uncounted
  <2>2. HasDay /\ HasHour /\ HasMin /\ HasSec
    BY <2>1 DEF HasDay, HasHour, HasMin, HasSec
  <2>3. SameDigits(chip, battery) /\ day_count = LAST_JULIAN_DATE + battery.day
    BY <2>2 DEF TimeInv, ChipRight, SameDigits
  <2>4. SameDigits(battery, civil[2]) /\ battery.day = date_to_jd(civil[1]) - LAST_JULIAN_DATE
    BY DEF TimeInv, BatteryRight, Setting
  <2>5. RealDate(civil[1]) /\ civil[2] \in Digits /\ chip \in Digits
    BY DEF TimeInv, CivilRight, ClockTypes
  <2>6. chip = civil[2]
    BY <2>3, <2>4, <2>5 DEF SameDigits, Digits
  <2>7. day_count = date_to_jd(civil[1])
    BY <2>3, <2>4, <2>5, DayRange, SMT DEF LAST_JULIAN_DATE
  <2>8. QED
    BY <2>5, <2>6, <2>7, BackFromDay
<1>2. Init => Inv
  BY InitClockTypes, CountedStep, InitTimeInv
<1>3. Inv /\ [Next]_vars => Inv'
  BY ClockTypesStep, CountedStep, TimeInvStep
<1>4. QED
  BY <1>1, <1>2, <1>3, PTL DEF Spec
=============================================================================
