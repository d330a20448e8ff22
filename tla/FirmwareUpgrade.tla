-------------------------- MODULE FirmwareUpgrade --------------------------
(***************************************************************************)
(* The firmware upgrade at start-up (jh/firmware_upgrade.c) over the SPI   *)
(* flash driver (drv_l2_spi_flash.c): read FirmwareUpgrade_Msg.ini, copy   *)
(* the flash to the card if that says so, check the sum of JH_*.bin, then  *)
(* block by block erase, program, read back and compare, and delete the    *)
(* file.  Card and flash may fail at every call, and the power may be cut  *)
(* at every step.  A page of flash is the unit; the lamps, the lock of the *)
(* driver (main is its only user), the count of upgrades in the .ini file  *)
(* and images of more than a megabyte are left out.                        *)
(***************************************************************************)
EXTENDS Integers

CONSTANTS
  Pages,      \* pages of C_UPGRADE_SPI_WRITE_SIZE the new image takes
  BlockPages, \* C_UPGRADE_SPI_BLOCK_SIZE in pages
  Retries     \* C_UPGRADE_FAIL_RETRY

ASSUME UpgradeAssumption ==
  /\ Pages \in Nat \ {0} /\ BlockPages \in Nat \ {0} /\ Retries \in Nat \ {0}

VARIABLES
  flash,    \* what each page holds: "old", "new" (what the file holds), "stale" (what was
            \* in memory in its place), "erased", "junk"
  bin,      \* JH_*.bin: "none", "good", or "bad": not the sum that its name says
  backup,   \* Firmware_Backup.bin: "none", "partial", or what the flash held
  upc,      \* where main is
  flags,    \* F_file_exist, F_backup, F_detele
  complete, \* complete_size in pages
  retry,
  ram,      \* firmware_buffer: the pages of the file it holds in their places
  gaveUp,   \* history: the last upgrade used up its retries
  short     \* history: "read", a block or a sum was not all read, and taken as if it were;
            \* "write", the same of the last backup

upgradeVars == <<flash, bin, backup, upc, flags, complete, retry, ram, gaveUp, short>>
cardVars    == <<bin, backup>>
pastVars    == <<gaveUp, short>>

Page == 0..(Pages - 1)

UpgradeInit ==
  /\ flash = [p \in Page |-> "old"]
  /\ bin \in {"none", "good", "bad"}
  /\ backup = "none" /\ upc \in {"off", "left"} /\ complete = 0 /\ retry = 0 /\ ram = {}
  /\ gaveUp = FALSE /\ short = {}
  /\ flags = [exist |-> FALSE, back |-> FALSE, del |-> FALSE]

All(c) == \A p \in Page : flash[p] = c

(* The chip starts from what is in the flash; neither image is a mixture.  *)
Bootable == All("old") \/ All("new")

Goto(next) == upc' = next
-----------------------------------------------------------------------------
(* The driver.                                                             *)

Block == {p \in Page : p \div BlockPages = complete \div BlockPages}

With(pages, c) == [p \in Page |-> IF p \in pages THEN c ELSE flash[p]]

(* SPI_Flash_erase_block: the answer to the write enable is not looked at, *)
(* so "ok" may mean that nothing happened; a timeout may come half-way.    *)
SPI_Flash_erase_block(ok) ==
  flash' \in {flash, With(Block, IF ok THEN "erased" ELSE "junk")}

(* What the buffer holds for the page at hand.  Programming can only clear *)
(* bits.                                                                   *)
Held == IF complete \in ram THEN "new" ELSE "stale"
Programmed(c) == IF c \in {"erased", Held} THEN Held ELSE "junk"

SPI_Flash_write_page(ok) ==
  flash' \in {flash, With({complete}, Programmed(flash[complete]))}
               \cup (IF ok THEN {} ELSE {With({complete}, "junk")})
-----------------------------------------------------------------------------
(* DetectionAndRead_UpgradeMsg: the answers of the file, if there is one,  *)
(* or those a buffer happens to hold that could not be read.               *)
ReadIni ==
  /\ upc = "ini"
  /\ \/ flags' = [exist |-> FALSE, back |-> FALSE, del |-> FALSE]
     \/ flags' \in [exist : {TRUE}, back : BOOLEAN, del : BOOLEAN]
  /\ Goto(IF flags'.back THEN "backup" ELSE "find")
  /\ gaveUp' = FALSE
  /\ UNCHANGED <<flash, cardVars, complete, retry, ram, short>>

(* Firmware_Backup.                                                        *)
BackupBegin ==
  /\ upc = "backup"
  /\ \/ backup' = "partial" /\ short' = short \ {"write"} /\ Goto("copy")
     \/ UNCHANGED <<backup, short>> /\ Goto("error")
  /\ UNCHANGED <<flash, bin, flags, complete, retry, ram, gaveUp>>

(* A write that is cut short counts as done: only <= 0 is an error.  (So   *)
(* does the size the .ini file gives, if it is less than the flash.)       *)
BackupEnd ==
  /\ upc = "copy"
  /\ \/ backup' = (IF All("old") THEN "old" ELSE "new") /\ Goto("find") /\ UNCHANGED short
     \/ UNCHANGED backup /\ Goto("find") /\ short' = short \cup {"write"}
     \/ UNCHANGED <<backup, short>> /\ Goto("error")
  /\ UNCHANGED <<flash, bin, flags, complete, retry, ram, gaveUp>>
-----------------------------------------------------------------------------
(* ap_umi_firmware_upgrade.                                                *)

(* Its buffers are freed through a pointer that was never set: the program *)
(* goes on or hangs, with the watchdog off.                                *)
Find ==
  /\ upc = "find"
  /\ \/ Goto(IF flags.back THEN "copied" ELSE "left")
     \/ bin # "none" /\ upc' \in {"sum", "error", "hung"}
  /\ UNCHANGED <<flash, cardVars, flags, complete, retry, ram, pastVars>>

(* The sum is taken 256 bytes at a time; what a read did not fill is what  *)
(* was there before, and may make up the sum.                              *)
CheckSum ==
  /\ upc = "sum"
  /\ \/ bin = "good" /\ Goto("block") /\ UNCHANGED short
     \/ bin = "bad" /\ Goto("block") /\ short' = short \cup {"read"}
     \/ Goto("error") /\ UNCHANGED short
  /\ complete' = 0 /\ retry' = 0 /\ ram' = {}
  /\ UNCHANGED <<flash, cardVars, flags, gaveUp>>

(* The next 64 KB of the file, from the beginning of the block again.  Any *)
(* count above zero will do: what the read does not fill stays as it was.  *)
ReadBlock ==
  /\ upc = "block" /\ complete < Pages /\ retry < Retries
  /\ complete' = complete - (complete % BlockPages)
  /\ \/ /\ \E n \in 0..BlockPages : ram' = (ram \cap Block) \cup {p \in Block : p % BlockPages < n}
        /\ short' = short \cup (IF ram' = Block THEN {} ELSE {"read"})
        /\ Goto("erase")
     \/ Goto("error") /\ UNCHANGED <<ram, short>>
  /\ UNCHANGED <<flash, cardVars, flags, retry, gaveUp>>

EraseBlock ==
  /\ upc = "erase"
  /\ \/ SPI_Flash_erase_block(TRUE) /\ Goto("page") /\ UNCHANGED retry
     \/ SPI_Flash_erase_block(FALSE) /\ Goto("block") /\ retry' = retry + 1
  /\ UNCHANGED <<cardVars, flags, complete, ram, pastVars>>

WritePage ==
  /\ upc = "page"
  /\ \/ SPI_Flash_write_page(TRUE) /\ Goto("verify") /\ UNCHANGED retry
     \/ SPI_Flash_write_page(FALSE) /\ Goto("block") /\ retry' = retry + 1
  /\ UNCHANGED <<cardVars, flags, complete, ram, pastVars>>

(* Variant: a page that differs is passed over.                            *)
VerifyPageLenient ==
  /\ upc = "verify"
  /\ \/ /\ complete' = complete + 1
        /\ Goto(IF complete' >= Pages \/ complete' % BlockPages = 0 THEN "block" ELSE "page")
     \/ Goto("error") /\ UNCHANGED complete
  /\ UNCHANGED <<flash, cardVars, flags, retry, ram, pastVars>>

(* The page is read back and compared with the buffer, not with the file.  *)
VerifyPage ==
  /\ upc = "verify"
  /\ \/ /\ flash[complete] = Held
        /\ complete' = complete + 1
        /\ Goto(IF complete' >= Pages \/ complete' % BlockPages = 0 THEN "block" ELSE "page")
     \/ Goto("error") /\ UNCHANGED complete
  /\ UNCHANGED <<flash, cardVars, flags, retry, ram, pastVars>>

(* Variant: the file is deleted although a retry may still be needed.      *)
FinishEarly ==
  /\ upc = "block" /\ complete + 1 >= Pages
  /\ gaveUp' = (complete < Pages /\ retry = Retries)
  /\ bin' = "none"
  /\ Goto(IF complete < Pages THEN "block" ELSE IF flags.exist THEN "message" ELSE "delete")
  /\ UNCHANGED <<flash, backup, flags, complete, retry, ram, short>>

(* Behind the loop, whether it ended or used up its retries: both count as *)
(* an upgrade.  What unlink answers is not looked at.                      *)
Finish ==
  /\ upc = "block" /\ (complete >= Pages \/ retry = Retries)
  /\ gaveUp' = (complete < Pages)
  /\ \/ flags.del /\ bin' = "none"
     \/ UNCHANGED bin
  /\ Goto(IF flags.exist THEN "message" ELSE "delete")
  /\ UNCHANGED <<flash, backup, flags, complete, retry, ram, short>>

(* Write_UpgradeMsg writes the answers back.                               *)
WriteMessage ==
  /\ upc = "message" /\ Goto("upgraded")
  /\ UNCHANGED <<flash, cardVars, flags, complete, retry, ram, pastVars>>

DeleteBin ==
  /\ upc = "delete"
  /\ bin' \in {bin, "none"}
  /\ Goto("upgraded")
  /\ UNCHANGED <<flash, backup, flags, complete, retry, ram, pastVars>>

(* firmware_upgrade_server shows how it went and switches the camera off.  *)
SwitchOff ==
  /\ upc \in {"upgraded", "copied", "error"}
  /\ Goto("off") /\ ram' = {}
  /\ UNCHANGED <<flash, cardVars, flags, complete, retry, pastVars>>

UpgradeStep ==
  \/ ReadIni \/ BackupBegin \/ BackupEnd \/ Find \/ CheckSum \/ ReadBlock \/ EraseBlock
  \/ WritePage \/ VerifyPage \/ Finish \/ WriteMessage \/ DeleteBin \/ SwitchOff

(* The power is cut, in the middle of what the flash is doing.             *)
CutUpgrade ==
  /\ upc # "off" /\ Goto("off") /\ ram' = {}
  /\ IF upc = "erase" THEN flash' \in {flash, With(Block, "erased"), With(Block, "junk")}
     ELSE IF upc = "page" THEN SPI_Flash_write_page(FALSE)
     ELSE UNCHANGED flash
  /\ UNCHANGED <<cardVars, flags, complete, retry, pastVars>>
-----------------------------------------------------------------------------
(* An upgrade that is shown as good has put the file into the flash,       *)
(* through all errors and retries, and a file with a wrong sum is never    *)
(* put there: unless the retries were used up, after which the program     *)
(* goes on as if they were not, or a read of the file was cut short, after *)
(* which it programs, and compares with, what happens to be in memory.     *)
FlashIsTrue ==
  /\ upc = "upgraded" /\ ~gaveUp /\ "read" \notin short => All("new")
  /\ bin = "bad" /\ "read" \notin short => All("old")

(* Wherever the power is cut, whatever answers with an error and whatever  *)
(* the flash does meanwhile, unless a read was cut short: a whole image is *)
(* left in the flash or in the file it came from; or the retries are used  *)
(* up, and then in the backup, if one was asked for and wholly written.    *)
ImageSurvives ==
  "read" \notin short =>
    \/ Bootable \/ bin = "good"
    \/ gaveUp /\ (flags.back /\ "write" \notin short => backup \in {"old", "new"})
=============================================================================
