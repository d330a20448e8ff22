------------------------------ MODULE MiniDvr ------------------------------
(***************************************************************************)
(* The main loop of the camera (project/turnkey_car_recoder/mini_dvr.c):   *)
(* the scan of its one key, photo and recording mode, the save of a long   *)
(* recording or at low battery, the plug of the USB cable, the power-off,  *)
(* and the numbers files get (jh/mini_dvr_api.c); against it the 128 Hz    *)
(* interrupt with the battery voltage and the tasks that record.  One tick *)
(* is one average of the voltage (127 interrupts, a second).  How a        *)
(* recording is started and stopped is module Recorder; here vid_start may *)
(* fail, and a recording may end by itself because the card is full.       *)
(* LEDs are left out.                                                      *)
(***************************************************************************)
EXTENDS Integers, FiniteSets

CONSTANTS
  LongPress,    \* passes of the loop a key is held for a long press: 90 + 30
  Period,       \* ticks of 5 minutes
  SavePeriods,  \* 30 minutes: 6 periods
  IdleSleep,    \* C_IDLE_SLEEP: passes until the camera switches itself off
  FileNumbers,  \* USER_FILE_MAX_NUM
  MaxClock      \* bound: ticks

ASSUME DvrAssumption ==
  /\ LongPress \in Nat \ {0} /\ Period \in Nat \ {0} /\ SavePeriods \in Nat \ {0}
  /\ IdleSleep \in Nat \ {0, 1} /\ FileNumbers \in Nat \ {0} /\ MaxClock \in Nat

VARIABLES
  pc, back,          \* where the loop is; where it goes on after vid_stop or vid_start
  mode, recording,   \* "avi" or "photo"; VIDEO_CODEC_PROCESSING
  pressed, hold, debounce, code, \* the key: g_key_1_hold, g_key_1_debounce, R_KeyCode
  sizeOver,          \* g_file_size_over or g_avi_packer_error_flag
  usb, usbDisable,   \* the cable; g_usb_disable
  voltage_status, lvd_flag,   \* g_voltage_status, g_lvd_flag_savefile
  lvd_cnt, lvd_bak,  \* g_lvd_cnt_savefile in periods, g_lvd_bak_savefile
  clock,             \* g_public_128hz_cnt
  idle,              \* idle_count
  files, index,      \* the numbers of the recordings on the card; g_avi_index
  current,           \* the number of the file that is being recorded
  finished, misled, pace, started, marked, acts  \* bookkeeping: see below

(* finished: numbers of the recordings that were brought to an end;        *)
(* misled: the search for a number has just ended with an error of the     *)
(* card; pace: ticks since the loop looked at the clock; started, marked:  *)
(* when the file was begun, and when the battery was found low; acts: what *)
(* the present press of the key has set off.                               *)

keyVars  == <<pressed, hold, debounce, code, acts>>
isrVars  == <<voltage_status, lvd_flag, clock, pace, marked>>
saveVars == <<sizeOver, lvd_cnt, lvd_bak>>
fileVars == <<files, index, current, finished, misled, started>>
usbVars  == <<usb, usbDisable>>
vars == <<pc, back, mode, recording, keyVars, isrVars, saveVars, fileVars, usbVars, idle>>

None == -1
Numbers == 0..(FileNumbers - 1)
Low == 90   \* 0x5a
-----------------------------------------------------------------------------
(* File numbers.                                                           *)

MaxOf(S) == CHOOSE i \in S : \A j \in S : j <= i

(* get_file_final_avi_index: one more than the highest, or 0 again.        *)
FinalIndex(S) == IF S = {} THEN 0 ELSE (MaxOf(S) + 1) % FileNumbers

(* Variant: the number is taken without looking for a file of that name.   *)
ChosenBlindly == index

(* open_avi_file_handle: the first free number from the index on, cyclic.  *)
Chosen ==
  LET free == {d \in Numbers : (index + d) % FileNumbers \notin files}
      d == CHOOSE d \in free : \A e \in free : d <= e
  IN  IF free = {} THEN None ELSE (index + d) % FileNumbers

(* An error of _findfirst looks like "no such file": any number up to the  *)
(* first free one may be taken for free.                                   *)
Mistaken ==
  {(index + d) % FileNumbers :
     d \in {k \in Numbers : \A e \in 0..k : (index + e) % FileNumbers \in files}}
-----------------------------------------------------------------------------
(* With the cable plugged in the loop is only entered if USB is disabled.  *)
Init ==
  /\ pc = "scan" /\ back = "scan" /\ mode = "photo" /\ recording = FALSE
  /\ pressed \in BOOLEAN /\ hold = 2 /\ debounce = 0 /\ code = 0 /\ acts = 0
  /\ usb \in BOOLEAN /\ usbDisable = usb
  /\ sizeOver = FALSE /\ lvd_cnt = 0 /\ lvd_bak = 0 /\ started = 0
  /\ voltage_status = FALSE /\ lvd_flag = 1 /\ clock = 0 /\ pace = 0 /\ marked = 0
  /\ idle = 0
  /\ finished \in SUBSET Numbers
  /\ files = finished /\ index = FinalIndex(finished) /\ current = None /\ misled = FALSE
-----------------------------------------------------------------------------
(* The world: the key, the cable, and the tasks that record.  Key and      *)
(* cable change whenever they like; only the changes before the loop looks *)
(* at them are told apart.                                                 *)

Press == ~pressed /\ pressed' = TRUE /\ acts' = 0 /\ UNCHANGED <<hold, debounce, code>>

Release == pressed /\ pressed' = FALSE /\ UNCHANGED <<hold, debounce, code, acts>>

Key ==
  /\ pc \in {"scan", "off"} /\ (Press \/ Release)
  /\ UNCHANGED <<pc, back, mode, recording, isrVars, saveVars, fileVars, usbVars, idle>>

Cable ==
  /\ pc \in {"usb?", "usb"} /\ usb' = ~usb
  /\ UNCHANGED <<pc, back, mode, recording, keyVars, isrVars, saveVars, fileVars, usbDisable, idle>>

(* The file has reached its size, a write has failed.                      *)
EncoderAsks ==
  /\ recording /\ ~sizeOver /\ sizeOver' = TRUE
  /\ UNCHANGED <<pc, back, mode, recording, keyVars, isrVars, lvd_cnt, lvd_bak,
                 fileVars, usbVars, idle>>

Finish ==
  /\ recording' = FALSE
  /\ finished' = IF recording THEN finished \cup {current} ELSE finished
  /\ current' = None /\ started' = 0
  /\ UNCHANGED <<files, index, misled>>

(* The card is full: the recording is ended by the state task.             *)
CardFull ==
  /\ recording /\ Finish
  /\ UNCHANGED <<pc, back, mode, keyVars, isrVars, saveVars, usbVars, idle>>
-----------------------------------------------------------------------------
(* voltage_detect_isr with an average v.  A pass of the loop with all its  *)
(* blocking calls takes less than a period.                                *)
Tick ==
  /\ pc \notin {"usb", "off", "dead"} /\ clock < MaxClock /\ pace + 1 < Period
  /\ clock' = clock + 1 /\ pace' = pace + 1
  /\ \E v \in {"good", "save", "low"} :
       /\ IF v # "good" /\ lvd_flag = 0 THEN lvd_flag' = Low /\ marked' = clock'
                                        ELSE UNCHANGED <<lvd_flag, marked>>
       /\ voltage_status' = (voltage_status \/ v = "low")
  /\ UNCHANGED <<pc, back, mode, recording, keyVars, saveVars, fileVars, usbVars, idle>>
-----------------------------------------------------------------------------
(* The main loop.                                                          *)

Goto(p) == pc' = p /\ UNCHANGED back
StopThen(p) == pc' = "stop" /\ back' = p
StartThen(p) == pc' = "start" /\ back' = p

(* Variant: a long press is not remembered.                                *)
ScanForgets ==
  \/ hold = 0 /\ debounce' = 0 /\ hold' = (IF pressed THEN 1 ELSE 0) /\ UNCHANGED <<code, acts>>
  \/ hold = 1 /\ ~pressed /\ hold' = 0 /\ code' = 1 /\ acts' = acts + 1 /\ UNCHANGED debounce
  \/ hold = 1 /\ pressed /\ debounce' = (debounce + 1) % (LongPress + 2)
       /\ UNCHANGED hold
       /\ IF debounce + 1 > LongPress THEN code' = 2 /\ acts' = acts + 1
                                      ELSE UNCHANGED <<code, acts>>
  \/ hold = 2 /\ hold' = (IF pressed THEN 2 ELSE 0) /\ UNCHANGED <<debounce, code, acts>>

(* function_key_scan: 1 is a short press, when the key is released, 2 a    *)
(* long one, after which nothing happens until the key is released.        *)
Scan ==
  \/ hold = 0 /\ debounce' = 0 /\ hold' = (IF pressed THEN 1 ELSE 0) /\ UNCHANGED <<code, acts>>
  \/ hold = 1 /\ ~pressed /\ hold' = 0 /\ code' = 1 /\ acts' = acts + 1 /\ UNCHANGED debounce
  \/ /\ hold = 1 /\ pressed /\ debounce' = debounce + 1
     /\ IF debounce' > LongPress THEN hold' = 2 /\ code' = 2 /\ acts' = acts + 1
                                 ELSE UNCHANGED <<hold, code, acts>>
  \/ hold = 2 /\ hold' = (IF pressed THEN 2 ELSE 0) /\ UNCHANGED <<debounce, code, acts>>

ScanKey ==
  /\ pc = "scan" /\ Scan /\ UNCHANGED pressed /\ Goto("record")
  /\ UNCHANGED <<mode, recording, isrVars, saveVars, fileVars, usbVars, idle>>

(* A full card ends in power-off, a full or broken file in a new one.      *)
Record ==
  /\ pc = "record"
  /\ IF mode = "avi" /\ ~recording THEN Goto("off")
     ELSE IF mode = "avi" /\ sizeOver THEN StopThen("restart") ELSE Goto("key")
  /\ UNCHANGED <<mode, recording, keyVars, isrVars, saveVars, fileVars, usbVars, idle>>

(* Stopped for a new file, the loop goes on to start it at once.           *)
VidStop ==
  /\ pc = "stop" /\ Finish
  /\ IF back = "restart" THEN StartThen("key") ELSE Goto(back)
  /\ UNCHANGED <<mode, keyVars, isrVars, saveVars, usbVars, idle>>

VidStart ==
  /\ pc = "start" /\ Goto("open")
  /\ sizeOver' = FALSE /\ lvd_bak' = clock /\ lvd_cnt' = 0
  /\ UNCHANGED <<mode, recording, keyVars, isrVars, fileVars, usbVars, idle>>

(* It may fail before a number is chosen, before the file is opened, or    *)
(* after; then the file is removed.  From the loop's key the mode changes  *)
(* if it succeeds, from the end of a file if it fails.                     *)
VidOpen ==
  /\ pc = "open"
  /\ \/ \E n \in {Chosen} \cup Mistaken :
          /\ ~recording /\ n # None
          /\ index' = (n + 1) % FileNumbers /\ misled' = (n # Chosen)
          /\ \/ /\ files' = files \cup {n} /\ finished' = finished \ {n}
                /\ recording' = TRUE /\ current' = n /\ started' = lvd_bak
                /\ Goto(IF back = "key" THEN "key" ELSE "started") /\ UNCHANGED mode
             \/ /\ files' = files \ {n} /\ finished' = finished \ {n}
                /\ Goto(back) /\ mode' = "photo" /\ UNCHANGED <<recording, current, started>>
             \/ /\ UNCHANGED <<files, finished>>
                /\ Goto(back) /\ mode' = "photo" /\ UNCHANGED <<recording, current, started>>
     \/ Goto(back) /\ mode' = "photo" /\ UNCHANGED <<recording, fileVars>>
  /\ UNCHANGED <<keyVars, isrVars, saveVars, usbVars, idle>>

(* Only a recording started with the key may be saved at low battery.      *)
Started ==
  /\ pc = "started" /\ mode' = "avi" /\ lvd_flag' = 0 /\ marked' = 0 /\ Goto("usb?")
  /\ UNCHANGED <<recording, keyVars, voltage_status, clock, pace, saveVars, fileVars,
                 usbVars, idle>>

(* A short press takes a photo (capture_jpeg, which blocks; photos have    *)
(* numbers of their own) or ends the recording, a long one starts a        *)
(* recording or ends it and switches off.                                  *)
HandleKey ==
  /\ pc = "key" /\ code' = 0
  /\ idle' = IF code = 0 THEN idle ELSE 0
  /\ CASE code = 0 -> Goto("usb?") /\ UNCHANGED mode
       [] code = 1 /\ mode = "photo" -> Goto("usb?") /\ UNCHANGED mode
       [] code = 1 /\ mode = "avi" ->
            mode' = "photo" /\ IF recording THEN StopThen("usb?") ELSE Goto("usb?")
       [] code = 2 /\ mode = "photo" -> Goto("blink") /\ UNCHANGED mode
       [] code = 2 /\ mode = "avi" ->
            mode' = "photo" /\ IF recording THEN StopThen("off") ELSE Goto("off")
  /\ UNCHANGED <<recording, pressed, hold, debounce, acts, isrVars, saveVars, fileVars, usbVars>>

(* The key decides while the LED blinks: held to the end, the camera is    *)
(* switched off; otherwise a recording starts.                             *)
Blink ==
  /\ pc = "blink"
  /\ \/ Goto("off")
     \/ StartThen("usb?")
  /\ UNCHANGED <<mode, recording, keyVars, isrVars, saveVars, fileVars, usbVars, idle>>

(* Variant: only the key ends a recording.                                 *)
PlugStopsNot == FALSE

PlugStops == mode = "avi" /\ recording

(* The cable: without g_usb_disable it ends the loop, with it the camera   *)
(* is switched off when the cable is pulled.                               *)
CheckUsb ==
  /\ pc = "usb?"
  /\ CASE usb /\ ~usbDisable ->
            mode' = "photo" /\ IF PlugStops THEN StopThen("usb") ELSE Goto("usb")
       [] ~usb /\ usbDisable -> Goto("off") /\ UNCHANGED mode
       [] usb = usbDisable -> Goto("save") /\ UNCHANGED mode
  /\ misled' = FALSE
  /\ UNCHANGED <<recording, keyVars, isrVars, saveVars, files, index, current, finished, started,
                 usbVars, idle>>

(* The device tasks run until the cable is pulled.                         *)
UsbMode ==
  /\ pc = "usb" /\ ~usb /\ Goto("off")
  /\ UNCHANGED <<mode, recording, keyVars, isrVars, saveVars, fileVars, usbVars, idle>>

(* Variant: one period too many.                                           *)
SaveDueLate == lvd_cnt + 1 > SavePeriods \/ lvd_flag = Low

SaveDue == lvd_cnt + 1 >= SavePeriods \/ lvd_flag = Low

(* Every period is counted; after 30 minutes, or after 5 at low battery    *)
(* but then only once, a new file is asked for.                            *)
Save ==
  /\ pc = "save" /\ Goto("idle") /\ pace' = 0
  /\ IF mode = "avi" /\ recording /\ clock >= lvd_bak + Period
       THEN /\ lvd_bak' = lvd_bak + Period
            /\ IF SaveDue
                 THEN /\ lvd_cnt' = 0 /\ sizeOver' = TRUE
                      /\ lvd_flag' = (IF lvd_flag = Low THEN 1 ELSE lvd_flag) /\ marked' = 0
                 ELSE lvd_cnt' = lvd_cnt + 1 /\ UNCHANGED <<sizeOver, lvd_flag, marked>>
       ELSE UNCHANGED <<lvd_bak, lvd_cnt, sizeOver, lvd_flag, marked>>
  /\ UNCHANGED <<mode, recording, keyVars, voltage_status, clock, fileVars,
                 usbVars, idle>>

(* Variant: the battery is only looked at while recording.                 *)
EmptyInVideo == voltage_status /\ mode = "avi"

BatteryEmpty == voltage_status

(* The camera sleeps after a time without a key, and at empty battery.     *)
Idle ==
  /\ pc = "idle"
  /\ idle' = IF mode = "avi" /\ recording THEN 1 ELSE idle + 1
  /\ CASE idle' >= IdleSleep -> Goto("off") /\ UNCHANGED mode
       [] idle' < IdleSleep /\ BatteryEmpty ->
            mode' = "photo" /\ IF mode = "avi" /\ recording THEN StopThen("off") ELSE Goto("off")
       [] idle' < IdleSleep /\ ~BatteryEmpty -> Goto("scan") /\ UNCHANGED mode
  /\ UNCHANGED <<recording, keyVars, isrVars, saveVars, fileVars, usbVars>>

(* F_power_Pin_Disable waits until the key is released.                    *)
PowerOff ==
  /\ pc = "off" /\ ~pressed /\ Goto("dead")
  /\ UNCHANGED <<mode, recording, keyVars, isrVars, saveVars, fileVars, usbVars, idle>>

Loop == \/ ScanKey \/ Record \/ VidStop \/ VidStart \/ VidOpen \/ Started \/ HandleKey
        \/ Blink \/ CheckUsb \/ UsbMode \/ Save \/ Idle

Next == Loop \/ PowerOff \/ Key \/ Cable \/ EncoderAsks \/ CardFull \/ Tick

Spec == Init /\ [][Next]_vars

(* The loop goes on, the user lets go of the key, and the wait for that    *)
(* sees it.                                                                *)
FairSpec == Spec /\ WF_vars(Loop) /\ WF_vars(Key /\ pressed) /\ SF_vars(PowerOff)
-----------------------------------------------------------------------------
(* No file grows for more than 30 minutes, and one of at least 5 minutes   *)
(* is ended within 5 minutes of the battery being found low (g_lvd_*; the  *)
(* interrupt sets the flag at any point of the loop, and vid_start starts  *)
(* to count again).                                                        *)
Later(a, b) == IF a > b THEN a ELSE b

SavedInTime ==
  pc = "idle" /\ mode = "avi" /\ recording /\ ~sizeOver =>
    /\ clock - pace - started < SavePeriods * Period
    /\ lvd_flag = Low => clock - pace - Later(started, marked) < Period

(* One press of the key sets off at most one action (function_key_scan).   *)
OneActionPerPress == acts <= 1

(* The power is not cut while a file is being recorded: every              *)
(* F_power_Pin_Disable comes after a vid_stop, or after the card was full; *)
(* except that the cable has been pulled with USB disabled.                *)
OffIsClean == pc \in {"off", "dead", "usb"} => current = None \/ (usbDisable /\ ~usb /\ pc # "usb")

(* A recording that was brought to an end is never overwritten or removed, *)
(* however often numbers wrap and starts fail (open_avi_file_handle),      *)
(* except by a start whose search ended with an error of the card; and     *)
(* that start costs one recording at most.                                 *)
FinishedStays ==
  [][/\ finished \subseteq finished' \/ (pc = "open" /\ misled')
     /\ \A m, n \in finished \ finished' : m = n]_vars

(* An empty battery switches the camera off, whatever the loop is doing.   *)
LowBatteryEnds == voltage_status ~> (pc = "dead" \/ pc = "usb")
=============================================================================
