--------------------------- MODULE MiniDvrProofs ---------------------------
(***************************************************************************)
(* Proofs about the main loop: one press of the key sets off one action,   *)
(* the power is not cut while a file is open, a finished recording is      *)
(* never overwritten, and a long recording is saved in time.               *)
(***************************************************************************)
EXTENDS MiniDvr, WellFoundedInduction, TLAPS

-----------------------------------------------------------------------------
(* The inductive invariant.                                                *)

Places == {"scan", "record", "stop", "start", "open", "started", "key", "blink", "usb?", "usb",
           "save", "idle", "off", "dead"}

DvrTypes ==
  /\ pc \in Places /\ mode \in {"avi", "photo"} /\ recording \in BOOLEAN
  /\ sizeOver \in BOOLEAN /\ usb \in BOOLEAN /\ usbDisable \in BOOLEAN
  /\ code \in {0, 1, 2} /\ lvd_flag \in {0, 1, Low} /\ voltage_status \in BOOLEAN
  /\ clock \in Nat /\ pace \in Nat /\ lvd_bak \in Nat /\ started \in Nat /\ marked \in Nat
  /\ lvd_cnt \in Nat /\ idle \in Nat /\ index \in Numbers

(* What a press has set off before the key is let go, and the state of the *)
(* scan that tells it from the next one.                                   *)
KeyInv ==
  /\ acts \in {0, 1} /\ hold \in {0, 1, 2}
  /\ hold = 1 => acts = 0
  /\ hold = 0 /\ pressed => acts = 0

(* Where a call of vid_stop or vid_start comes from, and when there is a   *)
(* recording.                                                              *)
Calls ==
  /\ recording => /\ mode = "avi" \/ pc \in {"stop", "started"}
                  /\ pc \notin {"start", "open", "blink"}
  /\ pc = "blink" => mode = "photo"
  /\ pc = "stop" => back \in {"restart", "usb?", "off", "usb"}
  /\ pc = "stop" /\ back = "restart" => mode = "avi"
  /\ pc \in {"start", "open"} => back \in {"key", "usb?"}
  /\ pc \in {"start", "open"} /\ back = "key" => mode = "avi"
  /\ pc = "usb" => ~recording
  /\ pc \in {"off", "dead"} => ~recording \/ (usbDisable /\ ~usb)

(* The recording under way is a file of its own.                           *)
FileInv ==
  /\ finished \subseteq files
  /\ recording => current \in files /\ current \notin finished
  /\ ~recording => current = None

(* The last look at the clock was at clock - pace; lvd_bak is the start of *)
(* the running period, lvd_cnt periods after the start of the file.  Once  *)
(* the battery is low, no period begins without a new file.                *)
SaveInv ==
  /\ pace < Period /\ lvd_cnt < SavePeriods /\ lvd_bak <= clock
  /\ pc = "open" => lvd_cnt = 0 /\ clock - pace < lvd_bak + Period
  /\ recording => clock - pace < lvd_bak + Period
  /\ recording /\ ~sizeOver =>
       /\ lvd_bak = started + lvd_cnt * Period
       /\ lvd_flag = Low => lvd_bak = started \/ lvd_bak <= marked

DvrInv == DvrTypes /\ KeyInv /\ Calls /\ FileInv /\ SaveInv
-----------------------------------------------------------------------------
(* The number chosen for a new file is free.                               *)

Less == {p \in Nat \X Nat : p[1] < p[2]}

LEMMA LessIsWellFounded == IsWellFoundedOn(Less, Nat)
BY NatLessThanWellFounded DEF OpToRel, Less

LEMMA LeastNumber ==
  ASSUME NEW T, T \subseteq Nat, T # {}
  PROVE  \E n \in T : \A m \in T : n <= m
<1>1. \E n \in T : \A m \in T : ~(<<m, n>> \in Less)
  BY LessIsWellFounded, WFMin
<1>2. PICK n \in T : \A m \in T : ~(<<m, n>> \in Less)
  BY <1>1
<1>3. ASSUME NEW m \in T PROVE n <= m
  <2>1. n \in Nat /\ m \in Nat /\ ~(<<m, n>> \in Less)
    BY <1>2
  <2>2. ~(m < n)
    BY <2>1 DEF Less
  <2> QED
    BY <2>1, <2>2
<1> QED
  BY <1>3

LEMMA FreeNumber ==
  ASSUME index \in Numbers, Chosen # None
  PROVE  Chosen \in Numbers /\ Chosen \notin files
<1> DEFINE free == {d \in Numbers : (index + d) % FileNumbers \notin files}
           n == CHOOSE d \in free : \A e \in free : d <= e
<1>1. free # {} /\ Chosen = (index + n) % FileNumbers
  BY DEF Chosen
<1>2. free \subseteq Nat
  BY DEF Numbers
<1>3. n \in free
  <2>1. \E d \in free : \A e \in free : d <= e
    BY <1>1, <1>2, LeastNumber
  <2> QED
    BY <2>1
<1> HIDE DEF n
<1>4. n \in Nat /\ index \in Nat /\ (index + n) % FileNumbers \notin files
  <2>1. n \in Numbers /\ (index + n) % FileNumbers \notin files
    BY <1>3
  <2> QED
    BY <2>1 DEF Numbers
<1>5. (index + n) % FileNumbers \in Numbers
  BY <1>4, DvrAssumption DEF Numbers
<1> QED
  BY <1>1, <1>4, <1>5

(* One that was taken by mistake is not.                                   *)
LEMMA MistakenNumber ==
  ASSUME index \in Numbers, NEW n \in Mistaken
  PROVE  n \in Numbers /\ n \in files
<1>1. PICK d \in Numbers : n = (index + d) % FileNumbers /\ \A e \in 0..d : (index + e) % FileNumbers \in files
  BY DEF Mistaken
<1>2. d \in Nat /\ index \in Nat /\ d \in 0..d
  BY <1>1 DEF Numbers
<1>3. n \in files
  BY <1>1, <1>2
<1>4. (index + d) % FileNumbers \in Numbers
  BY <1>2, DvrAssumption DEF Numbers
<1> QED
  BY <1>1, <1>3, <1>4

LEMMA HighestNumber ==
  ASSUME NEW S, S \subseteq Numbers, S # {}
  PROVE  MaxOf(S) \in S
<1> DEFINE T == {FileNumbers - i : i \in S}
<1>1. S \subseteq Nat /\ T \subseteq Nat /\ T # {} /\ FileNumbers \in Nat
  <2>1. \A i \in S : i \in Nat /\ FileNumbers - i \in Nat
    BY DvrAssumption DEF Numbers
  <2> QED
    BY <2>1, DvrAssumption
<1>2. PICK n \in T : \A m \in T : n <= m
  BY <1>1, LeastNumber
<1>3. PICK i \in S : n = FileNumbers - i
  BY <1>2
<1>4. ASSUME NEW j \in S PROVE j <= i
  <2>1. FileNumbers - i <= FileNumbers - j
    BY <1>2, <1>3
  <2> QED
    BY <2>1, <1>1
<1> QED
  BY <1>4 DEF MaxOf

LEMMA NextNumber == ASSUME NEW n \in Numbers PROVE (n + 1) % FileNumbers \in Numbers
BY DvrAssumption DEF Numbers

LEMMA NumbersAreNumbers == \A n \in Numbers : n \in Nat /\ n # None
BY DvrAssumption DEF Numbers, None
-----------------------------------------------------------------------------
LEMMA Initially == ASSUME Init PROVE DvrInv
<1> USE DvrAssumption
<1>1. finished \subseteq Numbers => FinalIndex(finished) \in Numbers
  <2>1. SUFFICES ASSUME finished \subseteq Numbers, finished # {} PROVE FinalIndex(finished) \in Numbers
    BY DEF FinalIndex, Numbers
  <2> QED
    BY <2>1, HighestNumber, NextNumber DEF FinalIndex
<1>2. DvrTypes
  BY <1>1 DEF Init, DvrTypes, Places, Low, Numbers
<1>3. KeyInv /\ Calls /\ FileInv
  BY DEF Init, KeyInv, Calls, FileInv
<1>4. SaveInv
  BY DEF Init, SaveInv
<1> QED
  BY <1>2, <1>3, <1>4 DEF DvrInv

(* One press, one action: the scan counts, a new press starts again.       *)
LEMMA KeyStep == ASSUME DvrTypes, KeyInv, [Next]_vars PROVE KeyInv'
<1>1. CASE Key
  BY <1>1 DEF Key, Press, Release, KeyInv
<1>2. CASE ScanKey
  BY <1>2 DEF ScanKey, Scan, KeyInv
<1>3. CASE ~Key /\ ~ScanKey
  <2>1. UNCHANGED <<pressed, hold, acts>>
    BY <1>3 DEF Next, Loop, vars, keyVars, Record, VidStop, VidStart, VidOpen, Started, HandleKey, Blink,
       CheckUsb, UsbMode, Save, Idle, PowerOff, Cable, EncoderAsks, CardFull, Tick
  <2> QED
    BY <2>1 DEF KeyInv
<1> QED
  BY <1>1, <1>2, <1>3

LEMMA TypeStep == ASSUME DvrTypes, Calls, [Next]_vars PROVE DvrTypes'
<1> USE DEF DvrTypes
<1>1. ASSUME Loop PROVE DvrTypes'
  <2>1. CASE ScanKey
    BY <2>1 DEF ScanKey, Scan, Goto, Places, isrVars, saveVars, fileVars, usbVars
  <2>2. CASE Record
    BY <2>2 DEF Record, Goto, StopThen, Places, keyVars, isrVars, saveVars, fileVars, usbVars
  <2>3. CASE VidStop
    <3>1. pc' \in {"start", "usb?", "off", "usb"}
      BY <2>3 DEF VidStop, Goto, StartThen, Calls
    <3>2. pc' \in Places
      BY <3>1 DEF Places
    <3>3. UNCHANGED <<mode, keyVars, isrVars, saveVars, usbVars, idle, index>> /\ recording' = FALSE /\ started' = 0
      BY <2>3 DEF VidStop, Finish
    <3> QED
      BY <3>2, <3>3 DEF keyVars, isrVars, saveVars, usbVars
  <2>4. CASE VidStart
    BY <2>4 DEF VidStart, Goto, Places, keyVars, isrVars, fileVars, usbVars
  <2>5. CASE VidOpen
    <3>1. pc' \in {"key", "started", "usb?"} /\ mode' \in {mode, "photo"}
      BY <2>5 DEF VidOpen, Goto, Calls
    <3>2. pc' \in Places /\ mode' \in {"avi", "photo"}
      BY <3>1 DEF Places
    <3>3. index' \in Numbers
      <4>1. \A n \in {Chosen} \cup Mistaken : n # None => n \in Numbers
        BY FreeNumber, MistakenNumber
      <4>2. index' = index \/ \E n \in Numbers : index' = (n + 1) % FileNumbers
        BY <2>5, <4>1 DEF VidOpen, fileVars
      <4> QED
        BY <4>2, NextNumber
    <3>4. recording' \in BOOLEAN /\ started' \in Nat
      BY <2>5 DEF VidOpen, fileVars
    <3>5. UNCHANGED <<keyVars, isrVars, saveVars, usbVars, idle>>
      BY <2>5 DEF VidOpen
    <3> QED
      BY <3>2, <3>3, <3>4, <3>5 DEF keyVars, isrVars, saveVars, usbVars
  <2>6. CASE Started
    BY <2>6 DEF Started, Goto, Places, keyVars, isrVars, saveVars, fileVars, usbVars
  <2>7. CASE HandleKey
    <3>1. pc' \in {"usb?", "stop", "blink", "off"} /\ mode' \in {mode, "photo"} /\ idle' \in {idle, 0} /\ code' = 0
      BY <2>7 DEF HandleKey, Goto, StopThen
    <3>2. pc' \in Places
      BY <3>1 DEF Places
    <3>3. UNCHANGED <<recording, isrVars, saveVars, fileVars, usbVars>>
      BY <2>7 DEF HandleKey
    <3> QED
      BY <3>1, <3>2, <3>3 DEF keyVars, isrVars, saveVars, fileVars, usbVars
  <2>8. CASE Blink
    BY <2>8 DEF Blink, Goto, StartThen, Places, keyVars, isrVars, saveVars, fileVars, usbVars
  <2>9. CASE CheckUsb
    BY <2>9 DEF CheckUsb, Goto, StopThen, Places, keyVars, isrVars, saveVars, fileVars, usbVars
  <2>10. CASE UsbMode
    BY <2>10 DEF UsbMode, Goto, Places, keyVars, isrVars, saveVars, fileVars, usbVars
  <2>11. CASE Save
    <3>1. pc' \in Places /\ pace' = 0
      BY <2>11 DEF Save, Goto, Places
    <3>2. /\ lvd_bak' \in {lvd_bak, lvd_bak + Period} /\ lvd_cnt' \in {lvd_cnt, lvd_cnt + 1, 0}
          /\ sizeOver' \in {sizeOver, TRUE} /\ marked' \in {marked, 0}
      BY <2>11 DEF Save
    <3>5. lvd_bak' \in Nat /\ lvd_cnt' \in Nat /\ marked' \in Nat
      BY <3>2, DvrAssumption
    <3>6. sizeOver' \in BOOLEAN
      BY <3>2
    <3>3. lvd_flag' \in {lvd_flag, 1}
      BY <2>11 DEF Save
    <3>4. UNCHANGED <<mode, recording, keyVars, voltage_status, clock, fileVars, usbVars, idle>>
      BY <2>11 DEF Save
    <3> QED
      BY <3>1, <3>3, <3>4, <3>5, <3>6 DEF keyVars, fileVars, usbVars
  <2>12. CASE Idle
    <3>1. idle' \in Nat
      BY <2>12 DEF Idle
    <3>5. idle' >= IdleSleep \/ idle' < IdleSleep
      BY <3>1, DvrAssumption
    <3>2. pc' \in {"scan", "stop", "off"} /\ mode' \in {mode, "photo"}
      BY <2>12, <3>5, Zenon DEF Idle, Goto, StopThen
    <3>3. pc' \in Places
      BY <3>2 DEF Places
    <3>4. UNCHANGED <<recording, keyVars, isrVars, saveVars, fileVars, usbVars>>
      BY <2>12 DEF Idle
    <3> QED
      BY <3>1, <3>2, <3>3, <3>4 DEF keyVars, isrVars, saveVars, fileVars, usbVars
  <2> QED
    BY <1>1, <2>1, <2>2, <2>3, <2>4, <2>5, <2>6, <2>7, <2>8, <2>9, <2>10, <2>11, <2>12 DEF Loop
<1>2. CASE PowerOff
  BY <1>2 DEF PowerOff, Goto, Places, keyVars, isrVars, saveVars, fileVars, usbVars
<1>3. CASE Key \/ Cable
  BY <1>3, ZenonT(60) DEF Key, Press, Release, Cable, keyVars, isrVars, saveVars, fileVars, usbVars
<1>4. CASE EncoderAsks
  BY <1>4 DEF EncoderAsks, keyVars, isrVars, fileVars, usbVars
<1>7. CASE CardFull
  BY <1>7 DEF CardFull, Finish, keyVars, isrVars, saveVars, usbVars
<1>5. CASE Tick
  BY <1>5 DEF Tick, Low, keyVars, saveVars, fileVars, usbVars
<1>6. CASE UNCHANGED vars
  BY <1>6 DEF vars, keyVars, isrVars, saveVars, fileVars, usbVars
<1> QED
  BY <1>1, <1>2, <1>3, <1>4, <1>5, <1>6, <1>7 DEF Next

(* When the loop is where.  C_IDLE_SLEEP is more than one pass, so that a  *)
(* recording is not cut off by the sleep counter it resets.                *)
LEMMA CallStep == ASSUME DvrTypes, Calls, [Next]_vars PROVE Calls'
<1> USE DEF DvrTypes, Calls
<1>1. ASSUME Loop PROVE Calls'
  <2>1. CASE ScanKey
    BY <2>1 DEF ScanKey, Goto, usbVars
  <2>2. CASE Record
    BY <2>2 DEF Record, Goto, StopThen, usbVars
  <2>3. CASE VidStop
    BY <2>3 DEF VidStop, Finish, Goto, StartThen, usbVars
  <2>4. CASE VidStart
    BY <2>4 DEF VidStart, Goto, usbVars
  <2>5. CASE VidOpen
    BY <2>5 DEF VidOpen, Goto, usbVars
  <2>6. CASE Started
    BY <2>6 DEF Started, Goto, usbVars
  <2>7. CASE HandleKey
    BY <2>7 DEF HandleKey, Goto, StopThen, usbVars
  <2>8. CASE Blink
    BY <2>8 DEF Blink, Goto, StartThen, usbVars
  <2>9. CASE CheckUsb
    BY <2>9 DEF CheckUsb, PlugStops, Goto, StopThen, usbVars
  <2>10. CASE UsbMode
    BY <2>10 DEF UsbMode, Goto, usbVars
  <2>11. CASE Save
    BY <2>11 DEF Save, Goto, usbVars
  <2>12. CASE Idle
    <3>1. idle' \in Nat /\ (mode = "avi" /\ recording => ~(idle' >= IdleSleep))
      BY <2>12, DvrAssumption DEF Idle
    <3>4. idle' >= IdleSleep \/ idle' < IdleSleep
      BY <3>1, DvrAssumption
    <3>2. pc' \in {"scan", "stop", "off"} /\ (pc' = "stop" => back' = "off")
      BY <2>12, <3>4, Zenon DEF Idle, Goto, StopThen
    <3>5. recording => mode = "avi"
      BY <2>12 DEF Idle
    <3>3. recording => pc' # "off" /\ (pc' = "stop" \/ mode' = "avi")
      BY <2>12, <3>1, <3>4, <3>5, Zenon DEF Idle, Goto, StopThen
    <3> QED
      BY <2>12, <3>2, <3>3, <3>5 DEF Idle, usbVars
  <2> QED
    BY <1>1, <2>1, <2>2, <2>3, <2>4, <2>5, <2>6, <2>7, <2>8, <2>9, <2>10, <2>11, <2>12 DEF Loop
<1>2. CASE PowerOff
  BY <1>2 DEF PowerOff, Goto, usbVars
<1>3. CASE Key \/ Cable
  BY <1>3 DEF Key, Cable, usbVars
<1>4. CASE EncoderAsks \/ CardFull
  BY <1>4 DEF EncoderAsks, CardFull, Finish, usbVars
<1>5. CASE Tick
  BY <1>5 DEF Tick, usbVars
<1>6. CASE UNCHANGED vars
  BY <1>6 DEF vars, usbVars
<1> QED
  BY <1>1, <1>2, <1>3, <1>4, <1>5, <1>6 DEF Next

(* Only three actions touch the files.                                     *)
LEMMA FilesUntouched ==
  ASSUME [Next]_vars, ~VidStop, ~VidOpen, ~CardFull
  PROVE  UNCHANGED <<recording, files, index, current, finished, started>>
BY DEF Next, Loop, vars, ScanKey, Record, VidStart, Started, HandleKey, Blink, CheckUsb, UsbMode, Save, Idle,
   PowerOff, Key, Cable, EncoderAsks, Tick, fileVars

LEMMA FileStep ==
  ASSUME DvrTypes, Calls, FileInv, [Next]_vars
  PROVE  /\ FileInv'
         /\ finished \subseteq finished' \/ (pc = "open" /\ misled')
         /\ \A m, n \in finished \ finished' : m = n
<1>1. CASE VidStop \/ CardFull
  BY <1>1 DEF VidStop, CardFull, Finish, FileInv, DvrTypes
<1>2. CASE VidOpen
  <2>1. recording = FALSE
    BY <1>2 DEF VidOpen, Calls, DvrTypes
  <2>2. finished \subseteq files /\ current = None /\ pc = "open"
    BY <1>2, <2>1 DEF VidOpen, FileInv
  <2>3. CASE UNCHANGED <<recording, fileVars>>
    BY <2>1, <2>2, <2>3 DEF FileInv, fileVars
  <2>4. ASSUME NEW n \in {Chosen} \cup Mistaken, n # None, misled' = (n # Chosen),
               \/ /\ files' = files \cup {n} /\ finished' = finished \ {n}
                  /\ recording' = TRUE /\ current' = n
               \/ files' = files \ {n} /\ finished' = finished \ {n} /\ UNCHANGED <<recording, current>>
               \/ UNCHANGED <<files, finished, recording, current>>
        PROVE  /\ FileInv' /\ (finished \subseteq finished' \/ misled')
               /\ \A k, m \in finished \ finished' : k = m
    <3>1. finished' = finished \ {n} \/ finished' = finished
      BY <2>4
    <3>2. FileInv'
      BY <2>1, <2>2, <2>4 DEF FileInv
    <3>3. n = Chosen => n \notin finished
      BY <2>2, <2>4, FreeNumber DEF DvrTypes
    <3> QED
      BY <2>4, <3>1, <3>2, <3>3
  <2> QED
    BY <1>2, <2>1, <2>2, <2>3, <2>4 DEF VidOpen
<1>3. CASE ~VidStop /\ ~VidOpen /\ ~CardFull
  BY <1>3, FilesUntouched DEF FileInv, fileVars
<1> QED
  BY <1>1, <1>2, <1>3

(* The clock of the save: Save looks at it, the interrupt moves it on.     *)
LEMMA SaveStep == ASSUME DvrTypes, Calls, SaveInv, [Next]_vars PROVE SaveInv'
<1> USE DvrAssumption DEF DvrTypes, SaveInv
<1>1. CASE VidStop \/ CardFull
  BY <1>1 DEF VidStop, CardFull, Finish, Goto, StartThen, Calls, isrVars, saveVars
<1>2. CASE VidStart
  BY <1>2 DEF VidStart, Goto, Calls, isrVars, fileVars
<1>3. CASE VidOpen
  <2>1. UNCHANGED <<pace, clock, marked, lvd_flag, lvd_cnt, lvd_bak, sizeOver>>
    BY <1>3 DEF VidOpen, isrVars, saveVars
  <2>2. recording = FALSE /\ pc = "open" /\ pc' # "open"
    BY <1>3 DEF VidOpen, Calls, Goto
  <2>3. recording' => started' = lvd_bak
    BY <1>3, <2>2 DEF VidOpen
  <2>4. lvd_cnt = 0 /\ lvd_bak = lvd_bak + lvd_cnt * Period
    BY <2>2
  <2> QED
    BY <2>1, <2>2, <2>3, <2>4
<1>4. CASE Started
  BY <1>4 DEF Started, Goto, Low, saveVars, fileVars
<1>5. CASE Save
  <2>1. pace' = 0 /\ pc' = "idle" /\ UNCHANGED <<recording, clock, started, mode>>
    BY <1>5 DEF Save, Goto, fileVars
  <2>2. recording => mode = "avi"
    BY <1>5 DEF Save, Calls
  <2>3. CASE recording /\ clock >= lvd_bak + Period
    <3>1. lvd_bak' = lvd_bak + Period
      BY <1>5, <2>2, <2>3 DEF Save
    <3>2. lvd_bak' <= clock /\ clock < lvd_bak' + Period
      BY <2>3, <3>1
    <3>3. CASE SaveDue
      BY <1>5, <2>1, <2>2, <2>3, <3>1, <3>2, <3>3 DEF Save
    <3>4. CASE ~SaveDue
      <4>1. lvd_cnt' = lvd_cnt + 1 /\ UNCHANGED <<sizeOver, lvd_flag, marked>>
        BY <1>5, <2>2, <2>3, <3>4 DEF Save
      <4>2. lvd_flag # Low /\ lvd_cnt + 1 < SavePeriods
        BY <3>4 DEF SaveDue
      <4>3. (lvd_cnt + 1) * Period = lvd_cnt * Period + Period /\ lvd_cnt * Period \in Nat
        OBVIOUS
      <4> QED
        BY <2>1, <3>1, <3>2, <4>1, <4>2, <4>3
    <3> QED
      BY <3>3, <3>4
  <2>4. CASE ~(recording /\ clock >= lvd_bak + Period)
    <3>1. UNCHANGED <<lvd_bak, lvd_cnt, sizeOver, lvd_flag, marked>>
      BY <1>5, <2>4 DEF Save
    <3> QED
      BY <2>1, <2>4, <3>1
  <2> QED
    BY <2>3, <2>4
<1>6. CASE Tick
  <2>1. clock' = clock + 1 /\ pace' = pace + 1 /\ pace + 1 < Period
    BY <1>6 DEF Tick
  <2>2. UNCHANGED <<pc, recording, started, sizeOver, lvd_cnt, lvd_bak>>
    BY <1>6 DEF Tick, saveVars, fileVars
  <2>3. lvd_flag' = Low => (lvd_flag = Low /\ marked' = marked) \/ marked' = clock'
    BY <1>6 DEF Tick
  <2> QED
    BY <2>1, <2>2, <2>3
<1>7. CASE EncoderAsks
  BY <1>7 DEF EncoderAsks, isrVars, fileVars
<1>8. CASE UNCHANGED vars
  BY <1>8 DEF vars, isrVars, saveVars, fileVars
<1>9. CASE \/ ScanKey \/ Record \/ HandleKey \/ Blink \/ CheckUsb \/ UsbMode \/ Idle \/ PowerOff \/ Key \/ Cable
  <2>1. UNCHANGED <<recording, isrVars, saveVars, started>>
    BY <1>9 DEF ScanKey, Record, HandleKey, Blink, CheckUsb, UsbMode, Idle, PowerOff, Key, Cable, fileVars
  <2>2. pc' = "open" => pc = "open"
    <3>1. ScanKey \/ Record \/ Blink \/ UsbMode \/ PowerOff \/ Key \/ Cable => pc' # "open" \/ pc = "open"
      BY DEF ScanKey, Record, Blink, UsbMode, PowerOff, Key, Cable, Goto, StopThen, StartThen
    <3>2. HandleKey \/ CheckUsb => pc' # "open"
      BY DEF HandleKey, CheckUsb, Goto, StopThen
    <3>3. ASSUME Idle PROVE pc' # "open"
      <4>1. idle' \in Nat
        BY <3>3 DEF Idle
      <4>2. idle' >= IdleSleep \/ idle' < IdleSleep
        BY <4>1
      <4> QED
        BY <3>3, <4>2, Zenon DEF Idle, Goto, StopThen
    <3> QED
      BY <1>9, <3>1, <3>2, <3>3
  <2> QED
    BY <2>1, <2>2 DEF isrVars, saveVars
<1> QED
  BY <1>1, <1>2, <1>3, <1>4, <1>5, <1>6, <1>7, <1>8, <1>9 DEF Next, Loop

LEMMA DvrStep == ASSUME DvrInv, [Next]_vars PROVE DvrInv'
BY TypeStep, KeyStep, CallStep, FileStep, SaveStep DEF DvrInv

LEMMA DvrInvariant == Spec => []DvrInv
<1>1. Init => DvrInv
  BY Initially
<1>2. DvrInv /\ [Next]_vars => DvrInv'
  BY DvrStep
<1> QED
  BY <1>1, <1>2, PTL DEF Spec
-----------------------------------------------------------------------------
(* For every length of a long press, one press of the key sets off at most *)
(* one action, whenever the loop looks at it (function_key_scan).          *)
THEOREM OneActionAlways == Spec => []OneActionPerPress
<1>1. DvrInv => OneActionPerPress
  BY DEF DvrInv, KeyInv, OneActionPerPress
<1> QED
  BY <1>1, DvrInvariant, PTL

(* On every way to power-off and to the USB mode a recording has been      *)
(* ended first, unless the cable was pulled with USB disabled.             *)
THEOREM OffAlwaysClean == Spec => []OffIsClean
<1>1. DvrInv => OffIsClean
  BY DEF DvrInv, Calls, FileInv, OffIsClean
<1> QED
  BY <1>1, DvrInvariant, PTL

(* For every number of file numbers and every card, a finished recording   *)
(* is never overwritten or removed (open_avi_file_handle), except by a     *)
(* start whose search ended with an error of the card: it costs one.       *)
THEOREM FinishedAlwaysStays == Spec => FinishedStays
<1>1. DvrInv /\ [Next]_vars => [/\ finished \subseteq finished' \/ (pc = "open" /\ misled')
                                /\ \A m, n \in finished \ finished' : m = n]_vars
  BY FileStep DEF DvrInv
<1> QED
  BY <1>1, DvrInvariant, PTL DEF Spec, FinishedStays

(* For every period and every number of periods, a recording is cut at the *)
(* latest 30 minutes after its start, and one of 5 minutes within 5        *)
(* minutes of a low battery, if a pass of the loop takes less than that.   *)
THEOREM AlwaysSavedInTime == Spec => []SavedInTime
<1>1. DvrInv => SavedInTime
  <2>1. SUFFICES ASSUME DvrInv, pc = "idle", recording, ~sizeOver
                 PROVE  /\ clock - pace - started < SavePeriods * Period
                        /\ lvd_flag = Low => clock - pace - Later(started, marked) < Period
    BY DEF SavedInTime
  <2> USE DvrAssumption
  <2>2. /\ lvd_bak = started + lvd_cnt * Period /\ clock - pace < lvd_bak + Period
        /\ lvd_flag = Low => lvd_bak = started \/ lvd_bak <= marked
        /\ lvd_cnt < SavePeriods
    BY <2>1 DEF DvrInv, SaveInv
  <2>3. /\ clock \in Nat /\ pace \in Nat /\ started \in Nat /\ marked \in Nat /\ lvd_cnt \in Nat
        /\ lvd_bak \in Nat
    BY <2>1 DEF DvrInv, DvrTypes
  <2>4. lvd_cnt * Period + Period <= SavePeriods * Period
    <3>1. \A k \in Nat : (lvd_cnt + 1 + k) * Period = lvd_cnt * Period + Period + k * Period /\ k * Period \in Nat
      BY <2>3
    <3>2. SavePeriods - (lvd_cnt + 1) \in Nat /\ SavePeriods = lvd_cnt + 1 + (SavePeriods - (lvd_cnt + 1))
      BY <2>2, <2>3
    <3> QED
      BY <2>3, <3>1, <3>2
  <2>5. lvd_cnt * Period \in Nat /\ SavePeriods * Period \in Nat
    BY <2>3
  <2> QED
    BY <2>2, <2>3, <2>4, <2>5 DEF Later
<1> QED
  BY <1>1, DvrInvariant, PTL
=============================================================================
