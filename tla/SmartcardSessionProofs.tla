------------------------- MODULE SmartcardSessionProofs -------------------------
(***************************************************************************)
(* Proofs about SmartcardSession, for any number of cards and users, any   *)
(* debouncing delay and any number of PIN tries.                           *)
(*                                                                         *)
(* Base is inductive whatever tick comes when.  Session is inductive with  *)
(* it until a tick changes card_return between the reading of it and the   *)
(* critical section that acknowledges it (preempted # 0), which is where   *)
(* the code itself goes wrong.                                             *)
(***************************************************************************)
EXTENDS SmartcardSession, TLAPS

\* The goals that ask for the card of the user who is logged in.
Reauths == {"change_pin", "clone", "erase", "mmm"}

\* From the power-up of the slot to the flag.
Unlocking == {"detect", "powered", "classify", "cpz", "pin", "wait_removal", "add_user",
              "read_key", "unlock"}

\* Steps a poll of the main loop may come between.
Looping == {"loop", "gui", "comms", "poll", "ack"}

Menus == {"MAIN_MENU", "OPERATIONS", "MEMORY_MGMT"}

\* The main loop is about to see that the card has left.
ReleaseRead == pc = "loop" /\ result = "JRELEASED"
Released == cardReturn = "JRELEASED" \/ ReleaseRead

\* The card has left and the next tick will see it.
Leaving == card = {} /\ counter # 0

\* There is at most one card in the slot.
OneCard == \A c, d \in card : c = d

\* The steps of each goal, and when a step that polls waits for a card.
Route ==
  /\ waitFor # "any" => pc \in {"poll", "ack"} /\ goal \in {"clone_target", "erase_other"}
  /\ pc = "ack" => copy \in {"JDETECT", "JRELEASED"}
  /\ pc = "reauth" => goal \in Reauths
  /\ pc \in {"detect", "powered", "classify"} => goal # "unknown"
  /\ pc \in {"cpz", "pin", "wait_removal", "read_key", "unlock"} => goal # "clone_target"
  /\ pc = "cpz" => goal # "unknown"
  /\ pc = "add_user" => goal = "unknown"
  /\ pc = "compare" => goal \in Reauths \cup {"erase_other", "unknown"}
  /\ pc = "clone_check" => goal = "clone"
  /\ pc \in {"clone_write", "clone_unlock"} => goal = "clone_target"
  /\ pc = "erase" => goal = "erase"
  /\ pc \in {"erase_cards", "erase_lut"} => goal \in {"erase", "erase_other"}

\* A detection that was reported stays known until a removal is reported.
Debouncer ==
  /\ cardReturn \in {"DET", "JDETECT"} => counter = Debounce + 1
  /\ pc = "ack" => copy = cardReturn
  /\ told => cardReturn \in {"DET", "JRELEASED"}

\* Without a card that was reported the device is locked and shows it.
Locked == ~unlocked /\ ~mmm /\ ~toLogOff /\ screen = "NINSERTED" /\ pc \in Looping
Believed ==
  /\ told \/ ReleaseRead \/ waitFor = "JDETECT" \/ Locked
  /\ pc = "loop" /\ result = "JDETECT" => told

\* The interrupt cuts the power of a slot that has it ...
SlotPower == slotOn => cardPowered \/ pc = "powered"

\* ... and clears the flags with it, so that it must see the slot as powered.
CardPower ==
  /\ unlocked => cardPowered \/ Released \/ waitFor # "any" \/ pc \in {"detect", "powered"}
  /\ pc \in (Unlocking \ {"detect", "powered"}) \cup {"clone_write", "clone_unlock"} =>
       cardPowered \/ cardReturn = "JRELEASED"

\* What the slot has when the menus or the host may ask for the card again.
Powered ==
  /\ \/ screen \in Menus \/ unlocked
     \/ pc \in Unlocking \cup {"reauth", "clone_write", "clone_unlock"}
  /\ pc # "detect"
  /\ waitFor = "any"
  => slotOn \/ Released \/ Leaving

\* A card that was not out since it was reported is the one the goal is about.
SameCard ==
  goal \in Reauths /\ pc \in Unlocking \cup {"compare"} /\ cardReturn = "DET" =>
    /\ \A c \in card : owner[c] = cpz
    /\ pc # "detect" => slotOn

\* The operations of the menus leave its screen when they end.
Operating ==
  \/ /\ goal \in Reauths \ {"mmm"}
     /\ pc \in Unlocking \cup {"reauth", "compare", "clone_check", "erase", "erase_cards",
                             "erase_lut"}
  \/ /\ goal \in {"clone_target", "erase_other"}
     /\ \/ waitFor # "any"
        \/ pc \in Unlocking \cup {"compare", "clone_write", "clone_unlock", "erase_cards",
                                "erase_lut"}
Operations == Operating => screen = "OPERATIONS"

\* The locked screen, and the steps before the flag is set.
LockScreen ==
  unlocked /\ screen = "INSERTED_LCK" /\ pc \notin {"reauth", "compare", "set_mmm"} =>
    \/ Leaving /\ cardPowered
    \/ pc \in {"comms", "poll", "ack"} /\ cardReturn = "JRELEASED"
    \/ ReleaseRead
LockedSteps ==
  /\ pc = "loop" /\ result = "JDETECT" => ~unlocked /\ ~mmm
  /\ goal \in Reauths \cup {"insert"} /\ pc \in Unlocking => ~unlocked
  /\ goal = "click" /\ pc \in Unlocking /\ unlocked => Leaving /\ cardPowered

\* Management mode.
Managing ==
  /\ mmm =>
       /\ screen = "MEMORY_MGMT" /\ waitFor = "any"
       /\ pc \in Looping \cup {"reauth", "set_mmm"}
       /\ unlocked \/ (pc \in {"poll", "ack"} /\ cardReturn = "JRELEASED") \/ ReleaseRead
  /\ pc \in {"compare", "set_mmm"} => unlocked \/ cardReturn = "JRELEASED"

\* The card that the PIN is asked for stays the one that was read.
AskedFor == IF goal = "unknown" /\ pc # "read_key" THEN cpz ELSE curUser
PinPhase ==
  pc \in {"pin", "wait_removal", "add_user", "read_key"} =>
    /\ card = {} /\ counter = 0 => ~slotOn
    /\ slotOn => \A c \in card : owner[c] = AskedFor
    /\ goal # "unknown" => curUser \in lut
    /\ goal = "unknown" /\ pc # "read_key" => cpz \in Users
Tries ==
  /\ pc = "pin" /\ slotOn => \A c \in card : warned <=> tries[c] = 1
  /\ \A c \in Cards : tries[c] = 1 => c \in pulled \/ (pc = "wait_removal" /\ c \in card)

\* The user the main thread works for is in the table.
Served ==
  \/ pc \in {"unlock", "compare", "clone_check", "clone_write", "clone_unlock"}
  \/ goal = "clone_target" /\ (waitFor # "any" \/ pc \in {"detect", "powered", "classify"})
InTable == unlocked \/ Served \/ pc = "read_key" => curUser \in lut

\* The key is that of the user.
Fits == key \in Users => key = curUser
Keys ==
  /\ Served => Fits
  /\ unlocked /\ ~Fits =>
       \/ goal = "unknown" /\ pc = "read_key"
       \/ /\ goal = "erase_other"
          /\ \/ waitFor # "any"
             \/ pc \in Unlocking \cup {"compare", "erase_cards", "erase_lut"}

\* TypeOK in three parts: what the main thread does, what it shares with the interrupt,
\* and the rest.
TypeMain == pc \in Steps /\ goal \in Goals /\ screen \in Screens
TypeSession ==
  /\ slotOn \in BOOLEAN /\ authed \in BOOLEAN /\ unlocked \in BOOLEAN /\ mmm \in BOOLEAN
  /\ key \in Users \cup {Nobody, Garbage}
TypeRest ==
  /\ card \in SUBSET Cards /\ counter \in 0..(Debounce + 1)
  /\ cardReturn \in Detections /\ result \in Detections /\ copy \in Detections
  /\ cardPowered \in BOOLEAN /\ warned \in BOOLEAN
  /\ toLogOff \in BOOLEAN /\ told \in BOOLEAN
  /\ owner \in [Cards -> Users \cup {Nobody}] /\ tries \in [Cards -> 0..MaxTries]
  /\ lut \in SUBSET Users /\ curUser \in Users \cup {Nobody} /\ cpz \in Users \cup {Nobody}
  /\ waitFor \in {"any", "JRELEASED", "JDETECT"}
  /\ pulled \in SUBSET Cards /\ preempted \in 0..MaxPreempted

\* What holds whatever tick comes when.
Base == TypeOK /\ OneCard /\ Route /\ SlotPower /\ PinPhase /\ Tries /\ InTable

\* What holds until a tick comes between the reading of card_return and its critical
\* section.
Session ==
  /\ Debouncer /\ Believed /\ CardPower /\ Powered /\ SameCard
  /\ Operations /\ LockScreen /\ LockedSteps /\ Managing /\ Keys

-----------------------------------------------------------------------------
(* What holds whatever tick comes when: one action at a time.               *)

\* The card in the slot is the one that is read.
LEMMA CardInIs ==
  ASSUME NEW c \in card, OneCard
  PROVE  CardIn = c
BY DEF CardIn, OneCard

LEMMA TypeParts == TypeOK <=> TypeMain /\ TypeSession /\ TypeRest
BY DEF TypeOK, TypeMain, TypeSession, TypeRest

LEMMA TypePartsNext == TypeMain' /\ TypeSession' /\ TypeRest' => TypeOK'
BY DEF TypeOK, TypeMain, TypeSession, TypeRest

USE DEF slot, cards, flags, context, locals, SessionFrame, MainFrame, UnlockFrame,
        WaitFrame, KeepSession, HandleRemoved, CutPower, ClearSecurityBools, Reauths,
        Unlocking, Looping, Menus, ReleaseRead, Released, Leaving

LEMMA OwnerReadTyped ==
  ASSUME TypeOK, OneCard
  PROVE  OwnerRead \in Users \cup {Nobody}
<1>1. CASE Readable
  <2>1. PICK c \in card : CardIn = c
    BY <1>1, CardInIs DEF Readable
  <2> QED BY <1>1, <2>1 DEF OwnerRead, TypeOK
<1>2. CASE ~Readable
  BY <1>2 DEF OwnerRead
<1> QED BY <1>1, <1>2

LEMMA WipedTyped ==
  ASSUME TypeOK
  PROVE  Wiped \in [Cards -> Users \cup {Nobody}]
<1>1. owner \in [Cards -> Users \cup {Nobody}]
  BY DEF TypeOK
<1> QED BY <1>1 DEF Wiped

LEMMA ReadCpzReads ==
  ASSUME TypeOK, OneCard, ReadCpz
  PROVE  /\ curUser' \in Users \cup {Nobody} /\ warned' \in BOOLEAN
         /\ UNCHANGED <<card, counter, cardReturn, cardPowered, owner, tries, lut, pulled,
                        goal, cpz, result, copy, waitFor, toLogOff, told, preempted>>
<1>1. curUser' \in Users \cup {Nobody} /\ warned' \in BOOLEAN
  BY OwnerReadTyped DEF ReadCpz, TypeOK
<1> QED BY <1>1 DEF ReadCpz, UnlockFrame

LEMMA RemoveCardTyped ==
  ASSUME TypeOK, RemoveCard
  PROVE  TypeOK'
<1>1. card' \in SUBSET Cards /\ pulled' \in SUBSET Cards /\ authed' \in BOOLEAN
  BY DEF TypeOK, RemoveCard
<1> QED BY <1>1 DEF TypeOK, RemoveCard, flags, context, locals, cards

LEMMA TickTyped ==
  ASSUME TypeOK, Tick
  PROVE  TypeOK'
<1>1. counter' \in 0 .. Debounce + 1
  BY BoundsAssumption DEF TypeOK, Tick, TickPresent, TickAbsent, Count
<1>2. cardReturn' \in Detections
  BY DEF TypeOK, Tick, TickPresent, TickAbsent, WithoutCard, Detections
<1>3. /\ cardPowered' \in BOOLEAN /\ slotOn' \in BOOLEAN /\ authed' \in BOOLEAN
      /\ unlocked' \in BOOLEAN /\ mmm' \in BOOLEAN
  BY DEF TypeOK, Tick, TickPresent, TickAbsent, CutPower, ClearSecurityBools, flags
<1>4. preempted' \in 0 .. MaxPreempted
  BY BoundsAssumption DEF TypeOK, Tick
<1>5. UNCHANGED <<card, cards, context, screen, pc, locals>>
  BY DEF Tick
<1> QED BY <1>1, <1>2, <1>3, <1>4, <1>5 DEF TypeOK, cards, context, locals

LEMMA ReauthTyped ==
  ASSUME TypeOK, OneCard, Reauth
  PROVE  TypeOK'
<1>1. cpz' \in Users \cup {Nobody}
  BY OwnerReadTyped DEF Reauth
<1>2. pc' \in Steps /\ key' \in Users \cup {Nobody, Garbage}
  BY DEF Reauth, HandleRemoved, Steps
<1> QED BY <1>1, <1>2 DEF TypeOK, Reauth, HandleRemoved, CutPower, ClearSecurityBools,
   UnlockFrame

LEMMA FailTyped ==
  ASSUME TypeOK, NEW s \in Screens, Fail(s)
  PROVE  /\ pc' \in Steps /\ screen' \in Screens
         /\ slotOn' \in BOOLEAN /\ authed' \in BOOLEAN
         /\ unlocked' \in BOOLEAN /\ mmm' \in BOOLEAN
         /\ key' \in Users \cup {Nobody, Garbage}
<1>1. pc' \in Steps
  BY DEF TypeOK, Fail, Done, Steps, Goals
<1>2. screen' \in Screens
  BY DEF TypeOK, Fail, Screens
<1>3. /\ slotOn' \in BOOLEAN /\ authed' \in BOOLEAN
      /\ unlocked' \in BOOLEAN /\ mmm' \in BOOLEAN
      /\ key' \in Users \cup {Nobody, Garbage}
  BY DEF TypeOK, Fail, HandleRemoved, KeepSession, CutPower, ClearSecurityBools, flags
<1> QED BY <1>1, <1>2, <1>3

LEMMA RightPinTyped ==
  ASSUME TypeOK, RightPin
  PROVE  TypeOK'
<1>1. tries' \in [Cards -> 0 .. MaxTries]
  BY BoundsAssumption DEF TypeOK, RightPin
<1>2. /\ pc' \in Steps /\ screen' \in Screens
      /\ slotOn' \in BOOLEAN /\ authed' \in BOOLEAN
      /\ unlocked' \in BOOLEAN /\ mmm' \in BOOLEAN
      /\ key' \in Users \cup {Nobody, Garbage}
  <2>1. CASE Fail("INSERTED_INVALID")
    BY <2>1, FailTyped DEF Screens
  <2>2. CASE ~Fail("INSERTED_INVALID")
    BY <2>2 DEF TypeOK, RightPin, Steps, flags
  <2> QED BY <2>1, <2>2
<1> QED BY <1>1, <1>2 DEF TypeOK, RightPin, UnlockFrame

LEMMA WrongPinTyped ==
  ASSUME TypeOK, OneCard, WrongPin
  PROVE  TypeOK'
<1>1. tries' \in [Cards -> 0 .. MaxTries] /\ pulled' \in SUBSET Cards
  <2>1. CASE Readable /\ tries[CardIn] > 0
    <3>1. PICK c \in card : CardIn = c
      BY <2>1, CardInIs DEF Readable
    <3>2. tries[c] - 1 \in 0 .. MaxTries
      BY <2>1, <3>1, BoundsAssumption DEF TypeOK
    <3> QED BY <2>1, <3>1, <3>2 DEF TypeOK, WrongPin
  <2>2. CASE ~(Readable /\ tries[CardIn] > 0)
    BY <2>2 DEF TypeOK, WrongPin
  <2> QED BY <2>1, <2>2
<1>2. /\ pc' \in Steps /\ screen' \in Screens
      /\ slotOn' \in BOOLEAN /\ authed' \in BOOLEAN
      /\ unlocked' \in BOOLEAN /\ mmm' \in BOOLEAN
      /\ key' \in Users \cup {Nobody, Garbage}
  <2>1. CASE Fail("INSERTED_INVALID")
    BY <2>1, FailTyped DEF Screens
  <2>2. CASE ~Fail("INSERTED_INVALID")
    BY <2>2 DEF TypeOK, WrongPin, AfterWrongPin, KeepSession, Steps, flags
  <2> QED BY <2>1, <2>2
<1> QED BY <1>1, <1>2 DEF TypeOK, WrongPin

LEMMA AddUserTyped ==
  ASSUME TypeOK, Route, PinPhase, AddUser
  PROVE  TypeOK'
<1>1. lut' \in SUBSET Users /\ curUser' \in Users \cup {Nobody}
  BY DEF TypeOK, Route, PinPhase, AddUser
<1> QED BY <1>1 DEF TypeOK, AddUser, slot, flags, Steps

LEMMA ReadCpzTries ==
  ASSUME TypeOK, OneCard, Tries, Route, ReadCpz
  PROVE  Tries'
<1>1. UNCHANGED <<card, tries, pulled>> /\ pc # "wait_removal"
  BY DEF ReadCpz, UnlockFrame
<1>2. \A c \in Cards : tries'[c] = 1 => c \in pulled'
  BY <1>1 DEF Tries
<1>3. CASE OwnerRead \in lut
  BY <1>1, <1>3, CardInIs DEF ReadCpz, KeepSession, Tries
<1>4. CASE OwnerRead \notin lut
  BY <1>1, <1>4 DEF ReadCpz, Fail, Done, Tries
<1> QED BY <1>1, <1>2, <1>3, <1>4 DEF Tries

LEMMA InsertCardBase ==
  ASSUME Base, NEW c \in Cards, InsertCard(c)
  PROVE  Base'
<1>1. TypeOK' /\ OneCard' /\ Route' /\ SlotPower' /\ PinPhase' /\ InTable'
  BY CardInIs DEF Base, InsertCard, TypeOK, OneCard, Route, SlotPower, PinPhase,
    InTable, Detections, Screens, Steps, Goals, AskedFor, Served
<1>2. Tries'
  BY DEF Base, InsertCard, Tries, PinPhase, AskedFor
<1> QED BY <1>1, <1>2 DEF Base

LEMMA RemoveCardBase ==
  ASSUME Base, RemoveCard
  PROVE  Base'
<1>1. TypeOK'
  BY RemoveCardTyped DEF Base
<1>2. OneCard' /\ Route' /\ SlotPower' /\ PinPhase' /\ Tries' /\ InTable'
  BY CardInIs DEF Base, RemoveCard, OneCard, Route, SlotPower, PinPhase, Tries, InTable,
    AskedFor, Served
<1> QED BY <1>1, <1>2 DEF Base

LEMMA TickBase ==
  ASSUME Base, Tick
  PROVE  Base'
<1>1. TypeOK'
  BY TickTyped DEF Base
<1>2. OneCard' /\ Route' /\ SlotPower' /\ Tries' /\ InTable'
  BY CardInIs DEF Base, Tick, OneCard, Route, SlotPower, Tries, InTable, TickPresent,
    TickAbsent, Served, Count, WithoutCard
<1>3. PinPhase'
  BY DEF Base, Tick, PinPhase, SlotPower, TickPresent, TickAbsent, AskedFor, Count,
    WithoutCard
<1> QED BY <1>1, <1>2, <1>3 DEF Base

LEMMA RequestLogOffBase ==
  ASSUME Base, RequestLogOff
  PROVE  Base'
BY CardInIs DEF Base, RequestLogOff, TypeOK, OneCard, Route, SlotPower, PinPhase, Tries,
   InTable, Detections, Screens, Steps, Goals, AskedFor, Served

LEMMA PollBase ==
  ASSUME Base, Poll
  PROVE  Base'
<1>1. TypeOK' /\ OneCard' /\ SlotPower' /\ PinPhase' /\ Tries' /\ InTable'
  BY CardInIs DEF Base, Poll, TypeOK, OneCard, SlotPower, PinPhase, Tries, InTable,
    PollReturns, Detections, Screens, Steps, Goals, AskedFor, Served
<1>2. Route'
  BY DEF Base, Poll, Route, TypeOK, PollReturns, Detections, Screens, Steps, Goals
<1> QED BY <1>1, <1>2 DEF Base

LEMMA AckBase ==
  ASSUME Base, Ack
  PROVE  Base'
<1>1. TypeOK'
  <2>1. TypeMain'
    BY TypeParts DEF Base, Ack, TypeMain, PollReturns, Steps, Goals, Screens
  <2>2. TypeSession'
    BY TypeParts DEF Base, Ack, TypeSession, PollReturns
  <2>3. TypeRest'
    BY TypeParts DEF Base, Ack, TypeRest, PollReturns, Detections
  <2> QED BY <2>1, <2>2, <2>3, TypePartsNext
<1>2. OneCard'
  BY CardInIs DEF Base, Ack, OneCard, PollReturns
<1>3. Route' /\ SlotPower'
  BY DEF Base, Ack, Route, SlotPower, PollReturns
<1>4. PinPhase' /\ Tries' /\ InTable'
  BY DEF Base, Ack, PinPhase, Tries, InTable, PollReturns, AskedFor, Served
<1> QED BY <1>1, <1>2, <1>3, <1>4 DEF Base

LEMMA LogOffBase ==
  ASSUME Base, LogOff
  PROVE  Base'
BY CardInIs DEF Base, LogOff, TypeOK, OneCard, Route, SlotPower, PinPhase, Tries, InTable,
   Detections, Screens, Steps, Goals, AskedFor, Served

LEMMA UsbTimeoutBase ==
  ASSUME Base, UsbTimeout
  PROVE  Base'
BY CardInIs DEF Base, UsbTimeout, TypeOK, OneCard, Route, SlotPower, PinPhase, Tries,
   InTable, Detections, Screens, Steps, Goals, AskedFor, Served

LEMMA LeaveManagementModeBase ==
  ASSUME Base, LeaveManagementMode
  PROVE  Base'
<1>1. TypeOK'
  <2>1. TypeMain'
    BY TypeParts DEF Base, LeaveManagementMode, TypeMain, Steps, Goals, Screens
  <2>2. TypeSession'
    BY TypeParts DEF Base, LeaveManagementMode, TypeSession
  <2>3. TypeRest'
    BY TypeParts DEF Base, LeaveManagementMode, TypeRest, Detections
  <2> QED BY <2>1, <2>2, <2>3, TypePartsNext
<1>2. OneCard' /\ Route' /\ SlotPower'
  BY CardInIs DEF Base, LeaveManagementMode, OneCard, Route, SlotPower
<1>3. PinPhase' /\ Tries' /\ InTable'
  BY DEF Base, LeaveManagementMode, PinPhase, Tries, InTable, AskedFor, Served
<1> QED BY <1>1, <1>2, <1>3 DEF Base

LEMMA HandleResultBase ==
  ASSUME Base, HandleResult
  PROVE  Base'
<1>1. TypeOK'
  <2>1. TypeMain'
    BY TypeParts DEF Base, HandleResult, TypeMain, Steps, Goals, Screens
  <2>2. TypeSession'
    BY TypeParts DEF Base, HandleResult, TypeSession
  <2>3. TypeRest'
    BY TypeParts DEF Base, HandleResult, TypeRest, Detections
  <2> QED BY <2>1, <2>2, <2>3, TypePartsNext
<1>2. OneCard' /\ Route' /\ SlotPower' /\ PinPhase' /\ Tries' /\ InTable'
  BY CardInIs DEF Base, HandleResult, OneCard, Route, SlotPower, PinPhase, Tries,
    InTable, AskedFor, Served
<1> QED BY <1>1, <1>2 DEF Base

LEMMA GuiBase ==
  ASSUME Base, Gui
  PROVE  Base'
<1>1. TypeOK'
  <2>1. TypeMain'
    BY TypeParts DEF Base, Gui, TypeMain, OtherMenu, Steps, Goals, Screens
  <2>2. TypeSession'
    BY TypeParts DEF Base, Gui, TypeSession, OtherMenu
  <2>3. TypeRest'
    BY TypeParts DEF Base, Gui, TypeRest, OtherMenu, Detections
  <2> QED BY <2>1, <2>2, <2>3, TypePartsNext
<1>2. OneCard' /\ Route' /\ SlotPower' /\ PinPhase' /\ Tries' /\ InTable'
  BY CardInIs DEF Base, Gui, OneCard, Route, SlotPower, PinPhase, Tries, InTable,
    OtherMenu, AskedFor, Served
<1> QED BY <1>1, <1>2 DEF Base

LEMMA CommsBase ==
  ASSUME Base, Comms
  PROVE  Base'
<1>1. TypeOK'
  <2>1. TypeMain'
    BY TypeParts DEF Base, Comms, TypeMain, Steps, Goals, Screens
  <2>2. TypeSession'
    BY TypeParts DEF Base, Comms, TypeSession
  <2>3. TypeRest'
    BY TypeParts DEF Base, Comms, TypeRest, Detections
  <2> QED BY <2>1, <2>2, <2>3, TypePartsNext
<1>2. OneCard' /\ Route' /\ SlotPower' /\ PinPhase' /\ Tries' /\ InTable'
  BY CardInIs DEF Base, Comms, OneCard, Route, SlotPower, PinPhase, Tries, InTable,
    AskedFor, Served
<1> QED BY <1>1, <1>2 DEF Base

LEMMA SetManagementModeBase ==
  ASSUME Base, SetManagementMode
  PROVE  Base'
BY CardInIs DEF Base, SetManagementMode, TypeOK, OneCard, Route, SlotPower, PinPhase, Tries,
   InTable, Detections, Screens, Steps, Goals, AskedFor, Served

LEMMA ReauthBase ==
  ASSUME Base, Reauth
  PROVE  Base'
<1>1. TypeOK'
  BY ReauthTyped DEF Base
<1>2. OneCard' /\ Route' /\ SlotPower' /\ PinPhase' /\ Tries'
  BY CardInIs DEF Base, Reauth, OneCard, Route, SlotPower, PinPhase, Tries, OwnerRead,
    AskedFor, Readable
<1>3. InTable'
  BY UsersAssumption, OwnerAssumption, BoundsAssumption, CardInIs DEF Base, Reauth,
    InTable, TypeOK, OneCard, Route, OwnerRead, Served, Detections, Screens, Steps,
    Goals, Readable
<1> QED BY <1>1, <1>2, <1>3 DEF Base

LEMMA PowerSlotBase ==
  ASSUME Base, PowerSlot
  PROVE  Base'
BY CardInIs DEF Base, PowerSlot, TypeOK, OneCard, Route, SlotPower, PinPhase, Tries,
   InTable, Detections, Screens, Steps, Goals, AskedFor, Served

LEMMA SetCardPoweredBase ==
  ASSUME Base, SetCardPowered
  PROVE  Base'
BY CardInIs DEF Base, SetCardPowered, TypeOK, OneCard, Route, SlotPower, PinPhase, Tries,
   InTable, Detections, Screens, Steps, Goals, AskedFor, Served

LEMMA ClassifyBase ==
  ASSUME Base, Classify
  PROVE  Base'
<1>1. TypeOK'
  <2>1. TypeMain'
    BY TypeParts DEF Base, Classify, TypeMain, Readable, Done, Fail, Steps, Goals,
       Screens
  <2>2. TypeSession'
    BY TypeParts DEF Base, Classify, TypeSession, Readable, Done, Fail
  <2>3. TypeRest'
    BY TypeParts DEF Base, Classify, TypeRest, Readable, Done, Fail, Detections
  <2> QED BY <2>1, <2>2, <2>3, TypePartsNext
<1>2. OneCard'
  BY CardInIs DEF Base, Classify, OneCard, Readable, Done, Fail
<1>3. Route' /\ SlotPower'
  BY DEF Base, Classify, Route, SlotPower, Readable, Done, Fail
<1>4. PinPhase' /\ Tries' /\ InTable'
  BY DEF Base, Classify, PinPhase, Tries, InTable, Readable, Done, Fail, AskedFor,
    Served
<1> QED BY <1>1, <1>2, <1>3, <1>4 DEF Base

LEMMA ReadCpzBase ==
  ASSUME Base, ReadCpz
  PROVE  Base'
<1>1. TypeOK'
  <2>1. TypeMain'
    BY TypeParts DEF Base, ReadCpz, TypeMain, OwnerRead, Fail, Steps, Goals, Screens,
       Readable, Done
  <2>2. TypeSession'
    BY TypeParts DEF Base, ReadCpz, TypeSession, OwnerRead, Fail, Readable, Done
  <2>3. TypeRest'
    BY TypeParts, ReadCpzReads DEF Base, TypeRest
  <2> QED BY <2>1, <2>2, <2>3, TypePartsNext
<1>2. OneCard'
  BY CardInIs DEF Base, ReadCpz, OneCard, OwnerRead, Fail, Readable, Done
<1>3. Route'
  BY DEF Base, ReadCpz, Route, OwnerRead, Fail, Readable, Done
<1>4. SlotPower' /\ InTable'
  BY DEF Base, ReadCpz, SlotPower, InTable, OwnerRead, Fail, Served, Readable, Done
<1>5. PinPhase'
  BY UsersAssumption, OwnerAssumption, BoundsAssumption, CardInIs DEF Base, ReadCpz,
    PinPhase, TypeOK, OneCard, Route, OwnerRead, Fail, AskedFor, Detections, Screens,
    Steps, Goals, Readable, Done
<1>6. Tries'
  BY ReadCpzTries DEF Base
<1> QED BY <1>1, <1>2, <1>3, <1>4, <1>5, <1>6 DEF Base

LEMMA NoPinBase ==
  ASSUME Base, NoPin
  PROVE  Base'
<1>1. TypeOK'
  <2>1. TypeMain'
    BY TypeParts DEF Base, NoPin, TypeMain, Fail, Steps, Goals, Screens, Done
  <2>2. TypeSession'
    BY TypeParts DEF Base, NoPin, TypeSession, Fail, Done
  <2>3. TypeRest'
    BY TypeParts DEF Base, NoPin, TypeRest, Fail, Detections, Done
  <2> QED BY <2>1, <2>2, <2>3, TypePartsNext
<1>2. OneCard' /\ Route' /\ SlotPower'
  BY CardInIs DEF Base, NoPin, OneCard, Route, SlotPower, Fail, Done
<1>3. PinPhase' /\ Tries' /\ InTable'
  BY DEF Base, NoPin, PinPhase, Tries, InTable, Fail, AskedFor, Served, Done
<1> QED BY <1>1, <1>2, <1>3 DEF Base

LEMMA RightPinBase ==
  ASSUME Base, RightPin
  PROVE  Base'
<1>1. TypeOK'
  BY RightPinTyped DEF Base
<1>2. OneCard' /\ Route' /\ SlotPower' /\ PinPhase'
  BY CardInIs DEF Base, RightPin, OneCard, Route, SlotPower, PinPhase, Readable, Fail,
    AskedFor, Done
<1>3. Tries'
  BY DEF Base, RightPin, Tries, TypeOK, Readable, Fail, Detections, Screens, Steps,
    Goals, Done
<1>4. InTable'
  BY DEF Base, RightPin, InTable, PinPhase, Readable, Fail, Served, AskedFor, Done
<1> QED BY <1>1, <1>2, <1>3, <1>4 DEF Base

LEMMA WrongPinBase ==
  ASSUME Base, WrongPin
  PROVE  Base'
<1>1. TypeOK'
  BY WrongPinTyped DEF Base
<1>2. OneCard' /\ Route' /\ SlotPower' /\ PinPhase' /\ InTable'
  BY CardInIs DEF Base, WrongPin, OneCard, Route, SlotPower, PinPhase, InTable,
    Readable, AfterWrongPin, Fail, AskedFor, Served, Done
<1>3. Tries'
  BY UsersAssumption, OwnerAssumption, BoundsAssumption, CardInIs DEF Base, WrongPin,
    Tries, TypeOK, OneCard, Route, Readable, AfterWrongPin, Fail, Detections, Screens,
    Steps, Goals, Done
<1> QED BY <1>1, <1>2, <1>3 DEF Base

LEMMA WaitRemovalBase ==
  ASSUME Base, WaitRemoval
  PROVE  Base'
<1>1. TypeOK'
  <2>1. TypeMain'
    BY TypeParts DEF Base, WaitRemoval, TypeMain, Fail, Steps, Goals, Screens, Done
  <2>2. TypeSession'
    BY TypeParts DEF Base, WaitRemoval, TypeSession, Fail, Done
  <2>3. TypeRest'
    BY TypeParts DEF Base, WaitRemoval, TypeRest, Fail, Detections, Done
  <2> QED BY <2>1, <2>2, <2>3, TypePartsNext
<1>2. OneCard' /\ Route' /\ SlotPower'
  BY CardInIs DEF Base, WaitRemoval, OneCard, Route, SlotPower, Fail, Done
<1>3. PinPhase' /\ Tries' /\ InTable'
  BY DEF Base, WaitRemoval, PinPhase, Tries, InTable, Fail, AskedFor, Served, Done
<1> QED BY <1>1, <1>2, <1>3 DEF Base

LEMMA ReadKeyBase ==
  ASSUME Base, ReadKey
  PROVE  Base'
<1>1. TypeOK'
  BY UsersAssumption, OwnerAssumption, BoundsAssumption, CardInIs DEF Base, ReadKey,
    TypeOK, OneCard, Route, Readable, Detections, Screens, Steps, Goals
<1>2. OneCard' /\ Route' /\ SlotPower' /\ PinPhase' /\ Tries' /\ InTable'
  BY CardInIs DEF Base, ReadKey, OneCard, Route, SlotPower, PinPhase, Tries, InTable,
    Readable, AskedFor, Served
<1> QED BY <1>1, <1>2 DEF Base

LEMMA UnlockBase ==
  ASSUME Base, Unlock
  PROVE  Base'
<1>1. TypeOK'
  <2>1. TypeMain'
    BY TypeParts DEF Base, Unlock, TypeMain, Done, Steps, Goals, Screens
  <2>2. TypeSession'
    BY TypeParts DEF Base, Unlock, TypeSession, Done
  <2>3. TypeRest'
    BY TypeParts DEF Base, Unlock, TypeRest, Done, Detections
  <2> QED BY <2>1, <2>2, <2>3, TypePartsNext
<1>2. OneCard'
  BY CardInIs DEF Base, Unlock, OneCard, Done
<1>3. Route'
  BY DEF Base, Unlock, Route, TypeOK, Done, Detections, Screens, Steps, Goals
<1>4. SlotPower'
  BY DEF Base, Unlock, SlotPower, Done
<1>5. PinPhase' /\ Tries' /\ InTable'
  BY DEF Base, Unlock, PinPhase, Tries, InTable, Done, AskedFor, Served
<1> QED BY <1>1, <1>2, <1>3, <1>4, <1>5 DEF Base

LEMMA AddUnknownCardBase ==
  ASSUME Base, AddUnknownCard
  PROVE  Base'
<1>1. TypeOK'
  BY UsersAssumption, OwnerAssumption, BoundsAssumption, CardInIs DEF Base,
    AddUnknownCard, TypeOK, OneCard, Route, OwnerRead, Detections, Screens, Steps,
    Goals, Readable
<1>2. OneCard' /\ Route' /\ SlotPower' /\ InTable'
  BY CardInIs DEF Base, AddUnknownCard, OneCard, Route, SlotPower, InTable, OwnerRead,
    Served, Readable
<1>3. PinPhase'
  BY UsersAssumption, OwnerAssumption, BoundsAssumption, CardInIs DEF Base,
    AddUnknownCard, PinPhase, TypeOK, OneCard, Route, OwnerRead, AskedFor, Detections,
    Screens, Steps, Goals, Readable
<1>4. Tries'
  BY UsersAssumption, OwnerAssumption, BoundsAssumption, CardInIs DEF Base,
    AddUnknownCard, Tries, TypeOK, OneCard, Route, OwnerRead, Detections, Screens,
    Steps, Goals, Readable
<1> QED BY <1>1, <1>2, <1>3, <1>4 DEF Base

LEMMA AddUserBase ==
  ASSUME Base, AddUser
  PROVE  Base'
<1>1. TypeOK'
  BY AddUserTyped DEF Base
<1>2. OneCard' /\ Route' /\ SlotPower' /\ Tries' /\ InTable'
  BY CardInIs DEF Base, AddUser, OneCard, Route, SlotPower, Tries, InTable, Served
<1>3. PinPhase'
  BY UsersAssumption, OwnerAssumption, BoundsAssumption, CardInIs DEF Base, AddUser,
    PinPhase, TypeOK, OneCard, Route, AskedFor, Detections, Screens, Steps, Goals
<1> QED BY <1>1, <1>2, <1>3 DEF Base

LEMMA CompareBase ==
  ASSUME Base, Compare
  PROVE  Base'
<1>1. TypeOK'
  <2>1. TypeMain'
    BY TypeParts DEF Base, Compare, TypeMain, Fail, Steps, Goals, Screens, Done
  <2>2. TypeSession'
    BY TypeParts DEF Base, Compare, TypeSession, Fail, Done
  <2>3. TypeRest'
    BY TypeParts, WipedTyped DEF Base, Compare, TypeRest, Fail, Detections, Done
  <2> QED BY <2>1, <2>2, <2>3, TypePartsNext
<1>2. OneCard'
  BY CardInIs DEF Base, Compare, OneCard, OwnerRead, Fail, Wiped, Readable, Done
<1>3. Route' /\ SlotPower'
  BY DEF Base, Compare, Route, SlotPower, OwnerRead, Fail, Wiped, Readable, Done
<1>4. PinPhase' /\ Tries' /\ InTable'
  BY DEF Base, Compare, PinPhase, Tries, InTable, OwnerRead, Fail, Wiped, AskedFor,
    Served, Readable, Done
<1> QED BY <1>1, <1>2, <1>3, <1>4 DEF Base

LEMMA CloneCheckBase ==
  ASSUME Base, CloneCheck
  PROVE  Base'
<1>1. TypeOK'
  BY UsersAssumption, OwnerAssumption, BoundsAssumption, CardInIs DEF Base, CloneCheck,
    TypeOK, OneCard, Route, OwnerRead, Detections, Screens, Steps, Goals, Readable
<1>2. OneCard' /\ Route' /\ SlotPower' /\ PinPhase' /\ Tries' /\ InTable'
  BY CardInIs DEF Base, CloneCheck, OneCard, Route, SlotPower, PinPhase, Tries, InTable,
    OwnerRead, AskedFor, Served, Readable
<1> QED BY <1>1, <1>2 DEF Base

LEMMA CloneWriteBase ==
  ASSUME Base, CloneWrite
  PROVE  Base'
BY CardInIs DEF Base, CloneWrite, TypeOK, OneCard, Route, SlotPower, PinPhase, Tries,
   InTable, Readable, Detections, Screens, Steps, Goals, AskedFor, Served

LEMMA CloneUnlockBase ==
  ASSUME Base, CloneUnlock
  PROVE  Base'
<1>1. TypeOK'
  <2>1. TypeMain'
    BY TypeParts DEF Base, CloneUnlock, TypeMain, Steps, Goals, Screens
  <2>2. TypeSession'
    BY TypeParts DEF Base, CloneUnlock, TypeSession
  <2>3. TypeRest'
    BY TypeParts DEF Base, CloneUnlock, TypeRest, Detections
  <2> QED BY <2>1, <2>2, <2>3, TypePartsNext
<1>2. OneCard' /\ Route' /\ SlotPower' /\ PinPhase' /\ Tries' /\ InTable'
  BY CardInIs DEF Base, CloneUnlock, OneCard, Route, SlotPower, PinPhase, Tries,
    InTable, AskedFor, Served
<1> QED BY <1>1, <1>2 DEF Base

LEMMA EraseUserBase ==
  ASSUME Base, EraseUser
  PROVE  Base'
<1>1. TypeOK'
  <2>1. TypeMain'
    BY TypeParts DEF Base, EraseUser, TypeMain, Steps, Goals, Screens
  <2>2. TypeSession'
    BY TypeParts DEF Base, EraseUser, TypeSession
  <2>3. TypeRest'
    BY TypeParts, WipedTyped DEF Base, EraseUser, TypeRest, Detections
  <2> QED BY <2>1, <2>2, <2>3, TypePartsNext
<1>2. OneCard' /\ Route' /\ SlotPower' /\ PinPhase' /\ Tries' /\ InTable'
  BY CardInIs DEF Base, EraseUser, OneCard, Route, SlotPower, PinPhase, Tries, InTable,
    Wiped, AskedFor, Served, Readable
<1> QED BY <1>1, <1>2 DEF Base

LEMMA EraseCardsBase ==
  ASSUME Base, EraseCards
  PROVE  Base'
BY CardInIs DEF Base, EraseCards, TypeOK, OneCard, Route, SlotPower, PinPhase, Tries,
   InTable, Detections, Screens, Steps, Goals, AskedFor, Served

LEMMA EraseLutEntryBase ==
  ASSUME Base, EraseLutEntry
  PROVE  Base'
<1>1. TypeOK' /\ OneCard' /\ Route' /\ SlotPower' /\ PinPhase' /\ Tries'
  BY CardInIs DEF Base, EraseLutEntry, TypeOK, OneCard, Route, SlotPower, PinPhase,
    Tries, Detections, Screens, Steps, Goals, AskedFor
<1>2. InTable'
  BY UsersAssumption, OwnerAssumption, BoundsAssumption, CardInIs DEF Base,
    EraseLutEntry, InTable, TypeOK, OneCard, Route, Served, Detections, Screens, Steps,
    Goals
<1> QED BY <1>1, <1>2 DEF Base

-----------------------------------------------------------------------------
(* What holds until a tick comes before a critical section.                 *)

LEMMA CompareLockScreen ==
  ASSUME Base, Session, Compare
  PROVE  LockScreen'
<1>1. CASE goal \in {"erase_other", "unknown"} \/ OwnerRead = cpz
  BY <1>1 DEF Base, Session, Compare, Route, Operations, Operating, Reauths, LockScreen
<1>2. CASE ~(goal \in {"erase_other", "unknown"} \/ OwnerRead = cpz)
  <2> SUFFICES ASSUME unlocked'
               PROVE  \/ card' = {} /\ counter' # 0 /\ cardPowered'
                      \/ pc' \in {"comms", "poll"} /\ cardReturn' = "JRELEASED"
    BY DEF LockScreen, Leaving
  <2>1. /\ goal \in Reauths /\ pc = "compare" /\ unlocked
        /\ UNCHANGED <<card, counter, cardReturn, cardPowered>>
    BY <1>2 DEF Compare, Base, Route, Fail, HandleRemoved, ClearSecurityBools, KeepSession,
                flags, WaitFrame, slot
  <2>2. pc' \in {"comms", "poll"}
    BY <1>2, <2>1 DEF Compare, Fail, Done, Reauths
  <2>3. cardReturn \in {"DET", "JRELEASED"}
    BY <2>1 DEF Session, Debouncer, Believed, ReleaseRead, Locked, Base, Route
  <2>4. cardReturn = "DET" => card = {}
    <3>1. ASSUME cardReturn = "DET", NEW c \in card
          PROVE  FALSE
      <4>1. owner[c] = cpz /\ slotOn
        BY <2>1, <3>1 DEF Session, SameCard
      <4>2. CardIn = c /\ Readable
        BY <4>1, CardInIs DEF Readable, Base
      <4> QED BY <1>2, <4>1, <4>2 DEF OwnerRead
    <3> QED BY <3>1
  <2>5. cardReturn = "DET" => counter # 0 /\ cardPowered
    BY <2>1, BoundsAssumption DEF Session, Debouncer, CardPower, Released, ReleaseRead,
       Base,
                                  Route
  <2> QED BY <2>1, <2>2, <2>3, <2>4, <2>5
<1> QED BY <1>1, <1>2

LEMMA InsertCardSession ==
  ASSUME Base, Session, NEW c \in Cards, InsertCard(c)
  PROVE  Session'
<1>1. Debouncer' /\ Believed' /\ CardPower' /\ Powered' /\ Operations' /\ LockScreen' /\
      LockedSteps' /\ Managing' /\ Keys'
  BY DEF Base, Session, InsertCard, Debouncer, Believed, CardPower, Powered, Operations,
    LockScreen, LockedSteps, Managing, Keys, Locked, Operating, Served, Fits
<1>2. SameCard'
  BY UsersAssumption, OwnerAssumption, BoundsAssumption DEF Base, Session, InsertCard,
    SameCard, Debouncer
<1> QED BY <1>1, <1>2 DEF Session

LEMMA RemoveCardSession ==
  ASSUME Base, Session, RemoveCard
  PROVE  Session'
BY DEF Base, Session, RemoveCard, Debouncer, Believed, CardPower, Powered, SameCard,
   Operations, LockScreen, LockedSteps, Managing, Keys, Locked, Operating, Served, Fits

LEMMA TickSession ==
  ASSUME preempted = 0, preempted' = 0, Base, Session, Tick
  PROVE  Session'
<1>1. Debouncer'
  BY UsersAssumption, OwnerAssumption, BoundsAssumption, CardInIs DEF Base, Session,
    Tick, Debouncer, TypeOK, OneCard, Route, TickPresent, TickAbsent, Detections,
    Screens, Steps, Goals, Count, WithoutCard
<1>2. Believed' /\ SameCard' /\ Operations' /\ LockScreen' /\ LockedSteps' /\ Keys'
  BY DEF Base, Session, Tick, Believed, SameCard, Operations, LockScreen, LockedSteps,
    Keys, TickPresent, TickAbsent, Locked, Operating, Served, Fits, Count, WithoutCard
<1>3. CardPower'
  BY DEF Base, Session, Tick, CardPower, Route, Debouncer, Believed, TickPresent,
    TickAbsent, Locked, Count, WithoutCard
<1>4. Powered'
  BY DEF Base, Session, Tick, Powered, Debouncer, Believed, TickPresent, TickAbsent,
    Locked, Count, WithoutCard
<1>5. Managing'
  BY DEF Base, Session, Tick, Managing, Route, Debouncer, Believed, TickPresent,
    TickAbsent, Locked, Count, WithoutCard
<1> QED BY <1>1, <1>2, <1>3, <1>4, <1>5 DEF Session

LEMMA RequestLogOffSession ==
  ASSUME Base, Session, RequestLogOff
  PROVE  Session'
BY DEF Base, Session, RequestLogOff, Debouncer, Believed, CardPower, Powered, SameCard,
   Operations, LockScreen, LockedSteps, Managing, Keys, Locked, Operating, Served, Fits

LEMMA PollSession ==
  ASSUME Base, Session, Poll
  PROVE  Session'
<1>1. Debouncer' /\ Believed' /\ SameCard' /\ Operations' /\ LockScreen' /\ LockedSteps'
      /\ Managing'
  BY DEF Base, Session, Poll, Debouncer, Believed, SameCard, Operations, LockScreen,
    LockedSteps, Managing, PollReturns, Locked, Operating
<1>2. CardPower'
  BY DEF Base, Session, Poll, CardPower, TypeOK, PollReturns, Detections, Screens,
    Steps, Goals
<1>3. Powered'
  BY DEF Base, Session, Poll, Powered, TypeOK, PollReturns, Detections, Screens, Steps,
    Goals
<1>4. Keys'
  BY DEF Base, Session, Poll, Keys, TypeOK, PollReturns, Served, Fits, Detections,
    Screens, Steps, Goals
<1> QED BY <1>1, <1>2, <1>3, <1>4 DEF Session

LEMMA AckSession ==
  ASSUME Base, Session, Ack
  PROVE  Session'
<1>1. Debouncer'
  BY DEF Base, Session, Ack, Debouncer, PollReturns
<1>2. Believed'
  BY DEF Base, Session, Ack, Believed, TypeOK, PollReturns, Locked, Detections, Screens,
    Steps, Goals
<1>3. CardPower'
  BY DEF Base, Session, Ack, CardPower, TypeOK, Debouncer, PollReturns, Detections,
    Screens, Steps, Goals
<1>4. Powered'
  BY DEF Base, Session, Ack, Powered, TypeOK, Debouncer, PollReturns, Detections,
    Screens, Steps, Goals
<1>5. SameCard'
  BY UsersAssumption, OwnerAssumption, BoundsAssumption, CardInIs DEF Base, Session,
    Ack, SameCard, TypeOK, OneCard, Route, PollReturns, Detections, Screens, Steps,
    Goals
<1>6. Operations'
  BY UsersAssumption, OwnerAssumption, BoundsAssumption, CardInIs DEF Base, Session,
    Ack, Operations, TypeOK, OneCard, Route, PollReturns, Operating, Detections,
    Screens, Steps, Goals
<1>7. LockScreen'
  BY DEF Base, Session, Ack, LockScreen, Route, Debouncer, Operations, PollReturns,
    Operating
<1>8. LockedSteps'
  BY DEF Base, Session, Ack, LockedSteps, Route, Debouncer, Believed, PollReturns,
    Locked
<1>9. Managing'
  BY DEF Base, Session, Ack, Managing, Debouncer, PollReturns
<1>10. Keys'
  BY DEF Base, Session, Ack, Keys, TypeOK, PollReturns, Served, Fits, Detections,
    Screens, Steps, Goals
<1> QED BY <1>1, <1>2, <1>3, <1>4, <1>5, <1>6, <1>7, <1>8, <1>9, <1>10 DEF Session

LEMMA LogOffSession ==
  ASSUME Base, Session, LogOff
  PROVE  Session'
<1>1. Debouncer' /\ Believed' /\ CardPower' /\ Powered' /\ SameCard' /\ LockScreen' /\
      LockedSteps' /\ Managing'
  BY DEF Base, Session, LogOff, Debouncer, Believed, CardPower, Powered, SameCard,
    LockScreen, LockedSteps, Managing, Locked
<1>2. Operations'
  BY UsersAssumption, OwnerAssumption, BoundsAssumption, CardInIs DEF Base, Session,
    LogOff, Operations, TypeOK, OneCard, Route, Operating, Detections, Screens, Steps,
    Goals
<1>3. Keys'
  BY UsersAssumption, OwnerAssumption, BoundsAssumption, CardInIs DEF Base, Session,
    LogOff, Keys, TypeOK, OneCard, Route, Served, Fits, Detections, Screens, Steps,
    Goals
<1> QED BY <1>1, <1>2, <1>3 DEF Session

LEMMA UsbTimeoutSession ==
  ASSUME Base, Session, UsbTimeout
  PROVE  Session'
<1>1. Debouncer' /\ Believed' /\ CardPower' /\ Powered' /\ SameCard' /\ LockScreen' /\
      LockedSteps' /\ Managing'
  BY DEF Base, Session, UsbTimeout, Debouncer, Believed, CardPower, Powered, SameCard,
    LockScreen, LockedSteps, Managing, Locked
<1>2. Operations'
  BY UsersAssumption, OwnerAssumption, BoundsAssumption, CardInIs DEF Base, Session,
    UsbTimeout, Operations, TypeOK, OneCard, Route, Operating, Detections, Screens,
    Steps, Goals
<1>3. Keys'
  BY UsersAssumption, OwnerAssumption, BoundsAssumption, CardInIs DEF Base, Session,
    UsbTimeout, Keys, TypeOK, OneCard, Route, Served, Fits, Detections, Screens, Steps,
    Goals
<1> QED BY <1>1, <1>2, <1>3 DEF Session

LEMMA LeaveManagementModeSession ==
  ASSUME Base, Session, LeaveManagementMode
  PROVE  Session'
BY DEF Base, Session, LeaveManagementMode, Debouncer, Believed, CardPower, Powered,
   SameCard, Operations, LockScreen, LockedSteps, Managing, Keys, Locked, Operating, Served,
   Fits

LEMMA HandleResultSession ==
  ASSUME Base, Session, HandleResult
  PROVE  Session'
<1>1. Debouncer' /\ Believed' /\ CardPower' /\ Powered' /\ SameCard' /\ Operations' /\
      LockScreen' /\ LockedSteps'
  BY DEF Base, Session, HandleResult, Debouncer, Believed, CardPower, Powered, SameCard,
    Operations, LockScreen, LockedSteps, Locked, Operating
<1>2. Managing'
  BY DEF Base, Session, HandleResult, Managing, LockedSteps
<1>3. Keys'
  BY UsersAssumption, OwnerAssumption, BoundsAssumption, CardInIs DEF Base, Session,
    HandleResult, Keys, TypeOK, OneCard, Route, Served, Fits, Detections, Screens,
    Steps, Goals
<1> QED BY <1>1, <1>2, <1>3 DEF Session

LEMMA GuiSession ==
  ASSUME Base, Session, Gui
  PROVE  Session'
<1>1. Debouncer' /\ Believed' /\ CardPower' /\ Powered' /\ SameCard' /\ LockScreen' /\
      Managing'
  BY DEF Base, Session, Gui, Debouncer, Believed, CardPower, Powered, SameCard,
    LockScreen, Managing, OtherMenu, Locked
<1>2. Operations'
  BY UsersAssumption, OwnerAssumption, BoundsAssumption, CardInIs DEF Base, Session,
    Gui, Operations, TypeOK, OneCard, Route, OtherMenu, Operating, Detections, Screens,
    Steps, Goals
<1>3. LockedSteps'
  BY DEF Base, Session, Gui, LockedSteps, LockScreen, OtherMenu
<1>4. Keys'
  BY UsersAssumption, OwnerAssumption, BoundsAssumption, CardInIs DEF Base, Session,
    Gui, Keys, TypeOK, OneCard, Route, OtherMenu, Served, Fits, Detections, Screens,
    Steps, Goals
<1> QED BY <1>1, <1>2, <1>3, <1>4 DEF Session

LEMMA CommsSession ==
  ASSUME Base, Session, Comms
  PROVE  Session'
<1>1. Debouncer' /\ Believed' /\ CardPower' /\ SameCard' /\ LockScreen' /\ LockedSteps' /\
      Managing'
  BY DEF Base, Session, Comms, Debouncer, Believed, CardPower, SameCard, LockScreen,
    LockedSteps, Managing, Locked
<1>2. Powered'
  BY DEF Base, Session, Comms, Powered, Managing
<1>3. Operations'
  BY UsersAssumption, OwnerAssumption, BoundsAssumption, CardInIs DEF Base, Session,
    Comms, Operations, TypeOK, OneCard, Route, Operating, Detections, Screens, Steps,
    Goals
<1>4. Keys'
  BY UsersAssumption, OwnerAssumption, BoundsAssumption, CardInIs DEF Base, Session,
    Comms, Keys, TypeOK, OneCard, Route, Served, Fits, Detections, Screens, Steps, Goals
<1> QED BY <1>1, <1>2, <1>3, <1>4 DEF Session

LEMMA SetManagementModeSession ==
  ASSUME Base, Session, SetManagementMode
  PROVE  Session'
<1>1. Debouncer' /\ Believed' /\ CardPower' /\ SameCard' /\ LockScreen' /\ LockedSteps' /\
      Keys'
  BY DEF Base, Session, SetManagementMode, Debouncer, Believed, CardPower, SameCard,
    LockScreen, LockedSteps, Keys, Locked, Served, Fits
<1>2. Powered'
  BY DEF Base, Session, SetManagementMode, Powered, Managing
<1>3. Operations'
  BY UsersAssumption, OwnerAssumption, BoundsAssumption, CardInIs DEF Base, Session,
    SetManagementMode, Operations, TypeOK, OneCard, Route, Operating, Detections,
    Screens, Steps, Goals
<1>4. Managing'
  BY UsersAssumption, OwnerAssumption, BoundsAssumption, CardInIs DEF Base, Session,
    SetManagementMode, Managing, TypeOK, OneCard, Route, Detections, Screens, Steps,
    Goals
<1> QED BY <1>1, <1>2, <1>3, <1>4 DEF Session

LEMMA ReauthSession ==
  ASSUME Base, Session, Reauth
  PROVE  Session'
<1>1. Debouncer' /\ Believed' /\ CardPower' /\ Powered' /\ LockScreen' /\ LockedSteps' /\
      Managing'
  BY DEF Base, Session, Reauth, Debouncer, Believed, CardPower, Powered, LockScreen,
    LockedSteps, Managing, OwnerRead, Locked, Readable
<1>2. SameCard'
  BY CardInIs DEF Base, Session, Reauth, SameCard, OneCard, Route, Powered, OwnerRead,
    Readable
<1>3. Operations'
  BY UsersAssumption, OwnerAssumption, BoundsAssumption, CardInIs DEF Base, Session,
    Reauth, Operations, TypeOK, OneCard, Route, OwnerRead, Operating, Detections,
    Screens, Steps, Goals, Readable
<1>4. Keys'
  BY UsersAssumption, OwnerAssumption, BoundsAssumption, CardInIs DEF Base, Session,
    Reauth, Keys, TypeOK, OneCard, Route, OwnerRead, Served, Fits, Detections, Screens,
    Steps, Goals, Readable
<1> QED BY <1>1, <1>2, <1>3, <1>4 DEF Session

LEMMA PowerSlotSession ==
  ASSUME Base, Session, PowerSlot
  PROVE  Session'
BY DEF Base, Session, PowerSlot, Debouncer, Believed, CardPower, Powered, SameCard,
   Operations, LockScreen, LockedSteps, Managing, Keys, Locked, Operating, Served, Fits

LEMMA SetCardPoweredSession ==
  ASSUME Base, Session, SetCardPowered
  PROVE  Session'
BY DEF Base, Session, SetCardPowered, Debouncer, Believed, CardPower, Powered, SameCard,
   Operations, LockScreen, LockedSteps, Managing, Keys, Locked, Operating, Served, Fits

LEMMA ClassifySession ==
  ASSUME Base, Session, Classify
  PROVE  Session'
<1>1. Debouncer' /\ Believed' /\ CardPower' /\ SameCard' /\ LockedSteps' /\ Managing' /\
      Keys'
  BY DEF Base, Session, Classify, Debouncer, Believed, CardPower, SameCard, LockedSteps,
    Managing, Keys, Readable, Done, Fail, Locked, Served, Fits
<1>2. Powered'
  BY DEF Base, Session, Classify, Powered, LockedSteps, Readable, Done, Fail
<1>3. Operations'
  BY UsersAssumption, OwnerAssumption, BoundsAssumption, CardInIs DEF Base, Session,
    Classify, Operations, TypeOK, OneCard, Route, Readable, Done, Fail, Operating,
    Detections, Screens, Steps, Goals
<1>4. LockScreen'
  BY DEF Base, Session, Classify, LockScreen, TypeOK, LockedSteps, Readable, Done, Fail,
    Detections, Screens, Steps, Goals
<1> QED BY <1>1, <1>2, <1>3, <1>4 DEF Session

LEMMA ReadCpzSession ==
  ASSUME Base, Session, ReadCpz
  PROVE  Session'
<1>1. Debouncer' /\ Believed' /\ CardPower' /\ Powered' /\ SameCard' /\ LockedSteps' /\
      Managing'
  BY DEF Base, Session, ReadCpz, Debouncer, Believed, CardPower, Powered, SameCard,
    LockedSteps, Managing, OwnerRead, Fail, Locked, Readable, Done
<1>2. Operations'
  BY UsersAssumption, OwnerAssumption, BoundsAssumption, CardInIs DEF Base, Session,
    ReadCpz, Operations, TypeOK, OneCard, Route, OwnerRead, Fail, Operating, Detections,
    Screens, Steps, Goals, Readable, Done
<1>3. LockScreen'
  BY DEF Base, Session, ReadCpz, LockScreen, TypeOK, LockedSteps, OwnerRead, Fail,
    Detections, Screens, Steps, Goals, Readable, Done
<1>4. Keys'
  BY UsersAssumption, OwnerAssumption, BoundsAssumption DEF Base, Session, ReadCpz,
    Keys, TypeOK, Route, LockedSteps, OwnerRead, Fail, Served, Fits, Detections,
    Screens, Steps, Goals, Readable, Done
<1> QED BY <1>1, <1>2, <1>3, <1>4 DEF Session

LEMMA NoPinSession ==
  ASSUME Base, Session, NoPin
  PROVE  Session'
<1>1. Debouncer' /\ Believed' /\ CardPower' /\ Powered' /\ SameCard' /\ LockedSteps' /\
      Managing' /\ Keys'
  BY DEF Base, Session, NoPin, Debouncer, Believed, CardPower, Powered, SameCard,
    LockedSteps, Managing, Keys, Fail, Locked, Served, Fits, Done
<1>2. Operations'
  BY UsersAssumption, OwnerAssumption, BoundsAssumption, CardInIs DEF Base, Session,
    NoPin, Operations, TypeOK, OneCard, Route, Fail, Operating, Detections, Screens,
    Steps, Goals, Done
<1>3. LockScreen'
  BY DEF Base, Session, NoPin, LockScreen, TypeOK, LockedSteps, Fail, Detections,
    Screens, Steps, Goals, Done
<1> QED BY <1>1, <1>2, <1>3 DEF Session

LEMMA RightPinSession ==
  ASSUME Base, Session, RightPin
  PROVE  Session'
<1>1. Debouncer' /\ Believed' /\ CardPower' /\ Powered' /\ SameCard' /\ LockedSteps' /\
      Managing' /\ Keys'
  BY DEF Base, Session, RightPin, Debouncer, Believed, CardPower, Powered, SameCard,
    LockedSteps, Managing, Keys, Readable, Fail, Locked, Served, Fits, Done
<1>2. Operations'
  BY UsersAssumption, OwnerAssumption, BoundsAssumption, CardInIs DEF Base, Session,
    RightPin, Operations, TypeOK, OneCard, Route, Readable, Fail, Operating, Detections,
    Screens, Steps, Goals, Done
<1>3. LockScreen'
  BY DEF Base, Session, RightPin, LockScreen, TypeOK, LockedSteps, Readable, Fail,
    Detections, Screens, Steps, Goals, Done
<1> QED BY <1>1, <1>2, <1>3 DEF Session

LEMMA WrongPinSession ==
  ASSUME Base, Session, WrongPin
  PROVE  Session'
<1>1. Debouncer' /\ Believed' /\ CardPower' /\ Powered' /\ SameCard' /\ LockedSteps' /\
      Managing' /\ Keys'
  BY DEF Base, Session, WrongPin, Debouncer, Believed, CardPower, Powered, SameCard,
    LockedSteps, Managing, Keys, Readable, AfterWrongPin, Fail, Locked, Served, Fits,
    Done
<1>2. Operations'
  BY UsersAssumption, OwnerAssumption, BoundsAssumption, CardInIs DEF Base, Session,
    WrongPin, Operations, TypeOK, OneCard, Route, Readable, AfterWrongPin, Fail,
    Operating, Detections, Screens, Steps, Goals, Done
<1>3. LockScreen'
  BY DEF Base, Session, WrongPin, LockScreen, TypeOK, LockedSteps, Readable,
    AfterWrongPin, Fail, Detections, Screens, Steps, Goals, Done
<1> QED BY <1>1, <1>2, <1>3 DEF Session

LEMMA WaitRemovalSession ==
  ASSUME Base, Session, WaitRemoval
  PROVE  Session'
<1>1. Debouncer' /\ Believed' /\ CardPower' /\ Powered' /\ SameCard' /\ LockedSteps' /\
      Managing' /\ Keys'
  BY DEF Base, Session, WaitRemoval, Debouncer, Believed, CardPower, Powered, SameCard,
    LockedSteps, Managing, Keys, Fail, Locked, Served, Fits, Done
<1>2. Operations'
  BY UsersAssumption, OwnerAssumption, BoundsAssumption, CardInIs DEF Base, Session,
    WaitRemoval, Operations, TypeOK, OneCard, Route, Fail, Operating, Detections,
    Screens, Steps, Goals, Done
<1>3. LockScreen'
  BY DEF Base, Session, WaitRemoval, LockScreen, Route, PinPhase, CardPower, Powered,
    Fail, AskedFor, Done
<1> QED BY <1>1, <1>2, <1>3 DEF Session

LEMMA ReadKeySession ==
  ASSUME Base, Session, ReadKey
  PROVE  Session'
<1>1. Debouncer' /\ Believed' /\ CardPower' /\ Powered' /\ SameCard' /\ Operations' /\
      LockScreen' /\ LockedSteps' /\ Managing'
  BY DEF Base, Session, ReadKey, Debouncer, Believed, CardPower, Powered, SameCard,
    Operations, LockScreen, LockedSteps, Managing, Readable, Locked, Operating
<1>2. Keys'
  BY UsersAssumption, OwnerAssumption, BoundsAssumption, CardInIs DEF Base, Session,
    ReadKey, Keys, OneCard, PinPhase, Readable, Served, Fits, AskedFor
<1> QED BY <1>1, <1>2 DEF Session

LEMMA UnlockSession ==
  ASSUME Base, Session, Unlock
  PROVE  Session'
BY DEF Base, Session, Unlock, Debouncer, Believed, CardPower, Powered, SameCard, Operations,
   LockScreen, LockedSteps, Managing, Keys, Done, Locked, Operating, Served, Fits

LEMMA AddUnknownCardSession ==
  ASSUME Base, Session, AddUnknownCard
  PROVE  Session'
<1>1. Debouncer' /\ Believed' /\ Powered' /\ SameCard' /\ Operations' /\ LockScreen' /\
      LockedSteps' /\ Managing'
  BY DEF Base, Session, AddUnknownCard, Debouncer, Believed, Powered, SameCard,
    Operations, LockScreen, LockedSteps, Managing, OwnerRead, Locked, Operating,
    Readable
<1>2. CardPower'
  BY DEF Base, Session, AddUnknownCard, CardPower, SlotPower, OwnerRead, Readable
<1>3. Keys'
  BY UsersAssumption, OwnerAssumption, BoundsAssumption, CardInIs DEF Base, Session,
    AddUnknownCard, Keys, TypeOK, OneCard, Route, OwnerRead, Served, Fits, Detections,
    Screens, Steps, Goals, Readable
<1> QED BY <1>1, <1>2, <1>3 DEF Session

LEMMA AddUserSession ==
  ASSUME Base, Session, AddUser
  PROVE  Session'
<1>1. Debouncer' /\ Believed' /\ CardPower' /\ Powered' /\ SameCard' /\ Operations' /\
      LockScreen' /\ LockedSteps' /\ Managing'
  BY DEF Base, Session, AddUser, Debouncer, Believed, CardPower, Powered, SameCard,
    Operations, LockScreen, LockedSteps, Managing, Locked, Operating
<1>2. Keys'
  BY UsersAssumption, OwnerAssumption, BoundsAssumption, CardInIs DEF Base, Session,
    AddUser, Keys, TypeOK, OneCard, Route, Served, Fits, Detections, Screens, Steps,
    Goals
<1> QED BY <1>1, <1>2 DEF Session

LEMMA CompareSession ==
  ASSUME Base, Session, Compare
  PROVE  Session'
<1>1. Debouncer' /\ Believed' /\ CardPower' /\ Powered' /\ SameCard' /\ LockedSteps' /\
      Managing' /\ Keys'
  BY DEF Base, Session, Compare, Debouncer, Believed, CardPower, Powered, SameCard,
    LockedSteps, Managing, Keys, OwnerRead, Fail, Wiped, Locked, Served, Fits, Readable,
    Done
<1>2. Operations'
  BY UsersAssumption, OwnerAssumption, BoundsAssumption, CardInIs DEF Base, Session,
    Compare, Operations, TypeOK, OneCard, Route, OwnerRead, Fail, Wiped, Operating,
    Detections, Screens, Steps, Goals, Readable, Done
<1>3. LockScreen'
  BY CompareLockScreen DEF Base
<1> QED BY <1>1, <1>2, <1>3 DEF Session

LEMMA CloneCheckSession ==
  ASSUME Base, Session, CloneCheck
  PROVE  Session'
<1>1. Debouncer' /\ CardPower' /\ Powered' /\ SameCard' /\ LockScreen' /\ LockedSteps' /\
      Managing' /\ Keys'
  BY DEF Base, Session, CloneCheck, Debouncer, CardPower, Powered, SameCard, LockScreen,
    LockedSteps, Managing, Keys, OwnerRead, Served, Fits, Readable
<1>2. Believed'
  BY UsersAssumption, OwnerAssumption, BoundsAssumption, CardInIs DEF Base, Session,
    CloneCheck, Believed, TypeOK, OneCard, Route, OwnerRead, Locked, Detections,
    Screens, Steps, Goals, Readable
<1>3. Operations'
  BY UsersAssumption, OwnerAssumption, BoundsAssumption, CardInIs DEF Base, Session,
    CloneCheck, Operations, TypeOK, OneCard, Route, OwnerRead, Operating, Detections,
    Screens, Steps, Goals, Readable
<1> QED BY <1>1, <1>2, <1>3 DEF Session

LEMMA CloneWriteSession ==
  ASSUME Base, Session, CloneWrite
  PROVE  Session'
BY DEF Base, Session, CloneWrite, Debouncer, Believed, CardPower, Powered, SameCard,
   Operations, LockScreen, LockedSteps, Managing, Keys, Readable, Locked, Operating, Served,
   Fits

LEMMA CloneUnlockSession ==
  ASSUME Base, Session, CloneUnlock
  PROVE  Session'
<1>1. Debouncer' /\ Believed' /\ CardPower' /\ Powered' /\ SameCard' /\ Operations' /\
      LockedSteps' /\ Managing' /\ Keys'
  BY DEF Base, Session, CloneUnlock, Debouncer, Believed, CardPower, Powered, SameCard,
    Operations, LockedSteps, Managing, Keys, Locked, Operating, Served, Fits
<1>2. LockScreen'
  BY DEF Base, Session, CloneUnlock, LockScreen, Route, Operations, Operating
<1> QED BY <1>1, <1>2 DEF Session

LEMMA EraseUserSession ==
  ASSUME Base, Session, EraseUser
  PROVE  Session'
<1>1. Debouncer' /\ Believed' /\ CardPower' /\ Powered' /\ SameCard' /\ LockScreen' /\
      LockedSteps' /\ Managing'
  BY DEF Base, Session, EraseUser, Debouncer, Believed, CardPower, Powered, SameCard,
    LockScreen, LockedSteps, Managing, Wiped, Locked, Readable
<1>2. Operations'
  BY UsersAssumption, OwnerAssumption, BoundsAssumption, CardInIs DEF Base, Session,
    EraseUser, Operations, TypeOK, OneCard, Route, Wiped, Operating, Detections,
    Screens, Steps, Goals, Readable
<1>3. Keys'
  BY UsersAssumption, OwnerAssumption, BoundsAssumption, CardInIs DEF Base, Session,
    EraseUser, Keys, TypeOK, OneCard, Route, Wiped, Served, Fits, Detections, Screens,
    Steps, Goals, Readable
<1> QED BY <1>1, <1>2, <1>3 DEF Session

LEMMA EraseCardsSession ==
  ASSUME Base, Session, EraseCards
  PROVE  Session'
<1>1. Debouncer' /\ CardPower' /\ Powered' /\ SameCard' /\ LockScreen' /\ LockedSteps' /\
      Managing' /\ Keys'
  BY DEF Base, Session, EraseCards, Debouncer, CardPower, Powered, SameCard, LockScreen,
    LockedSteps, Managing, Keys, Served, Fits
<1>2. Believed'
  BY UsersAssumption, OwnerAssumption, BoundsAssumption, CardInIs DEF Base, Session,
    EraseCards, Believed, TypeOK, OneCard, Route, Locked, Detections, Screens, Steps,
    Goals
<1>3. Operations'
  BY UsersAssumption, OwnerAssumption, BoundsAssumption, CardInIs DEF Base, Session,
    EraseCards, Operations, TypeOK, OneCard, Route, Operating, Detections, Screens,
    Steps, Goals
<1> QED BY <1>1, <1>2, <1>3 DEF Session

LEMMA EraseLutEntrySession ==
  ASSUME Base, Session, EraseLutEntry
  PROVE  Session'
<1>1. Debouncer' /\ Believed' /\ CardPower' /\ Powered' /\ SameCard' /\ LockScreen' /\
      LockedSteps' /\ Managing'
  BY DEF Base, Session, EraseLutEntry, Debouncer, Believed, CardPower, Powered,
    SameCard, LockScreen, LockedSteps, Managing, Locked
<1>2. Operations'
  BY UsersAssumption, OwnerAssumption, BoundsAssumption, CardInIs DEF Base, Session,
    EraseLutEntry, Operations, TypeOK, OneCard, Route, Operating, Detections, Screens,
    Steps, Goals
<1>3. Keys'
  BY UsersAssumption, OwnerAssumption, BoundsAssumption, CardInIs DEF Base, Session,
    EraseLutEntry, Keys, TypeOK, OneCard, Route, Served, Fits, Detections, Screens,
    Steps, Goals
<1> QED BY <1>1, <1>2, <1>3 DEF Session

-----------------------------------------------------------------------------
(* The theorems.                                                            *)

LEMMA InitBase ==
  ASSUME Init
  PROVE  Base
<1>1. TypeOK
  <2>1. TypeMain /\ TypeSession
    BY DEF Init, TypeMain, TypeSession, Screens, Steps, Goals
  <2>2. TypeRest
    <3>1. tries \in [Cards -> 0 .. MaxTries] /\ counter \in 0 .. Debounce + 1
          /\ preempted \in 0 .. MaxPreempted
      BY BoundsAssumption DEF Init
    <3> QED BY <3>1, OwnerAssumption DEF Init, TypeRest, Detections
  <2> QED BY <2>1, <2>2, TypeParts
<1>2. OneCard /\ Route /\ SlotPower /\ PinPhase /\ Tries /\ InTable
  BY BoundsAssumption DEF Init, OneCard, Route, SlotPower, PinPhase, Tries, InTable, Served
<1> QED BY <1>1, <1>2 DEF Base

LEMMA NextBase ==
  ASSUME Base, [Next]_vars
  PROVE  Base'
<1>1. CASE (\E c \in Cards : InsertCard(c)) \/ RemoveCard \/ Tick \/ RequestLogOff
  BY <1>1, InsertCardBase, RemoveCardBase, TickBase, RequestLogOffBase
<1>2. CASE PollStep
  BY <1>2, PollBase, AckBase DEF PollStep
<1>3. CASE LoopStep
  BY <1>3, LogOffBase, UsbTimeoutBase, LeaveManagementModeBase, HandleResultBase, GuiBase,
     CommsBase, SetManagementModeBase DEF LoopStep
<1>4. CASE UnlockStep
  BY <1>4, ReauthBase, PowerSlotBase, SetCardPoweredBase, ClassifyBase, ReadCpzBase,
     NoPinBase, RightPinBase, WrongPinBase, WaitRemovalBase, ReadKeyBase, UnlockBase,
     AddUnknownCardBase, AddUserBase DEF UnlockStep
<1>5. CASE CardStep
  BY <1>5, CompareBase, CloneCheckBase, CloneWriteBase, CloneUnlockBase, EraseUserBase,
     EraseCardsBase, EraseLutEntryBase DEF CardStep
<1>6. CASE UNCHANGED vars
  <2>1. TypeOK' /\ OneCard' /\ Route' /\ SlotPower'
    BY <1>6 DEF Base, vars, TypeOK, OneCard, Route, SlotPower
  <2>2. PinPhase' /\ Tries' /\ InTable'
    BY <1>6 DEF Base, vars, PinPhase, AskedFor, Tries, InTable, Served
  <2> QED BY <2>1, <2>2 DEF Base
<1> QED BY <1>1, <1>2, <1>3, <1>4, <1>5, <1>6 DEF Next, MainStep

\* Every state is one of Base.
THEOREM SpecBase == Spec => []Base
BY InitBase, NextBase, PTL DEF Spec

\* The counter of the debouncing, the tries of the cards and the owners keep their
\* types: the count never passes one above the delay, and no try is taken from a card
\* that has none.
THEOREM SpecTypeOK == Spec => []TypeOK
<1>1. Base => TypeOK
  BY DEF Base
<1> QED BY <1>1, SpecBase, PTL

\* Whatever cards are put in while a user is erased, and whenever the interrupt comes,
\* the device is unlocked only for users of the table.
THEOREM SpecErasedUserIsLocked == Spec => []ErasedUserIsLocked
<1>1. Base => ErasedUserIsLocked
  BY DEF Base, InTable, ErasedUserIsLocked
<1> QED BY <1>1, SpecBase, PTL

\* Only the two answers to the prompt for a PIN change the tries of a card.
LEMMA TriesStay ==
  ASSUME Base, [Next]_vars, ~RightPin, ~WrongPin
  PROVE  UNCHANGED tries
BY DEF Next, MainStep, PollStep, LoopStep, UnlockStep, CardStep, vars, InsertCard,
       RemoveCard, Tick, RequestLogOff, Poll, Ack, LogOff, UsbTimeout,
       LeaveManagementMode, HandleResult, Gui, Comms, SetManagementMode, Reauth,
       PowerSlot, SetCardPowered, Classify, ReadCpz, NoPin, WaitRemoval, ReadKey,
       Unlock, AddUnknownCard, AddUser, Compare, CloneCheck, CloneWrite, CloneUnlock,
       EraseUser, EraseCards, EraseLutEntry

LEMMA LastTry ==
  ASSUME Base, [Next]_vars, NEW c \in Cards, tries[c] = 1, tries'[c] = 0
  PROVE  c \in pulled
<1>1. tries[c] # tries'[c]
  OBVIOUS
<1>2. pc = "pin"
  BY <1>1, TriesStay DEF RightPin, WrongPin
<1> QED BY <1>2 DEF Base, Tries

\* A wrong PIN uses up the last try of a card only if the card left the slot since the
\* try before.
THEOREM SpecLastTryNeedsRemoval == Spec => LastTryNeedsRemoval
<1>1. Base /\ [Next]_vars =>
        [\A c \in Cards : tries[c] = 1 /\ tries'[c] = 0 => c \in pulled]_vars
  BY LastTry
<1> QED BY <1>1, SpecBase, PTL DEF Spec, LastTryNeedsRemoval

LEMMA InitSession ==
  ASSUME Init
  PROVE  Session
BY DEF Init, Session, Debouncer, Believed, Locked, CardPower, Powered, SameCard,
       Operations, Operating, LockScreen, LockedSteps, Managing, Keys, Served

LEMMA NextSession ==
  ASSUME preempted = 0, preempted' = 0, Base, Session, [Next]_vars
  PROVE  Session'
<1>1. CASE (\E c \in Cards : InsertCard(c)) \/ RemoveCard \/ Tick \/ RequestLogOff
  BY <1>1, InsertCardSession, RemoveCardSession, TickSession, RequestLogOffSession
<1>2. CASE PollStep
  BY <1>2, PollSession, AckSession DEF PollStep
<1>3. CASE LoopStep
  BY <1>3, LogOffSession, UsbTimeoutSession, LeaveManagementModeSession,
     HandleResultSession, GuiSession, CommsSession, SetManagementModeSession DEF LoopStep
<1>4. CASE UnlockStep
  BY <1>4, ReauthSession, PowerSlotSession, SetCardPoweredSession, ClassifySession,
     ReadCpzSession, NoPinSession, RightPinSession, WrongPinSession, WaitRemovalSession,
     ReadKeySession, UnlockSession, AddUnknownCardSession, AddUserSession DEF UnlockStep
<1>5. CASE CardStep
  BY <1>5, CompareSession, CloneCheckSession, CloneWriteSession, CloneUnlockSession,
     EraseUserSession, EraseCardsSession, EraseLutEntrySession DEF CardStep
<1>6. CASE UNCHANGED vars
  <2>1. Debouncer' /\ Believed' /\ CardPower' /\ Powered' /\ SameCard'
    BY <1>6 DEF Session, vars, Debouncer, Believed, Locked, CardPower, Powered, SameCard
  <2>2. Operations' /\ LockScreen' /\ LockedSteps' /\ Managing' /\ Keys'
    BY <1>6 DEF Session, vars, Operations, Operating, LockScreen, LockedSteps, Managing,
       Keys,
                Served, Fits
  <2> QED BY <2>1, <2>2 DEF Session
<1> QED BY <1>1, <1>2, <1>3, <1>4, <1>5, <1>6 DEF Next, MainStep

\* The ticks that came between a reading of card_return and its critical section are
\* only counted up.
LEMMA PreemptedGrows ==
  ASSUME Base, [Next]_vars, preempted' = 0
  PROVE  preempted = 0
<1>1. preempted \in Nat
  BY BoundsAssumption DEF Base, TypeOK
<1>2. UNCHANGED preempted \/ preempted' = preempted + 1
  BY DEF Next, MainStep, PollStep, LoopStep, UnlockStep, CardStep, vars, InsertCard,
       RemoveCard, Tick, RequestLogOff, Poll, Ack, LogOff, UsbTimeout,
       LeaveManagementMode, HandleResult, Gui, Comms, SetManagementMode, Reauth,
       PowerSlot, SetCardPowered, Classify, ReadCpz, NoPin, RightPin, WrongPin,
       WaitRemoval, ReadKey, Unlock, AddUnknownCard, AddUser, Compare, CloneCheck,
       CloneWrite, CloneUnlock, EraseUser, EraseCards, EraseLutEntry
<1> QED BY <1>1, <1>2

\* Session holds until a tick has come there.
THEOREM SpecSession == Spec => [](preempted = 0 => Session)
<1> DEFINE Inv == Base /\ (preempted = 0 => Session)
<1>1. Init => Inv
  BY InitBase, InitSession
<1>2. Inv /\ [Next]_vars => Inv'
  <2> SUFFICES ASSUME Inv, [Next]_vars
               PROVE  Inv'
    OBVIOUS
  <2>1. Base'
    BY NextBase
  <2>2. preempted' = 0 => Session'
    BY PreemptedGrows, NextSession
  <2> QED BY <2>1, <2>2
<1>3. Inv => (preempted = 0 => Session)
  OBVIOUS
<1> QED BY <1>1, <1>2, <1>3, PTL DEF Spec

\* As long as no tick came there, the removal of a card the main thread was told of is
\* kept for its next poll.
THEOREM SpecReleaseReported == Spec => [](preempted = 0 => ReleaseReported)
<1>1. Base /\ Session => ReleaseReported
  BY BoundsAssumption DEF Base, Session, Debouncer, ReleaseReported
<1> QED BY <1>1, SpecBase, SpecSession, PTL

\* As long as no tick came there, an unlocked device without a card knows of the removal
\* before it serves anybody.
THEOREM SpecRemovalLocks == Spec => [](preempted = 0 => RemovalLocks)
<1>1. Base /\ Session => RemovalLocks
  BY BoundsAssumption DEF Base, Session, Route, SlotPower, Debouncer, Believed, Locked,
     CardPower, RemovalLocks, RemovalPending, Serving
<1> QED BY <1>1, SpecBase, SpecSession, PTL

\* As long as no tick came there, management mode never outlives the user it was opened
\* for.
THEOREM SpecMmmNeedsUser == Spec => [](preempted = 0 => MmmNeedsUser)
<1>1. Session => MmmNeedsUser
  BY DEF Session, Managing, MmmNeedsUser, Serving
<1> QED BY <1>1, SpecSession, PTL

\* As long as no tick came there, the key in the context is that of the user who is
\* served.
THEOREM SpecKeyOfCurrentUser == Spec => [](preempted = 0 => KeyOfCurrentUser)
<1>1. Base /\ Session => KeyOfCurrentUser
  BY DEF Base, Session, Route, Keys, Fits, KeyOfCurrentUser, Serving
<1> QED BY <1>1, SpecBase, SpecSession, PTL
=============================================================================
