---------------------------- MODULE SmartcardSession ----------------------------
(***************************************************************************)
(* Smartcard detection, unlocking and locking of the device: the 1 ms tick *)
(* interrupt (smartcard_lowlevel_detect) against the main thread (main.c,  *)
(* logic_smartcard.c, logic_gui.c, and the host commands that lock the     *)
(* device or open management mode).                                        *)
(*                                                                         *)
(* The interrupt debounces the contact, cuts the power of the slot and     *)
(* clears the security flags when the card leaves.  The main thread learns *)
(* of insertions and removals by polling, holds the user and the key, and  *)
(* sets the flags.  It waits in prompts, during which only the interrupt   *)
(* runs.                                                                   *)
(***************************************************************************)
EXTENDS Integers

CONSTANTS
  Users,         \* users with an entry in the CPZ look-up table
  Cards,         \* smartcards
  Owner,         \* [Cards -> Users \cup {Nobody}] at first: Nobody is a blank card
  Nobody,        \* no user
  Garbage,       \* a key read from a card that does not answer
  Debounce,      \* CARD_DELAY_FOR_DETECTION, 250 ticks in the firmware
  MaxTries,      \* PIN tries of a card that was unlocked, 4 in the hardware
  MaxPreempted   \* bound on the ticks that change card_return between its read
                 \* and the critical section of is_card_plugged

ASSUME UsersAssumption == Nobody \notin Users /\ Garbage \notin Users \cup {Nobody}
ASSUME OwnerAssumption == Owner \in [Cards -> Users \cup {Nobody}]
ASSUME BoundsAssumption ==
  Debounce \in Nat \ {0} /\ MaxTries \in Nat \ {0, 1} /\ MaxPreempted \in Nat

VARIABLES
  card,        \* the card in the slot, as a set of at most one
  counter,     \* card_detect_counter
  cardReturn,  \* card_return
  cardPowered, \* card_powered
  slotOn,      \* the slot has power
  authed,      \* the card in the slot has accepted a PIN since it has power
  owner,       \* the user whose code protected zone and key each card holds
  tries,       \* PIN tries each card has left
  lut,         \* users in the CPZ look-up table
  unlocked,    \* logic_security_smartcard_inserted_unlocked
  mmm,         \* logic_security_management_mode
  curUser,     \* nodemgmt_current_handle.currentUserId
  key,         \* user whose key is in the encryption context
  screen,      \* gui_dispatcher current screen
  pc,          \* where the main thread is
  goal,        \* what the card is being unlocked for
  result,      \* what the last poll returned
  copy,        \* return_val of smartcard_lowlevel_is_card_plugged
  waitFor,     \* what the main thread polls for: "any" in its main loop
  cpz,         \* user of the card the main thread read before: temp_cpz1, temp_cpz,
               \* the user to erase
  warned,      \* warning_displayed of logic_smartcard_user_unlock_process
  pulled,      \* history: cards with one try left that left the slot since then
  toLogOff,    \* logic_user_should_be_logged_off_flag
  told,        \* history: the last news a poll returned is JDETECT
  preempted    \* history: ticks counted by MaxPreempted

slot == <<card, counter, cardReturn, cardPowered>>
cards == <<owner, tries, lut, pulled>>
flags == <<unlocked, mmm>>
context == <<curUser, key>>
locals == <<goal, result, copy, waitFor, cpz, warned, toLogOff, told>>
vars == <<slot, slotOn, authed, cards, flags, context, screen, pc, locals, preempted>>

Detections == {"REL", "JDETECT", "DET", "JRELEASED"}
Screens == {"NINSERTED", "INSERTED_LCK", "INSERTED_INVALID", "INSERTED_UNKNOWN",
            "MAIN_MENU", "OPERATIONS", "MEMORY_MGMT"}
Goals == {"insert", "click", "change_pin", "clone", "clone_target", "erase",
          "erase_other", "mmm", "unknown"}
Steps == {"loop", "gui", "comms", "poll", "ack", "reauth", "detect", "powered",
          "classify", "cpz", "pin", "wait_removal", "add_user", "read_key", "unlock",
          "compare", "set_mmm", "clone_check", "clone_write", "clone_unlock", "erase",
          "erase_cards", "erase_lut"}

TypeOK ==
  /\ card \in SUBSET Cards
  /\ counter \in 0..(Debounce + 1)
  /\ {cardReturn, result, copy} \subseteq Detections
  /\ {cardPowered, slotOn, authed, unlocked, mmm, warned, toLogOff, told} \subseteq BOOLEAN
  /\ owner \in [Cards -> Users \cup {Nobody}]
  /\ tries \in [Cards -> 0..MaxTries]
  /\ lut \in SUBSET Users
  /\ {curUser, cpz} \subseteq Users \cup {Nobody}
  /\ key \in Users \cup {Nobody, Garbage}
  /\ screen \in Screens
  /\ pc \in Steps
  /\ goal \in Goals
  /\ waitFor \in {"any", "JRELEASED", "JDETECT"}
  /\ pulled \in SUBSET Cards
  /\ preempted \in 0..MaxPreempted

Init ==
  /\ card = {}
  /\ counter = 0
  /\ cardReturn = "REL" /\ result = "REL" /\ copy = "REL"
  /\ cardPowered = FALSE /\ slotOn = FALSE /\ authed = FALSE
  /\ owner = Owner
  /\ tries = [c \in Cards |-> MaxTries]
  /\ lut = Users
  /\ unlocked = FALSE /\ mmm = FALSE
  /\ curUser = Nobody /\ key = Nobody /\ cpz = Nobody
  /\ screen = "NINSERTED"
  /\ pc = "loop"
  /\ goal = "insert"
  /\ waitFor = "any"
  /\ warned = FALSE
  /\ pulled = {}
  /\ toLogOff = FALSE /\ told = FALSE
  /\ preempted = 0

-----------------------------------------------------------------------------
(* The card and the interrupt *)

\* A card stays in the slot, and out of it, for one tick at least.
InsertCard(c) ==
  /\ card = {}
  /\ counter = 0
  /\ card' = {c}
  /\ UNCHANGED <<counter, cardReturn, cardPowered, slotOn, authed, cards, flags,
                 context, screen, pc, locals, preempted>>

RemoveCard ==
  /\ card # {}
  /\ counter # 0
  /\ card' = {}
  /\ authed' = FALSE
  /\ pulled' = pulled \cup {c \in card : tries[c] = 1}
  /\ UNCHANGED <<counter, cardReturn, cardPowered, slotOn, owner, tries, lut, flags,
                 context, screen, pc, locals, preempted>>

\* Mutant: the count goes on while the removal of the last card is not yet known.
CountPastRelease == IF counter <= Debounce THEN counter + 1 ELSE counter

\* The count of the ticks the contact has been closed for waits at Debounce until the
\* main thread knows that the last card left, and is saturated above it.
Count ==
  IF counter < Debounce \/ (counter = Debounce /\ cardReturn # "JRELEASED")
    THEN counter + 1 ELSE counter

TickPresent ==
  /\ card # {}
  /\ counter' = Count
  /\ cardReturn' = IF counter = Debounce /\ cardReturn # "JRELEASED"
                     THEN "JDETECT" ELSE cardReturn
  /\ UNCHANGED <<cardPowered, slotOn, authed, flags>>

\* Mutants: the flags are left to the main thread; management mode is left on.
ClearSecurityBoolsLater == UNCHANGED flags
ClearSecurityBoolsNotMmm == unlocked' = FALSE /\ UNCHANGED mmm

\* logic_security_clear_security_bools.
ClearSecurityBools == unlocked' = FALSE /\ mmm' = FALSE

\* Mutant: a removal nobody asked about for a tick is forgotten.
WithoutCardOnce(r) == IF r = "DET" THEN "JRELEASED" ELSE "REL"

\* card_return after a tick with an open contact.
WithoutCard(r) == IF r \in {"DET", "JRELEASED"} THEN "JRELEASED" ELSE "REL"

\* Mutant: the power stays on.
CutPowerNever == UNCHANGED <<slotOn, authed>>

\* platform_io_smc_remove_function.
CutPower == slotOn' = FALSE /\ authed' = FALSE

\* The contact is open: cut the power, lock, and tell the main thread.
TickAbsent ==
  /\ card = {}
  /\ counter' = 0
  /\ cardReturn' = WithoutCard(cardReturn)
  /\ IF counter # 0 /\ cardPowered
       THEN cardPowered' = FALSE /\ CutPower /\ ClearSecurityBools
       ELSE UNCHANGED <<cardPowered, slotOn, authed, flags>>

Tick ==
  /\ TickPresent \/ TickAbsent
  /\ IF pc = "ack" /\ cardReturn' # cardReturn
       THEN preempted < MaxPreempted /\ preempted' = preempted + 1
       ELSE UNCHANGED preempted
  /\ UNCHANGED <<card, cards, context, screen, pc, locals>>

-----------------------------------------------------------------------------
(* Polling: smartcard_lowlevel_is_card_plugged *)

\* What the caller does with the detection r: the main loop takes it, the wait
\* loops of cloning and erasing go round until it is the one they wait for.
PollReturns(r) ==
  /\ result' = r
  /\ told' = IF r \in {"JDETECT", "JRELEASED"} THEN r = "JDETECT" ELSE told
  /\ pc' = IF waitFor = "any" THEN "loop"
           ELSE IF waitFor = "JDETECT" /\ r = "JDETECT" THEN "detect" ELSE "poll"
  /\ waitFor' = IF waitFor # r THEN waitFor
                ELSE IF r = "JRELEASED" THEN "JDETECT" ELSE "any"

\* card_return is read; news goes on to the critical section.
Poll ==
  /\ pc = "poll"
  /\ IF cardReturn \in {"DET", "REL"}
       THEN PollReturns(cardReturn) /\ UNCHANGED copy
       ELSE pc' = "ack" /\ copy' = cardReturn /\ UNCHANGED <<result, waitFor, told>>
  /\ UNCHANGED <<slot, slotOn, authed, cards, flags, context, screen, goal, cpz, warned,
                 toLogOff, preempted>>

\* The critical section acknowledges what card_return holds by now, and the copy
\* made before it is returned.
Ack ==
  /\ pc = "ack"
  /\ cardReturn' = CASE cardReturn = "JDETECT" -> "DET"
                     [] cardReturn = "JRELEASED" -> "REL"
                     [] OTHER -> cardReturn
  /\ PollReturns(copy)
  /\ copy' = "REL"
  /\ UNCHANGED <<card, counter, cardPowered, slotOn, authed, cards, flags, context,
                 screen, goal, cpz, warned, toLogOff, preempted>>

-----------------------------------------------------------------------------
(* The main loop *)

\* logic_smartcard_handle_removed: power, flags and key go, the user stays.
HandleRemoved == CutPower /\ ClearSecurityBools /\ key' = Nobody

KeepSession == UNCHANGED <<slotOn, authed, flags, key>>

\* Frame of the steps of the main thread outside the unlocking of a card.
SessionFrame == UNCHANGED <<slot, cards, curUser, copy, waitFor, told, preempted>>
MainFrame == SessionFrame /\ UNCHANGED <<result, cpz, warned, toLogOff>>

\* The device loses its power supply: logic_power.c, which also runs in prompts, asks
\* for the user to be logged off.
RequestLogOff ==
  /\ unlocked
  /\ pc \in {"loop", "gui", "comms", "set_mmm", "clone_check", "erase", "erase_cards"}
     \/ (pc = "poll" /\ goal = "clone_target")
  /\ toLogOff' = TRUE
  /\ UNCHANGED <<slot, slotOn, authed, cards, flags, context, screen, pc, goal, result,
                 copy, waitFor, cpz, warned, told, preempted>>

\* The main loop does so before it looks at the result of the poll ...
LogOff ==
  /\ pc = "loop"
  /\ toLogOff
  /\ toLogOff' = FALSE
  /\ HandleRemoved
  /\ screen' = "INSERTED_LCK"
  /\ UNCHANGED <<pc, goal, result, cpz, warned>>
  /\ SessionFrame

\* ... and locks after it when the USB host has gone quiet.
UsbTimeout ==
  /\ pc = "gui"
  /\ unlocked
  /\ HandleRemoved
  /\ screen' = "INSERTED_LCK"
  /\ UNCHANGED <<pc, goal>>
  /\ MainFrame

\* The locals of the last round are dead.
HandleResult ==
  /\ pc = "loop"
  /\ ~toLogOff
  /\ IF result = "JRELEASED"
       THEN HandleRemoved /\ screen' = "NINSERTED"
       ELSE KeepSession /\ UNCHANGED screen
  /\ pc' = IF result = "JDETECT" THEN "detect" ELSE "gui"
  /\ goal' = "insert" /\ result' = "REL" /\ cpz' = Nobody /\ warned' = FALSE
  /\ UNCHANGED toLogOff
  /\ SessionFrame

\* The connection the host opened management mode on has changed.
LeaveManagementMode ==
  /\ pc = "loop"
  /\ screen = "MEMORY_MGMT" /\ mmm
  /\ mmm' = FALSE
  /\ screen' = "MAIN_MENU"
  /\ UNCHANGED <<slotOn, authed, unlocked, key, pc, goal>>
  /\ MainFrame

OtherMenu(menu) == IF menu = "MAIN_MENU" THEN "OPERATIONS" ELSE "MAIN_MENU"

\* A click on the locked screen; in the menus, the lock icon and the operations that
\* ask for the card's PIN again.  The menus look at the screen, not at the flags.
Gui ==
  /\ pc = "gui"
  /\ \/ pc' = "comms" /\ UNCHANGED <<goal, screen>> /\ KeepSession
     \/ /\ screen = "INSERTED_LCK"
        /\ pc' = "detect" /\ goal' = "click"
        /\ UNCHANGED screen /\ KeepSession
     \/ /\ screen \in {"MAIN_MENU", "OPERATIONS"}
        /\ pc' = "comms" /\ screen' = OtherMenu(screen) /\ UNCHANGED goal
        /\ KeepSession
     \/ /\ screen = "MAIN_MENU"
        /\ pc' = "comms" /\ screen' = "INSERTED_LCK" /\ UNCHANGED goal
        /\ HandleRemoved
     \/ /\ screen = "OPERATIONS"
        /\ pc' = "reauth" /\ goal' \in {"change_pin", "clone", "erase"}
        /\ UNCHANGED screen /\ KeepSession
  /\ MainFrame

\* Host commands: HID_CMD_LOCK_DEVICE; HID_CMD_START_MMM, which checks the flag and
\* then prompts, with or without the PIN; HID_CMD_END_MMM.
Comms ==
  /\ pc = "comms"
  /\ \/ pc' = "poll" /\ UNCHANGED <<goal, screen>> /\ KeepSession
     \/ /\ unlocked
        /\ pc' = "poll" /\ screen' = "INSERTED_LCK" /\ UNCHANGED goal
        /\ HandleRemoved
     \/ /\ unlocked
        /\ pc' \in {"reauth", "set_mmm"} /\ goal' = "mmm"
        /\ UNCHANGED screen /\ KeepSession
     \/ /\ mmm
        /\ pc' = "poll" /\ screen' = "MAIN_MENU" /\ mmm' = FALSE
        /\ UNCHANGED <<goal, slotOn, authed, unlocked, key>>
  /\ MainFrame

\* logic_security_set_management_mode, once the user has approved.
SetManagementMode ==
  /\ pc = "set_mmm"
  /\ mmm' = TRUE
  /\ screen' = "MEMORY_MGMT"
  /\ pc' = "poll"
  /\ UNCHANGED <<slotOn, authed, unlocked, key, goal>>
  /\ MainFrame

-----------------------------------------------------------------------------
(* Unlocking a card *)

CardIn == CHOOSE c \in card : TRUE
Readable == card # {} /\ slotOn
OwnerRead == IF Readable THEN owner[CardIn] ELSE Nobody

UnlockFrame == UNCHANGED <<card, counter, cardReturn, owner, lut, pulled, result, copy,
                           waitFor, toLogOff, told, preempted>>

Done == CASE goal = "insert" -> "gui"
          [] goal \in {"mmm", "unknown"} -> "poll"
          [] goal = "erase_other" -> "erase_cards"
          [] OTHER -> "comms"

\* The card is not unlocked.  screenIfInserted is where an insertion or a click ends.
Fail(screenIfInserted) ==
  /\ pc' = Done
  /\ screen' = CASE goal \in {"insert", "click"} -> screenIfInserted
                 [] goal = "clone_target" -> "INSERTED_INVALID"
                 [] goal \in {"erase_other", "unknown"} -> screen
                 [] OTHER -> "INSERTED_LCK"
  /\ IF goal = "erase" THEN HandleRemoved ELSE KeepSession

\* logic_smartcard_remove_card_and_reauth_user, up to the power cycle.
Reauth ==
  /\ pc = "reauth"
  /\ cpz' = OwnerRead
  /\ HandleRemoved
  /\ pc' = "detect"
  /\ UNCHANGED <<cardPowered, tries, curUser, screen, goal, warned>>
  /\ UnlockFrame

\* smartcard_lowlevel_first_detect_function: two assignments, then 300 ms.
PowerSlot ==
  /\ pc = "detect"
  /\ slotOn' = TRUE
  /\ pc' = "powered"
  /\ UNCHANGED <<cardPowered, authed, tries, flags, context, screen, goal, cpz, warned>>
  /\ UnlockFrame

SetCardPowered ==
  /\ pc = "powered"
  /\ cardPowered' = TRUE
  /\ pc' = "classify"
  /\ UNCHANGED <<slotOn, authed, tries, flags, context, screen, goal, cpz, warned>>
  /\ UnlockFrame

\* What kind of card it is.  A card that does not answer or is blocked loses its
\* power, if it was just inserted.  A new user for a blank card is not modelled.
Classify ==
  /\ pc = "classify"
  /\ IF ~Readable \/ tries[CardIn] = 0
       THEN IF goal \in {"insert", "click"}
              THEN /\ CutPower
                   /\ pc' = Done /\ screen' = "INSERTED_INVALID"
                   /\ UNCHANGED <<flags, key>>
              ELSE Fail("INSERTED_INVALID")
       ELSE IF (owner[CardIn] = Nobody) # (goal = "clone_target")
              THEN Fail("INSERTED_INVALID")
              ELSE /\ pc' = IF goal = "clone_target" THEN "clone_write" ELSE "cpz"
                   /\ UNCHANGED screen /\ KeepSession
  /\ UNCHANGED <<cardPowered, tries, curUser, goal, cpz, warned>>
  /\ UnlockFrame

\* logic_smartcard_valid_card_unlock: the user context is set up before the PIN is
\* asked for.
ReadCpz ==
  /\ pc = "cpz"
  /\ IF OwnerRead \in lut
       THEN /\ curUser' = OwnerRead
            /\ warned' = (tries[CardIn] = 1)
            /\ pc' = "pin"
            /\ UNCHANGED screen /\ KeepSession
       ELSE Fail("INSERTED_UNKNOWN") /\ UNCHANGED <<curUser, warned>>
  /\ UNCHANGED <<cardPowered, tries, goal, cpz>>
  /\ UnlockFrame

\* The prompt ends without a PIN: the user goes back or takes too long, or the card
\* is gone.
NoPin ==
  /\ pc = "pin"
  /\ Fail(IF card = {} THEN "INSERTED_INVALID" ELSE "INSERTED_LCK")
  /\ UNCHANGED <<cardPowered, tries, curUser, goal, cpz, warned>>
  /\ UnlockFrame

RightPin ==
  /\ pc = "pin"
  /\ IF Readable /\ tries[CardIn] > 0
       THEN /\ tries' = [tries EXCEPT ![CardIn] = MaxTries]
            /\ authed' = TRUE
            /\ pc' = IF goal = "unknown" THEN "add_user" ELSE "read_key"
            /\ UNCHANGED <<slotOn, flags, key, screen>>
       ELSE Fail("INSERTED_INVALID") /\ UNCHANGED tries
  /\ UNCHANGED <<cardPowered, curUser, goal, cpz, warned>>
  /\ UnlockFrame

\* After a wrong PIN that leaves left tries.  Mutant: no removal is asked for.
AfterWrongPinNoRemoval(left) == IF left = 0 THEN "fail" ELSE "pin"
AfterWrongPin(left) ==
  CASE left = 0 -> "fail"
    [] left = 1 -> IF warned THEN "fail" ELSE "wait_removal"
    [] OTHER -> "pin"

WrongPin ==
  /\ pc = "pin"
  /\ IF Readable /\ tries[CardIn] > 0
       THEN LET left == tries[CardIn] - 1
            IN /\ tries' = [tries EXCEPT ![CardIn] = left]
               /\ IF AfterWrongPin(left) = "fail"
                    THEN Fail("INSERTED_INVALID")
                    ELSE /\ pc' = AfterWrongPin(left)
                         /\ UNCHANGED screen /\ KeepSession
               /\ pulled' = pulled \ card
       ELSE Fail("INSERTED_INVALID") /\ UNCHANGED <<tries, pulled>>
  /\ UNCHANGED <<card, counter, cardReturn, cardPowered, owner, lut, curUser, goal, cpz,
                 warned, result, copy, waitFor, toLogOff, told, preempted>>

WaitRemoval ==
  /\ pc = "wait_removal"
  /\ card = {}
  /\ Fail("INSERTED_INVALID")
  /\ UNCHANGED <<cardPowered, tries, curUser, goal, cpz, warned>>
  /\ UnlockFrame

\* The key is read and the encryption context set up ...
ReadKey ==
  /\ pc = "read_key"
  /\ key' = IF Readable /\ authed THEN owner[CardIn] ELSE Garbage
  /\ pc' = "unlock"
  /\ UNCHANGED <<cardPowered, slotOn, authed, tries, flags, curUser, screen, goal, cpz,
                 warned>>
  /\ UnlockFrame

\* ... and logic_security_smartcard_unlocked_actions sets the flag.
Unlock ==
  /\ pc = "unlock"
  /\ unlocked' = TRUE
  /\ mmm' = FALSE
  /\ IF goal \in {"insert", "click"}
       THEN screen' = "MAIN_MENU" /\ pc' = Done
       ELSE UNCHANGED screen /\ pc' = "compare"
  /\ UNCHANGED <<cardPowered, slotOn, authed, tries, context, goal, cpz, warned>>
  /\ UnlockFrame

\* HID_CMD_ADD_UNKNOWN_CARD_ID: the host knows the user of the card in the slot.
AddUnknownCard ==
  /\ pc = "comms"
  /\ screen = "INSERTED_UNKNOWN"
  /\ OwnerRead # Nobody
  /\ cpz' = OwnerRead
  /\ warned' = (tries[CardIn] = 1)
  /\ goal' = "unknown"
  /\ pc' = "pin"
  /\ UNCHANGED <<cardPowered, slotOn, authed, tries, flags, context, screen>>
  /\ UnlockFrame

AddUser ==
  /\ pc = "add_user"
  /\ lut' = lut \cup {cpz}
  /\ curUser' = cpz
  /\ pc' = "read_key"
  /\ UNCHANGED <<slot, slotOn, authed, owner, tries, pulled, flags, key, screen, goal,
                 result, copy, waitFor, cpz, warned, toLogOff, told, preempted>>

-----------------------------------------------------------------------------
(* What the unlocked card is for *)

Wiped == IF Readable /\ authed THEN [owner EXCEPT ![CardIn] = Nobody] ELSE owner

WaitFrame == UNCHANGED <<slot, tries, pulled, curUser, result, copy, warned, toLogOff,
                         told, preempted>>

\* The card must be the one that was in the slot before; to erase another card, the
\* user must be the one that is erased.
Compare ==
  /\ pc = "compare"
  /\ IF goal \in {"erase_other", "unknown"} \/ OwnerRead = cpz
       THEN /\ pc' = CASE goal = "change_pin" -> "comms"
                       [] goal = "clone" -> "clone_check"
                       [] goal = "erase" -> "erase"
                       [] goal = "erase_other" -> "erase_cards"
                       [] OTHER -> "set_mmm"
            /\ UNCHANGED screen /\ KeepSession
       ELSE Fail(screen)
  /\ owner' = IF goal = "erase_other" /\ curUser = cpz THEN Wiped ELSE owner
  /\ UNCHANGED <<lut, goal, waitFor, cpz>>
  /\ WaitFrame

\* logic_gui_clone_card and logic_smartcard_clone_card: the user gives up on a new
\* PIN, or the card is read and the main thread waits for its removal.
CloneCheck ==
  /\ pc = "clone_check"
  /\ \/ pc' = "comms" /\ UNCHANGED <<goal, waitFor, cpz, screen>>
     \/ /\ ~unlocked
        /\ pc' = "comms" /\ screen' = "INSERTED_INVALID"
        /\ UNCHANGED <<goal, waitFor, cpz>>
     \/ /\ unlocked
        /\ cpz' = OwnerRead
        /\ pc' = "poll" /\ waitFor' = "JRELEASED" /\ goal' = "clone_target"
        /\ UNCHANGED screen
  /\ KeepSession
  /\ UNCHANGED <<owner, lut>>
  /\ WaitFrame

CloneWrite ==
  /\ pc = "clone_write"
  /\ owner' = IF Readable THEN [owner EXCEPT ![CardIn] = cpz] ELSE owner
  /\ pc' = "clone_unlock"
  /\ KeepSession
  /\ UNCHANGED <<lut, screen, goal, waitFor, cpz>>
  /\ WaitFrame

CloneUnlock ==
  /\ pc = "clone_unlock"
  /\ unlocked' = TRUE /\ mmm' = FALSE
  /\ pc' = "comms"
  /\ UNCHANGED <<slotOn, authed, key, owner, lut, screen, goal, waitFor, cpz>>
  /\ WaitFrame

\* logic_gui_erase_user: the last confirmation, and whether to erase the card too.
EraseUser ==
  /\ pc = "erase"
  /\ \/ /\ pc' = "comms" /\ screen' = "INSERTED_LCK"
        /\ HandleRemoved
        /\ UNCHANGED <<owner, cpz>>
     \/ /\ pc' = "erase_lut" /\ cpz' = curUser
        /\ KeepSession
        /\ UNCHANGED <<owner, screen>>
     \/ /\ pc' = "erase_cards" /\ cpz' = curUser
        /\ owner' = Wiped
        /\ KeepSession
        /\ UNCHANGED screen
  /\ UNCHANGED <<lut, goal, waitFor>>
  /\ WaitFrame

EraseCards ==
  /\ pc = "erase_cards"
  /\ \/ pc' = "poll" /\ waitFor' = "JRELEASED" /\ goal' = "erase_other"
     \/ pc' = "erase_lut" /\ UNCHANGED <<waitFor, goal>>
  /\ KeepSession
  /\ UNCHANGED <<owner, lut, screen, cpz>>
  /\ WaitFrame

\* Mutant: the user stays logged in.
EraseLutEntryOnly ==
  /\ pc = "erase_lut"
  /\ lut' = lut \ {cpz}
  /\ screen' = "INSERTED_INVALID"
  /\ KeepSession
  /\ pc' = "comms"
  /\ UNCHANGED <<owner, goal, waitFor, cpz>>
  /\ WaitFrame

EraseLutEntry ==
  /\ pc = "erase_lut"
  /\ lut' = lut \ {cpz}
  /\ screen' = "INSERTED_INVALID"
  /\ HandleRemoved
  /\ pc' = "comms"
  /\ UNCHANGED <<owner, goal, waitFor, cpz>>
  /\ WaitFrame

-----------------------------------------------------------------------------
PollStep == Poll \/ Ack
LoopStep ==
  \/ LogOff \/ UsbTimeout \/ LeaveManagementMode \/ HandleResult
  \/ Gui \/ Comms \/ SetManagementMode
UnlockStep ==
  \/ Reauth \/ PowerSlot \/ SetCardPowered \/ Classify \/ ReadCpz
  \/ NoPin \/ RightPin \/ WrongPin \/ WaitRemoval \/ ReadKey \/ Unlock
  \/ AddUnknownCard \/ AddUser
CardStep ==
  \/ Compare \/ CloneCheck \/ CloneWrite \/ CloneUnlock
  \/ EraseUser \/ EraseCards \/ EraseLutEntry

MainStep == PollStep \/ LoopStep \/ UnlockStep \/ CardStep

Next == (\E c \in Cards : InsertCard(c)) \/ RemoveCard \/ Tick \/ RequestLogOff
        \/ MainStep

Spec == Init /\ [][Next]_vars

\* The timer interrupt keeps firing; the main loop keeps running, and a user who is
\* asked something answers or the prompt times out.
FairSpec == Spec /\ WF_vars(Tick) /\ WF_vars(MainStep)

-----------------------------------------------------------------------------
(* Properties *)

\* The removal of a card is still to be noticed by the next tick, or to be handled by
\* the main loop.
RemovalPending ==
  \/ card = {} /\ counter # 0
  \/ cardReturn = "JRELEASED"
  \/ pc = "ack" /\ copy = "JRELEASED"
  \/ pc = "loop" /\ result = "JRELEASED"

\* The main thread looks at the flags: it runs the menus or serves the host.
Serving == pc \in {"gui", "comms"}

\* smartcard_lowlevel_is_card_plugged reports every removal of a card it reported: the
\* main thread never believes in a card that left without news of it being kept.
ReleaseReported ==
  told /\ card = {} /\ counter = 0 =>
    cardReturn = "JRELEASED" \/ (pc = "ack" /\ copy = "JRELEASED")

\* No menu and no host command finds the device unlocked with an empty slot, except
\* during the pass of the main loop whose poll will see the removal: also when the
\* card leaves after its PIN was accepted and before the flag is set.
RemovalLocks == unlocked /\ card = {} /\ Serving => RemovalPending

\* Management mode is never on for a menu or a host command without an unlocked card,
\* although it is set after a prompt during which the interrupt may have locked.
MmmNeedsUser == mmm /\ Serving => unlocked

\* The key in the encryption context is never that of another user than the one whose
\* credentials the device serves, whatever cards are swapped during the prompts.
KeyOfCurrentUser == unlocked /\ Serving /\ key \in Users => key = curUser

\* The device is never unlocked for a user who was erased, in whatever step and with
\* whatever other cards were put in for the erasure.
ErasedUserIsLocked == unlocked => curUser \in lut

\* The last PIN try of a card is never used up by a wrong PIN before the card has left
\* the slot once since the try before: "ask user to remove his card as a security".
LastTryNeedsRemoval ==
  [][\A c \in Cards : tries[c] = 1 /\ tries'[c] = 0 => c \in pulled]_vars

\* Once the slot stays empty the device ends up locked, or in a wait for the next card
\* of a cloning or an erasure, in which it serves nobody.
EmptySlotLocks == <>[](card = {}) => <>[](~unlocked \/ waitFor # "any")

\* A card that stays in the slot ends up reported, unless the user is asked to take it
\* out after a wrong PIN.
CardIsReported ==
  <>[](card # {}) => <>[](told \/ pc = "wait_removal")

=============================================================================
