------------------------------ MODULE PowerSource ------------------------------
(***************************************************************************)
(* The cable and the hosts of the device, as the main MCU (logic_power.c,  *)
(* logic_bluetooth.c, gui_menu.c) and the aux MCU (comms_main_mcu.c,       *)
(* logic_battery.c, logic_bluetooth.c) each know them: which of the two    *)
(* powers the device, whether the battery charges, whether a computer is   *)
(* connected by USB or Bluetooth, and when the last one to leave locks the *)
(* device.  The MCUs tell each other by messages that keep their order.    *)
(***************************************************************************)
EXTENDS Sequences, Integers

CONSTANT
  MaxQueue   \* a step sends only while fewer messages are on their way

ASSUME QueueAssumption == MaxQueue \in Nat \ {0}

VARIABLES
  cable,     \* the USB 3V3 pin
  present,   \* platform_io_debounced_3v3_present
  source,    \* logic_power_current_power_source
  enumSent,  \* logic_power_enumerate_usb_command_just_sent
  charging,  \* logic_power_battery_charging
  worn,      \* on battery for long enough since the last full charge
  enumerated,\* logic_aux_mcu_usb_enumerated: "no", "yes", or "late" when it was set
             \* by an event of a connection that had already ended
  connected, \* logic_bluetooth_is_connected
  keep,      \* logic_bluetooth_prevent_dev_lock_after_disconnect: the menu entries,
             \* "switch" and "pair", that set it since it was cleared
  screen,    \* "menu", "pairing" for gui_prompts_wait_for_pairing_screen, or
             \* "paired" after it
  unlocked,  \* logic_security_smartcard_inserted_unlocked
  logOff,    \* logic_user_should_be_logged_off_flag
  attached,  \* udc_attach: the aux MCU shows itself on the USB
  justEnum,  \* comms_usb_just_enumerated
  usbHost,   \* comms_usb_enumerated
  battery,   \* logic_battery_state: "idle", "charging" for its three states,
             \* "ended" for LB_CHARGING_DONE and the errors
  bt,        \* the Bluetooth connection: "none", "secured" with a bonded
             \* host, "pairing" and "paired" with a new one, "closing" when the aux
             \* MCU has asked for its end
  open,      \* logic_bluetooth_open_to_pairing
  toAux,     \* messages to the aux MCU
  toMain,    \* messages to the main MCU
  hosts      \* history, since the device was unlocked: "usb" if a computer was on the
             \* USB, and the last host on Bluetooth, "secured" or "paired"

mainPower == <<source, enumSent, charging>>
mainHosts == <<enumerated, connected, keep>>
user == <<screen, unlocked, logOff>>
auxUsb == <<attached, justEnum, usbHost>>
auxBt == <<bt, open>>
vars == <<cable, present, mainPower, worn, mainHosts, user, auxUsb, battery, auxBt,
          toAux, toMain, hosts>>

AuxCommands == {"ATTACH_USB", "DETACH_USB", "NIMH_CHARGE", "DISCONNECT_FOR_NEXT",
                "ENABLE_PAIRING", "DISABLE_PAIRING"}
AuxEvents == {"USB_ENUMERATED", "USB_DETACHED", "CHARGE_DONE", "CHARGE_FAIL",
              "BLE_CONNECTED", "BLE_DISCONNECTED", "STORE_BOND_INFO"}

\* A computer is connected, as far as the aux MCU can know, and the main MCU has not
\* already dropped it.
BtHosts == {"secured", "paired"}
UsbHost == cable /\ source = "usb" /\ attached /\ usbHost
Host == UsbHost \/ bt \in BtHosts
\* Every step that a host comes or leaves with, or that unlocks, ends with this.
NoteHost ==
  hosts' = IF ~unlocked' THEN {}
           ELSE (IF bt' \in BtHosts THEN (hosts \ BtHosts) \cup {bt'} ELSE hosts)
                \cup (IF UsbHost' THEN {"usb"} ELSE {})

SendAux(messages) == /\ Len(toAux) < MaxQueue
                     /\ toAux' = toAux \o messages
SendMain(event) == /\ Len(toMain) < MaxQueue
                   /\ toMain' = Append(toMain, event)

-----------------------------------------------------------------------------
(* The cable.  The pin is debounced: it falls at once and rises after 250   *)
(* ticks.                                                                   *)

\* A boot: the aux MCU has just started, and main.c has sent ATTACH_USB when the
\* pin was high.
Init ==
  /\ cable \in BOOLEAN /\ present \in {cable, FALSE}
  /\ source = IF cable THEN "usb" ELSE "battery"
  /\ enumSent = cable
  /\ toAux = IF cable THEN <<"ATTACH_USB">> ELSE << >>
  /\ worn \in BOOLEAN
  /\ charging = FALSE /\ enumerated = "no" /\ connected = FALSE /\ keep = {}
  /\ screen = "menu" /\ unlocked = FALSE /\ logOff = FALSE
  /\ attached = FALSE /\ justEnum = FALSE /\ usbHost = FALSE
  /\ battery = "idle" /\ bt = "none" /\ open = FALSE
  /\ toMain = << >> /\ hosts = {}

PlugIn ==
  /\ ~cable
  /\ cable' = TRUE
  /\ UNCHANGED <<present, mainPower, worn, mainHosts, user, auxUsb, battery, auxBt,
                 toAux, toMain>>
  /\ NoteHost

PullOut ==
  /\ cable
  /\ cable' = FALSE /\ present' = FALSE
  /\ UNCHANGED <<mainPower, worn, mainHosts, user, auxUsb, battery, auxBt, toAux,
                 toMain>>
  /\ NoteHost

Debounced ==
  /\ cable /\ ~present
  /\ present' = TRUE
  /\ UNCHANGED <<cable, mainPower, worn, mainHosts, user, auxUsb, battery, auxBt,
                 toAux, toMain, hosts>>

\* The counter of the milliseconds spent on battery reaches its threshold.
WearDown ==
  /\ source = "battery" /\ ~worn
  /\ worn' = TRUE
  /\ UNCHANGED <<cable, present, mainPower, mainHosts, user, auxUsb, battery, auxBt,
                 toAux, toMain, hosts>>

-----------------------------------------------------------------------------
(* The main MCU.                                                            *)

\* A call of the power routine that finds the cable plugged in also starts the charge.
\* Mutant: the charge is ordered first.
PlugMessagesSwapped == IF ~charging /\ worn THEN <<"NIMH_CHARGE", "ATTACH_USB">>
                       ELSE <<"ATTACH_USB">>
PlugMessages == IF ~charging /\ worn THEN <<"ATTACH_USB", "NIMH_CHARGE">>
                ELSE <<"ATTACH_USB">>

\* Not while the source changes.  Mutant: then too.
MayPlugAnyTime == source # "usb"
MayPlug == source = "battery"

PowerPlugged ==
  /\ MayPlug /\ present
  /\ source' = "usb" /\ enumSent' = FALSE
  /\ charging' = (charging \/ worn)
  /\ SendAux(PlugMessages)
  /\ UNCHANGED <<cable, present, worn, mainHosts, user, auxUsb, battery, auxBt,
                 toMain, hosts>>

\* "If user selected to, lock device": the setting is on.
PowerUnplugged ==
  /\ source = "usb" /\ ~present
  /\ source' = "transitioning" /\ charging' = FALSE /\ enumerated' = "no"
  /\ logOff' = (logOff \/ (unlocked /\ ~connected))
  /\ SendAux(<<"DETACH_USB">>)
  /\ UNCHANGED <<cable, present, enumSent, worn, connected, keep, screen, unlocked,
                 auxUsb, battery, auxBt, toMain>>
  /\ NoteHost

PowerCharge ==
  /\ source = "usb" /\ present /\ enumSent
  /\ enumSent' = FALSE
  /\ charging' = (charging \/ worn)
  /\ IF ~charging /\ worn THEN SendAux(<<"NIMH_CHARGE">>) ELSE UNCHANGED toAux
  /\ UNCHANGED <<cable, present, source, worn, mainHosts, user, auxUsb, battery, auxBt,
                 toMain, hosts>>

\* logic_power_check_power_switch_and_battery: nothing while the source changes.
PowerRoutine == PowerPlugged \/ PowerUnplugged \/ PowerCharge

\* logic_device_activity_detected switches the screen on, with the power source the
\* pin gives, before the power routine has seen the change.
ActivityWithScreenOff ==
  /\ source # "transitioning" /\ (source = "usb") # present
  /\ source' = IF present THEN "usb" ELSE "battery"
  /\ UNCHANGED <<cable, present, enumSent, charging, worn, mainHosts, user, auxUsb,
                 battery, auxBt, toAux, toMain>>
  /\ NoteHost

\* comms_aux_mcu_deal_with_received_event, and the storage of a bond, which only the
\* pairing screen accepts.
UsbEnumerated ==
  /\ enumerated' = IF UsbHost THEN "yes" ELSE "late"
  /\ UNCHANGED <<mainPower, worn, connected, keep, screen, logOff>>

\* Mutants: the source stays as it is, or does once the cable is back.
SourceDetachedLater == source
SourceDetachedUnlessBack ==
  IF source = "transitioning" /\ ~present THEN "battery" ELSE source
SourceDetached == IF source = "transitioning" THEN "battery" ELSE source

UsbDetached ==
  /\ source' = SourceDetached
  /\ UNCHANGED <<enumSent, charging, worn, mainHosts, screen, logOff>>

ChargeDone ==
  /\ charging' = FALSE /\ worn' = FALSE
  /\ UNCHANGED <<source, enumSent, mainHosts, screen, logOff>>

ChargeFail ==
  /\ charging' = FALSE
  /\ UNCHANGED <<source, enumSent, worn, mainHosts, screen, logOff>>

\* Mutant: the flag is not cleared.
KeepConnectedSame == keep
KeepConnected == {}

BleConnected ==
  /\ keep' = KeepConnected /\ connected' = TRUE
  /\ UNCHANGED <<mainPower, worn, enumerated, screen, logOff>>

BleDisconnected ==
  /\ logOff' = (logOff \/ (keep = {} /\ connected /\ unlocked /\ enumerated = "no"))
  /\ connected' = FALSE
  /\ UNCHANGED <<mainPower, worn, enumerated, keep, screen>>

StoreBond ==
  /\ IF screen = "pairing"
     THEN screen' = "paired" /\ connected' = TRUE
     ELSE UNCHANGED <<screen, connected>>
  /\ UNCHANGED <<mainPower, worn, enumerated, keep, logOff>>

MainReceives(event, Handler) ==
  /\ toMain # << >> /\ Head(toMain) = event
  /\ toMain' = Tail(toMain)
  /\ Handler
  /\ UNCHANGED <<cable, present, unlocked, auxUsb, battery, auxBt, toAux, hosts>>

MainHandles ==
  \/ MainReceives("USB_ENUMERATED", UsbEnumerated)
  \/ MainReceives("USB_DETACHED", UsbDetached)
  \/ MainReceives("CHARGE_DONE", ChargeDone)
  \/ MainReceives("CHARGE_FAIL", ChargeFail)
  \/ MainReceives("BLE_CONNECTED", BleConnected)
  \/ MainReceives("BLE_DISCONNECTED", BleDisconnected)
  \/ MainReceives("STORE_BOND_INFO", StoreBond)

\* GUI_BT_SWITCH_ICON_ID
SwitchDevice ==
  /\ unlocked /\ screen = "menu" /\ connected
  /\ keep' = keep \cup {"switch"}
  /\ SendAux(<<"DISCONNECT_FOR_NEXT">>)
  /\ UNCHANGED <<cable, present, mainPower, worn, enumerated, connected, user, auxUsb,
                 battery, auxBt, toMain, hosts>>

\* GUI_NEW_PAIR_ICON_ID, up to the pairing screen
NewPairing ==
  /\ unlocked /\ screen = "menu" /\ ~connected
  /\ keep' = keep \cup {"pair"} /\ screen' = "pairing"
  /\ SendAux(<<"ENABLE_PAIRING">>)
  /\ UNCHANGED <<cable, present, mainPower, worn, enumerated, connected, unlocked,
                 logOff, auxUsb, battery, auxBt, toMain, hosts>>

\* The screen ends: the bond is stored, or a timeout, the card, a long click
EndPairing ==
  /\ screen # "menu"
  /\ screen' = "menu"
  /\ SendAux(<<"DISABLE_PAIRING">>)
  /\ UNCHANGED <<cable, present, mainPower, worn, mainHosts, unlocked, logOff, auxUsb,
                 battery, auxBt, toMain, hosts>>

\* The PIN prompt lasts for seconds and handles the events sent before its end.
Unlock ==
  /\ ~unlocked /\ screen = "menu" /\ ~logOff /\ toMain = << >>
  /\ unlocked' = TRUE
  /\ UNCHANGED <<cable, present, mainPower, worn, mainHosts, screen, logOff, auxUsb,
                 battery, auxBt, toAux, toMain>>
  /\ NoteHost

\* The main loop finds the flag, and logic_smartcard_handle_removed locks.
LogOff ==
  /\ logOff /\ screen = "menu"
  /\ logOff' = FALSE /\ unlocked' = FALSE /\ hosts' = {}
  /\ UNCHANGED <<cable, present, mainPower, worn, mainHosts, screen, auxUsb, battery,
                 auxBt, toAux, toMain>>

-----------------------------------------------------------------------------
(* The aux MCU.                                                             *)

AttachUsb ==
  /\ attached' = TRUE
  /\ UNCHANGED <<justEnum, usbHost, battery, auxBt, toMain>>

\* Mutants: only an enumerated USB is detached; the charge goes on.
AttachedAfterIfHost == attached /\ ~usbHost
AttachedAfter == FALSE
BatteryAfterSame == battery
BatteryAfter == IF battery = "charging" THEN "idle" ELSE battery

DetachUsb ==
  /\ usbHost' = FALSE /\ attached' = AttachedAfter
  /\ battery' = BatteryAfter
  /\ SendMain("USB_DETACHED")
  /\ UNCHANGED <<justEnum, auxBt>>

NimhCharge ==
  /\ battery' = "charging"
  /\ UNCHANGED <<auxUsb, auxBt, toMain>>

\* The event, then ble_disconnect_all_devices, whose callback comes later.
DisconnectForNext ==
  /\ IF bt \in {"secured", "paired", "closing"}
     THEN bt' = "closing" /\ SendMain("BLE_DISCONNECTED")
     ELSE UNCHANGED <<bt, toMain>>
  /\ UNCHANGED <<auxUsb, battery, open>>

SetOpen(to) ==
  /\ open' = to
  /\ UNCHANGED <<auxUsb, battery, bt, toMain>>

AuxReceives(command, Handler) ==
  /\ toAux # << >> /\ Head(toAux) = command
  /\ toAux' = Tail(toAux)
  /\ Handler
  /\ UNCHANGED <<cable, present, mainPower, worn, mainHosts, user>>
  /\ NoteHost

AuxHandles ==
  \/ AuxReceives("ATTACH_USB", AttachUsb)
  \/ AuxReceives("DETACH_USB", DetachUsb)
  \/ AuxReceives("NIMH_CHARGE", NimhCharge)
  \/ AuxReceives("DISCONNECT_FOR_NEXT", DisconnectForNext)
  \/ AuxReceives("ENABLE_PAIRING", SetOpen(TRUE))
  \/ AuxReceives("DISABLE_PAIRING", SetOpen(FALSE))

\* comms_raw_hid_connection_set_callback: the USB interrupt
Enumerate ==
  /\ cable /\ attached /\ ~usbHost
  /\ justEnum' = TRUE /\ usbHost' = TRUE
  /\ UNCHANGED <<cable, present, mainPower, worn, mainHosts, user, attached, battery,
                 auxBt, toAux, toMain>>
  /\ NoteHost

\* comms_usb_communication_routine, in the main loop: the flag outlives a DETACH_USB.
ReportEnumerated ==
  /\ justEnum
  /\ justEnum' = FALSE
  /\ SendMain("USB_ENUMERATED")
  /\ UNCHANGED <<cable, present, mainPower, worn, mainHosts, user, attached, usbHost,
                 battery, auxBt, toAux, hosts>>

\* logic_battery_task
ChargeEnds(event) ==
  /\ battery = "charging"
  /\ battery' = "ended"
  /\ SendMain(event)
  /\ UNCHANGED <<cable, present, mainPower, worn, mainHosts, user, auxUsb, auxBt,
                 toAux, hosts>>

\* A host connects by Bluetooth: it is bonded, and the link gets encrypted; or pairing
\* is open, and it may pair; or it leaves, or is refused, before any of these.
Encrypt ==
  /\ bt = "none"
  /\ bt' = "secured"
  /\ SendMain("BLE_CONNECTED")
  /\ UNCHANGED <<cable, present, mainPower, worn, mainHosts, user, auxUsb, battery,
                 open, toAux>>
  /\ NoteHost

StartPairing ==
  /\ bt = "none" /\ open
  /\ bt' = "pairing"
  /\ UNCHANGED <<cable, present, mainPower, worn, mainHosts, user, auxUsb, battery,
                 open, toAux, toMain, hosts>>

Paired ==
  /\ bt = "pairing"
  /\ bt' = "paired"
  /\ SendMain("STORE_BOND_INFO")
  /\ UNCHANGED <<cable, present, mainPower, worn, mainHosts, user, auxUsb, battery,
                 open, toAux>>
  /\ NoteHost

\* logic_bluetooth_hid_disconnected_callback
Disconnect ==
  /\ bt' = "none" /\ open' = FALSE
  /\ SendMain("BLE_DISCONNECTED")
  /\ UNCHANGED <<cable, present, mainPower, worn, mainHosts, user, auxUsb, battery,
                 toAux, hosts>>

-----------------------------------------------------------------------------
Main ==
  \/ PowerRoutine
  \/ MainHandles
  \/ SwitchDevice \/ NewPairing \/ EndPairing
  \/ Unlock \/ LogOff

Aux ==
  \/ AuxHandles
  \/ Enumerate \/ ReportEnumerated
  \/ ChargeEnds("CHARGE_DONE") \/ ChargeEnds("CHARGE_FAIL")
  \/ Encrypt \/ StartPairing \/ Paired \/ Disconnect

Environment == PlugIn \/ PullOut \/ Debounced \/ WearDown

Next == Main \/ Aux \/ Environment

Spec == Init /\ [][Next]_vars

\* With the screen off, the user's activity may come between the change of the cable
\* and the power routine.
UnseenSpec == Init /\ [][Next \/ ActivityWithScreenOff]_vars

\* Each MCU runs its main loop, and the timer interrupt runs.  A step that has to
\* send waits for the transfer before it, and its MCU does nothing else meanwhile: it
\* cannot be overtaken for ever by the other senders, hence strong fairness.
FairSpec ==
  /\ Spec
  /\ WF_vars(MainHandles) /\ WF_vars(Debounced)
  /\ SF_vars(PowerRoutine) /\ SF_vars(AuxHandles) /\ SF_vars(ReportEnumerated)

-----------------------------------------------------------------------------
TypeOK ==
  /\ cable \in BOOLEAN /\ present \in BOOLEAN /\ enumSent \in BOOLEAN
  /\ charging \in BOOLEAN /\ worn \in BOOLEAN /\ connected \in BOOLEAN
  /\ unlocked \in BOOLEAN /\ logOff \in BOOLEAN /\ attached \in BOOLEAN
  /\ justEnum \in BOOLEAN /\ usbHost \in BOOLEAN /\ open \in BOOLEAN
  /\ source \in {"battery", "usb", "transitioning"}
  /\ enumerated \in {"no", "yes", "late"}
  /\ keep \subseteq {"switch", "pair"}
  /\ screen \in {"menu", "pairing", "paired"}
  /\ battery \in {"idle", "charging", "ended"}
  /\ bt \in {"none", "secured", "pairing", "paired", "closing"}
  /\ hosts \subseteq {"usb"} \cup BtHosts
  /\ toAux \in Seq(AuxCommands) /\ toMain \in Seq(AuxEvents)

\* Nothing is on its way, and the power routine has nothing to do.
Quiet ==
  /\ toAux = << >> /\ toMain = << >> /\ ~justEnum
  /\ source = IF cable THEN "usb" ELSE "battery"
  /\ present = cable

\* The two MCUs agree: when all messages are handled, the aux MCU shows itself on the
\* USB exactly when the main MCU runs from it, and charges the battery exactly when
\* the main MCU says so, however often the cable was pulled and plugged in between.
AttachAgrees == Quiet => (attached <=> source = "usb")
ChargeAgrees == Quiet => (charging <=> battery = "charging")

\* A charge order reaches the aux MCU only while it is attached: none is overtaken by
\* a DETACH_USB, and none follows one.
ChargeOnlyAttached ==
  toAux # << >> /\ Head(toAux) = "NIMH_CHARGE" => attached

\* While the power source changes, exactly one DETACH_USB is on its way or one
\* USB_DETACHED on its way back: the main MCU does not wait in vain, and no answer
\* of an earlier unplugging ends a later one.
No(message, queue) == \A i \in 1 .. Len(queue) : queue[i] # message
One(message, queue) ==
  /\ ~No(message, queue)
  /\ \A k, i \in 1 .. Len(queue) : queue[k] = message /\ queue[i] = message => k = i
DetachOnItsWay ==
  IF source = "transitioning"
  THEN \/ One("DETACH_USB", toAux) /\ No("USB_DETACHED", toMain)
       \/ No("DETACH_USB", toAux) /\ One("USB_DETACHED", toMain)
  ELSE No("DETACH_USB", toAux) /\ No("USB_DETACHED", toMain)

\* When the last computer has left an unlocked device, whether by the cable or by
\* Bluetooth and in whatever order the MCUs learnt of it, the device is locked or
\* about to be, unless the user asked for another host (keep), or the main MCU still
\* holds the USB for enumerated: a USB_ENUMERATED that crossed the DETACH_USB.
LastHostLocks ==
  Quiet /\ unlocked /\ hosts # {} /\ "paired" \notin hosts /\ ~Host
    => logOff \/ "switch" \in keep \/ enumerated = "late"

\* gui_menu.c, "Do not lock device during pairing procedure": after the procedure the
\* host that was paired locks the device when it leaves, as any other does.
PairedHostLocks ==
  Quiet /\ unlocked /\ "paired" \in hosts /\ ~Host /\ screen = "menu"
    => logOff \/ enumerated = "late"

\* The device follows the cable: once it stays out, the device ends on battery, off
\* the USB and not charging; once it stays in, on the USB and attached.
SettlesOnBattery ==
  <>[]~cable => <>[](source = "battery" /\ ~attached /\ battery # "charging")
SettlesOnUsb == <>[]cable => <>[](source = "usb" /\ attached)
=============================================================================
