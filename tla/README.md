# Mooltipass Mini BLE: a model of its firmware

The Mooltipass Mini BLE is a hardware password manager.  Two microcontrollers share the
work: the *main MCU* (`source_code/main_mcu`) drives the screen, the smartcard and the
external flash, and holds every secret; the *aux MCU* (`source_code/aux_mcu_v4`) does USB,
Bluetooth and the battery, and talks to the main MCU over a serial link.  The user's AES
key is on a smartcard, behind a PIN; the credentials, encrypted with it, are in the flash.

This directory holds TLA+ modules that model the firmware, TLC configurations that check
them on small instances, and proofs that TLAPS checks for all instances.  `PROJECT.json`
maps each definition to the source lines it models, and lists the runs, the mutants that
show each property can fail, the findings, the hazards and the theorems.

To run it: `tlc -workers 2 -config NodeDb.cfg NodeDb.tla`, and so on with the
configurations below (`SmartcardSession*.cfg` go with `MCSmartcardSession.tla`, `CtapHid.cfg`
with `MCCtapHid.tla`);
`tlapm` on `CtrEncryptionProofs.tla`, `NodeDbProofs.tla`, `SmartcardSessionProofs.tla`,
`AuxMessagesProofs.tla`, `PowerSourceProofs.tla`, `HidPacketsProofs.tla`, `CtapHidProofs.tla` and
`UserCardsProofs.tla` checks the proofs (up to five minutes each).

## 1. Inventory

Paths are below `src/source_code/main_mcu/src/` unless they say otherwise.

| Component | State it keeps | Operations | Hard behaviours | What makes it correct |
|---|---|---|---|---|
| CTR encryption, `LOGIC/logic_encryption.c` | 24-bit counter in RAM and in the profile in flash; key context | init and delete context, reserve, encrypt, advance | power cut between reserve, encrypt and advance; wrap; the host moves the flash copy | no keystream block is used twice; little is wasted |
| Node database, `NODEMGMT/nodemgmt.c` | profile, doubly linked sorted lists of parents and children in flash; addresses of the next free slots in RAM | format profile, create node, scan, search, delete user | five block writes per insertion, a power cut between any two; full flash; cached addresses | lists stay walkable, sorted, complete; free means free |
| Credential operations, `LOGIC/logic_database.c`, `LOGIC/logic_user.c` | current user, user flags | store, get, check credentials; data files; webauthn; create user; typing | service stored and login not; prompts in the middle | what is acknowledged can be found |
| Smartcard detection, `SMARTCARD/*`, `LOGIC/logic_smartcard.c` | contact debouncer, `card_return`, slot power; CPZ and key on the card | tick, poll, unlock, re-authenticate, clone, remove | interrupt against main thread; card swapped in a prompt | removal locks, and is reported |
| Security flags and main loop, `LOGIC/logic_security.c`, `main.c` | unlocked, management mode | set, clear | flag set after the interrupt cleared it | never unlocked for an empty slot |
| Management by the user, `LOGIC/logic_gui.c`, `GUI/gui_menu.c`, `GUI/gui_dispatcher.c` | current screen | change PIN, clone, erase user | several cards and waits in one operation | erased users cannot stay logged in |
| Host commands, `COMMS/comms_hid_msgs.c` | none of its own | about 60 commands, 30 of them in management mode | prompts inside handlers; replies from a buffer that is reused | only the commands the flags allow |
| Link to the aux MCU, `COMMS/comms_aux_mcu.c`, `DMA/dma.c` | receive and send buffer, five flags, `no_comms` line | arm, receive, answer from first bytes, nested call, active wait, send | DMA against thread; recursion through prompts | each message handled once, whole |
| CPZ look-up table and settings, `FILESYSTEM/custom_fs.c` | table of users in MCU flash, four entries to a row; settings | store, find, delete entry | a row is erased, then written page by page; user creation and erasure write the card, this table and the external flash one after the other | a user has one entry, a card and the lists it can decrypt |
| Flash drivers, `FLASH/dbflash.c`, `FLASH/dataflash.c` | none | read, write, erase | | a block write is one step |
| Power and hosts, `LOGIC/logic_power.c`, `LOGIC/logic_bluetooth.c`, `LOGIC/logic_aux_mcu.c` | power source, charging, USB enumerated, Bluetooth connected, "do not lock" flag | follow the 3V3 pin, order and end a charge, lock when the last host leaves | messages that cross in both directions; the cable back while the source changes | the two MCUs agree; every unplugging ends; the last host locks |
| FIDO2, `LOGIC/logic_fido2.c` | none | make credential, get assertion | prompts over the message buffer | |
| Prompts and display, `GUI/gui_prompts.c`, `OLED/` | animation | confirmations, PIN and list screens | nested message handling | |
| Inputs, timers, RNG, accelerometer, platform, clocks | counters | hardware access | | |
| Aux MCU, raw HID: `aux_mcu_v4/src/COMMS` | reassembly buffer, flip bit, expected packet, transfer to the main MCU | receive a packet, assemble, forward | hosts that are stopped in the midst of a message; bus resets; the buffer is sent from while it is filled | whole messages, each answered |
| Aux MCU, power and Bluetooth: `aux_mcu_v4/src/LOGIC` | charging state, connection, pairing | commands of the main MCU, events to it | as for power above | |
| Aux MCU, CTAPHID: `aux_mcu_v4/src/fido2/ctaphid.c` | table of channels, one buffer | packets in and out | several applications at one buffer; a full table; channels left busy | no message of two applications; an answer for each |
| Boot loader, debug, functional test, emulator, scripts, earlier aux firmwares | | | | not part of the device's operation |

How they interact: the main loop (`main.c`) polls the card, the screen and the link in
turn, and calls handlers that block in prompts.  The 1 ms tick and the DMA interrupts
preempt it anywhere.  Prompts call `comms_aux_mcu_routine` again.  The database and the
encryption share the user profile in flash; the session (flags, user, key) gates both.

## 2. Modules

| Module | Models | Relation to the others |
|---|---|---|
| `CtrEncryption` | the CTR counter | parameters: users, counter width, reservation, plaintext sizes |
| `NodeDb` | lists of credentials, block write by block write | refines `CredentialStore` |
| `CredentialStore` | what the database promises: a set of credentials | abstract specification |
| `UserCards` | users across the card, the look-up table and the profile, write by write | unlocking is one step here, and the subject of `SmartcardSession` |
| `SmartcardSession`, `MCSmartcardSession` | detection, unlocking and locking | the second gives model values |
| `AuxMessages` | receive and send buffer of the link, in the main MCU | |
| `PowerSource` | power source, charge and hosts, in both MCUs, with the messages between them | the link is two queues here; how one end of it works is the subject of `AuxMessages` |
| `HidPackets` | the way of a host's message: host, USB, aux MCU, transfer to the main MCU | ends where `AuxMessages` begins |
| `CtapHid` | the FIDO2 interface of the aux MCU | |
| `CtrEncryptionProofs`, `NodeDbProofs`, `SmartcardSessionProofs`, `AuxMessagesProofs`, `PowerSourceProofs`, `HidPacketsProofs`, `CtapHidProofs`, `UserCardsProofs` | | proofs about the module of that name |

### CtrEncryption

`profileCtr` is the counter in each profile, `nextCtr` its copy in RAM.  An encryption is
three steps, as in the code: `PreCtrTasks` (`logic_encryption_pre_ctr_tasks`, which pushes
the profile counter ahead by `MinIncr` = `CTR_FLASH_MIN_INCR` when the RAM counter plus the
blocks needed reaches it), `CtrEncrypt`, and `PostCtrTasks` (the byte-wise addition with
its lost carry).  A power cut can come between any two.  The other actions give the
counter a value: `Login`, `CreateUser`, the two steps of a deletion (`DeleteProfile`,
`DeleteLutEntry`), and the host's `HostSetCtr` and `HostImport` in management mode.  Nothing
is assumed of the host: the code stores any counter it is given, lower ones included, and any
ciphertext, before or after the counter.  A user created for a card of another device may find
ciphertexts of an earlier life of its slot (`CreateUser`), for a deletion leaves some.
`used` is a history of the blocks behind every ciphertext that is there; three more say when
the counter was taken out of the reservation's hands: `wrapped`, it used all its values;
`hostMoved`, the host moved something in this session; `lowered`, the host or a deletion, in
any session, left it behind a ciphertext, or behind the counter in RAM (`Behind`), and the host
has not set it past them since.
`FreshBlocks`: but for these, no block is used twice.  `BoundedLoss`: the profile is never
behind the RAM counter, nor more than one reservation ahead of it (here `lowered` does not matter).
A counter that was `lowered` gives blocks out again from the next login on: the device does not
check what the host writes, and relies on it to leave the counter past every ciphertext.

### NodeDb and CredentialStore

Slots of the flash hold parents (one slot) and children (two in a row).  An operation is
computed as a sequence of block writes (`CreateWrites`, `EraseWrites`), as
`nodemgmt_create_generic_node` and `nodemgmt_delete_current_user_from_flash` order them;
`WriteBlock` performs one, and `PowerCut` drops the rest together with the RAM.
`StoreCredential` is `logic_user_store_credential`: search, create the service if needed,
then the login; `ScanNodeUsage` is the scan for free slots, which starts from the last known
one.  Sorting, searching and where an insertion goes are `Walk`, `StopAt`, `Search`.
`CredentialStore` knows only a set that grows one credential at a time, and
`ImplementsStore` says `NodeDb` implements it when no power cut comes in mid-operation:
the credential appears in the single step that links it, and before it is acknowledged.

### UserCards

A user is a number, which stands for the random CPZ, key and nonce it was created with and
for its PIN; `card` has what each card holds, `lut` the users of the look-up table and
`data` whose credentials are in each profile's lists.  An operation is a sequence of steps
(`goal`, `pc`), one for each zone of the card, for the credentials, and, for the table,
`EraseRow` and one `WritePage` for each page of the row (`image` is the row as it is to be).
`Create` to `Check` are `logic_user_create_new_user`, and `CheckFails` its "Reset smartcard
and delete just created user", which shares the steps of an erasure; `EraseUser` to
`custom_fs_detele_user_cpz_lut_entry` are `logic_gui_erase_user`, other cards included;
`Clone`, `ReadKey`, `CloneTarget` and the writes are `logic_smartcard_clone_card`;
`AddUnknownCard` and `ResetUnknownCard` are the host's commands for a card the device does not
know; the second shares the steps of an erasure.  What is written to a card that is gone, or has not
accepted its PIN, is lost (`WriteCard`), and nothing but the key of a new user is read back.
Cards are pulled and put in between any two steps, and `PowerCut` ends an operation anywhere.
Assumed: no two users have the same CPZ, key or PIN; the computer can add the entries of
those users that logged in once.  `PullAtRead` says whether a card may be pulled in the
milliseconds between the two reads of a clone: `KnownCardsFit` depends on it.

### SmartcardSession

The state is that of `smartcard_lowlevel_detect` (a tick per action), of the slot and the
cards, the two security flags, the current user, the key, the screen, and where the main
thread is (`pc`).  The main thread's steps end where another process can make a
difference: at prompts, at each exchange with the card, and between the copy of
`card_return` and the critical section that acknowledges it (`Poll`, `Ack`).
The order of the main loop is the code's: log-off request, removal, management mode, insertion, screen,
host messages, poll.  Unlocking, re-authentication, change of PIN, cloning, erasing (with
the wait for other cards), adding an unknown card and the host's lock and management mode
commands are sequences of these steps.  A PIN is right or wrong; a card has a number of
tries and an owner (its code protected zone, key included).

### AuxMessages

One receive buffer is filled by DMA (`rx`).  A complete transfer raises `no_comms`, which
keeps the aux MCU quiet until the buffer is armed again.  `comms_aux_mcu_routine` looks at
the first bytes, then at the completion flag; its flags are `received`, `answered`
(answered from first bytes) and `wantsArm` (an interrupted call wants the buffer rearmed).
`HandleNow` handles a message at once, `EnterHandler` and `EndHandler` surround a handler
that prompts and so lets nested calls run.  Kinds of messages differ in what handlers do
with the two buffers: `ask` copies what it needs, `late` reads its message after a prompt
that handles other messages, `store` prompts without handling messages, `pin` prepares its
answer before the prompt, `platinfo` asks the aux MCU for its details, `event` needs no
answer.  `SetAside`, `HandleAside` and `GotReply` are `comms_aux_mcu_active_wait`, for the
reply to `platinfo` and for the end of typing.
Assumed of the hardware: arming a running transfer does not disturb it, and an armed
channel reports no byte before the first.

### PowerSource

The variables of the main MCU are those of `logic_power.c` (`source`, `enumSent`,
`charging`), `logic_aux_mcu.c` (`enumerated`) and `logic_bluetooth.c` (`connected`, `keep`);
those of the aux MCU are the USB's (`attached`, `justEnum`, `usbHost`), the charge's
(`battery`) and the connection's (`bt`, `open`).  `toAux` and `toMain` keep their order, as
the serial link does.  `PowerRoutine` is `logic_power_check_power_switch_and_battery`, with
its `PowerPlugged`, `PowerUnplugged` and `PowerCharge`; `MainHandles` and `AuxHandles` are
the handlers of the two ends, one definition for each message.  The cable is pulled and
plugged in at any step, the pin is debounced (`Debounced`), and the hosts on USB and
Bluetooth come, pair and go by themselves.  `hosts` is a history: which computers were
connected since the device was unlocked.
Assumed: the user's flag "lock when disconnected" is on; the device is unlocked only when
the aux MCU has nothing to report, since the main loop has emptied the link by then.

### HidPackets

The host is `generic_hid_device.py`: it opens the device with the packet that resets the
flip bit, and then sends one message at a time (`Waits`).  It may be stopped at any packet and
started again, which USB shows as a bus reset (`SetConfiguration`).  `Unexpected`, `Drop`,
`AcceptPiece`, `AcceptLast` and `HandleReset` are the packet part of `comms_usb_communication_routine`, and
`Enumerated`, `EnumeratedDone` the part of the routine that arms the endpoint after a
reset.  `Forward` starts the transfer to the main MCU out of the buffer the next
packets go to; `PayloadOut` and `TransferDone` are its progress.  A packet carries, beside
the number, the last number and the flip bit the code looks at, which message it is of: the
code does not see that, the properties do.

### CtapHid

`table` is `CIDS`, with the busy flag of each entry, and `owner`, `length`, `got` the one
buffer.  Every packet is handled as it is received, so each action is one packet of an
application together with all of `ctaphid_handle_packet`: `HandleInit`, `HandleFirst`,
`HandleCont`, with `Error`, `Store` and `Execute` for what they end in.  `cid_exists`, `add_cid`,
`cid_refresh` and `cid_del` are the functions of the same name.  An application
connects, resynchronizes (with a wrong length too), begins messages of any length, loses a
packet, stops, and starts anew.  Of the commands three differ here: CTAPHID_CBOR, which must not
be empty, CTAPHID_CANCEL, which is executed without an answer or an error (`IsCancel`), and all others.
`left` is a history: the channels whose message the code
gives up without a word.

## 3. Runs

Every run checks for deadlock except those of `AuxMessages`, where the aux MCU stops after
`MaxMessages` messages and all is quiet, and those of `CtapHid`, where no channel is left to
give out after `MaxCid`.

| Run | Bounds, and why they are enough | States | Shows |
|---|---|---|---|
| `ctr` | 1 user, counter of 8 values, reservation of 3, plaintexts of 1 and 2 blocks, any counter and ciphertext from the host: several reservations in a session, wrap, a RAM counter left over from an earlier life of the slot, a counter set back and set right again; more users come with the theorems | 529 k, 22 s | `FreshBlocks`, `BoundedLoss` |
| `ctr_restore` | 1 user, counter of 10 values, the host sets a counter past every ciphertext | 631 | finding: a restored counter is not read again |
| `nodedb` | 9 slots, 3 services with up to 2 logins, 1 power cut, 1 deletion: insertions at both ends and in the middle, a flash that is full after a service or after its login, room for another attempt after a cut | 735 k, 1.8 min | `ListsSorted` at every block write, `FreeSlotsFree`, `BackLinks`, `NoLeak`, `NothingLost`, `ImplementsStore` |
| `nodedb_delete` | no cut | 469 | finding: a deletion leaves services in the flash |
| `smartcard` | 2 users with a card each, debounce of 1 tick (250 in the code), 2 PIN tries (4): swaps and a last try | 2.4 M, 1.3 min | the safety properties below |
| `smartcard_live` | 1 card, debounce of 2 | 55 k | `EmptySlotLocks`, `CardIsReported` |
| `user_cards` | 2 cards, 2 rows of 2 entries, 3 users, 1 power cut: a row with a bystander, a user with two cards, a card of one user taken for another, an entry taken again, an unknown card erased | 2.2 M, 35 s | `KnownCardsFit`, `OwnCredentials`, `OneEntry`, `EntriesReachable` |
| `aux_messages` | 4 messages of `event`, `ask`, `store`, `pin`: one being handled, one handled by its prompt, one in the buffer, one behind it | 36 k | each handled once, in the end, from a whole buffer that is always rearmed |
| `aux_waits` | 3 messages of all kinds, 1 typing | 497 k | `NeverDeaf` even where handling goes wrong |
| `power` | 1 message on its way each way when a step begins (the routine sends up to two at once); cable, hosts and pairing without bound | 550 k, 2 min | the two MCUs agree, unplugging and plugging in end, the last host locks |
| `hid_packets` | messages of up to 3 packets, 3 messages: the first of one host, those of the next after a reset | 475 k, 50 s | `WholeMessages`, `NothingTorn`, `EveryHostServed` |
| `ctap_hid` | 2 applications, which nothing tells apart (symmetry), a table of 2 (4 in the code), messages of up to 3 packets and too long ones, CBOR, CANCEL and others, 3 channels: the table is full, and its entries are taken over by an application that starts again | 909 k, 1.8 min | `WholeMessages`, `NoSilence`, `ChannelsFreed` |

Properties worth a word:

* `NothingLost` (an action property): only the deletion of the user takes a credential
  out of the lists, whatever block write or power cut the step is.
* `RemovalLocks`: whenever the main loop serves the user or the host with the flag set and no
  card in the slot, the removal is on its way through `card_return` (`RemovalPending`).
  The flag may well be set for an empty slot for a moment; the run shows that it never
  escapes the next poll.  `EmptySlotLocks` is the liveness side of it.
* `KeyOfCurrentUser`: cards are swapped in prompts, and yet the key in use, if it is a user's, is
  that of the user whose data is open.
* `ErasedUserIsLocked`: while the device is unlocked, the user it serves has an entry in the table, in
  every state, the steps of an erasure included.
* `LastTryNeedsRemoval` (action property): a card's last PIN try is used only after it left the slot.
* `ReleaseReported`: every insertion reported to the main thread is followed by a report of its
  removal, before the next insertion.  It holds unless a tick hits a window of a few
  instructions (`MaxPreempted`).

* `KnownCardsFit`: a card that logs in brings the key its user's credentials are encrypted
  with, however an earlier operation on it ended.  The order of the writes is what makes it
  hold: the clone writes the CPZ after the key, the creation stores the entry after it has read
  the key back, the erasure clears the CPZ first.  `EntriesReachable`: without power cuts, no
  entry is left whose card is gone.
* `ChargeAgrees`, `AttachAgrees`: when all messages are handled and the source has settled,
  neither MCU believes something of the other that is not so.  `DetachOnItsWay` is why the
  change of source ends: one DETACH_USB or its answer is on its way, never two.
* `LastHostLocks`: whichever way the last computer left, in whatever order the two MCUs
  learnt of it.  It excuses a USB_ENUMERATED that crossed the DETACH_USB (`enumerated` is
  "late") and the user's wish to switch hosts; what pairing leaves is `PairedHostLocks`, below.
* `NoSilence` (CTAPHID): an application that has sent a whole message gets its answer or an error,
  unless it was a CTAPHID_CANCEL, or the INIT of another one removed it: the code checks no
  owner there.

Fairness.  `SmartcardSession`: WF of `Tick`, a periodic interrupt, and of `MainStep`, since
the main loop never blocks but in prompts, which time out.  `AuxMessages`: WF of the
DMA transfers, of the main thread for the same reason, and of the aux MCU's replies (the
code itself waits for them without limit).  `HidPackets`: WF of the aux MCU's main loop
(`Routine`), of the transfer, of the main MCU, and of the bus for packets a host has begun
to send.  `PowerSource`: WF of the debouncing and of `MainHandles`, and SF of
`PowerRoutine`, `AuxHandles` and `ReportEnumerated`: these send, and an MCU that sends
waits for its transfer before and does nothing else, so that its step is not passed over for ever
because others fill the queue again.

## 4. Findings

Those in `PROJECT.json` have a run each:

* `ctr_restore`: the counter that was read at login is used after the host restored another;
* `nodedb_delete`: the deletion of a user stops after the first service with logins.

Other configurations, not among the runs of `PROJECT.json`, show what else goes wrong and under
which timing.  Each has one property, which TLC reports violated:

| Configuration | Property | What happens |
|---|---|---|
| `NodeDbAcked.cfg` | `AckedIsStored` | after a power cut between the two link writes of an insertion (nodemgmt.c:1908, 1924), the next one trusts the back link, and a credential is acknowledged that no search finds |
| `SmartcardSessionRace.cfg` | `ReleaseReported` | a tick between the copy of `card_return` and the critical section (smartcard_lowlevel.c:169) makes a removal vanish |
| `UserCardsClone.cfg` | `KnownCardsFit` | a card that is pulled between the two reads of a clone (logic_smartcard.c:453-457): nothing is checked nor read back, and the clone, reported as made, has the CPZ of the user and an erased key |
| `UserCardsBlank.cfg` | `BlankCardsOpen` | an erasure writes the CPZ first and the PIN last (smartcard_highlevel.c:387, 397): interrupted, it leaves a card without a CPZ that keeps its PIN; the detection takes it for one the user "hasn't configured" (line 744), spends a try of the default PIN at each insertion, and cannot open it any more |
| `UserCardsRow.cfg` | `OthersKeepEntries` | a power cut while an entry is stored or deleted (custom_fs.c:806-820) takes out the other entries of its row |
| `UserCardsPlaces.cfg` | `PlacesReturn` | a power cut in an erasure leaves an entry whose card is erased, for ever |
| `PowerSourcePaired.cfg` | `PairedHostLocks` | the flag set for the pairing procedure (gui_menu.c:403) is cleared only by BLE_CONNECTED: the host just paired does not lock the device when it leaves |
| `PowerSourceUnseen.cfg` | `LastHostLocks` | an activity with the screen off sets the power source itself (logic_device.c:101), and the routine never sees the change |
| `HidPacketsStale.cfg` | `AlwaysWhole` | a packet received before a bus reset is handled after it, with fresh counters |
| `HidPacketsPipelined.cfg` | `NothingTorn` | a host that does not wait for its answers overwrites the message being transferred |
| `HidPacketsLate.cfg` | `EveryHostServed` | a second bus reset in the instructions before `comms_usb_just_enumerated` is cleared leaves the endpoint unarmed |
| `HidPacketsBle.cfg` | `WholeMessages` | Bluetooth copies a packet over the one that was not handled yet (logic_bluetooth.c:439) |
| `CtapHidChannels.cfg` | `ChannelsRemain` | unfinished messages use up the table: `ctaphid_check_timeouts` is never called |

`AuxMessagesTypes.cfg`, `HidPacketsTypes.cfg`, `NodeDbTypes.cfg`, `SmartcardSessionTypes.cfg`
and `UserCardsTypes.cfg` check the type invariants of their modules, and pass.

Further configurations of `AuxMessages` show, each with one property, why the kinds of
`aux_messages` are as restricted as they are.  TLC reports the property violated in all of
them:

| Configuration | Property | What happens |
|---|---|---|
| `AuxMessagesLate.cfg` | `WholeMessage` | `logic_fido2_process_get_assertion` reads its message after prompts (logic_fido2.c:380), where `logic_fido2_process_make_credential` makes "Local copies as the contents of the request message may get overwritten later" (line 180) |
| `AuxMessagesTyping.cfg` | `HandledOnce` | the wait for the end of typing handles again a message answered from its first bytes: `comms_aux_mcu_active_wait` ignores that flag (comms_aux_mcu.c:818) |
| `AuxMessagesEvents.cfg` | `NothingDropped` | an aux MCU event during that wait is dropped, since line 861 requires it to have the type waited for |
| `AuxMessagesAside.cfg` | `WholeMessage` | the wait rearms the buffer (line 859) before it reads the message in it, against the note of line 788 |
| `AuxMessagesDetails.cfg` | `FlagIsComplete` | PLAT_INFO leaves the packet received flag set (comms_hid_msgs.c:190), and the next message passes for complete while it is being received |
| `AuxMessagesPin.cfg` | `OwnReply` | a "please retry" during the pairing PIN prompt overwrites the header prepared before it (line 233) |
| `AuxMessagesReplies.cfg` | `SentIntact` | an answer is written while the one before is being sent from the same buffer (line 662; note of line 74) |

Also seen while reading: `nodemgmt_init_context` says it scans "from the start of the
memory" (nodemgmt.c:1647), and scans from where the last session of the power cycle stood
(line 1556).

## 5. Proofs

`CtrEncryptionProofs`, from `NoUser` not being a user, `MinIncr` >= 1, `CtrSpace` > `MinIncr`
and plaintexts of 1 to `MinIncr` blocks (32 against at most 8 in the code), and from nothing about
the host: `TypeCorrect`, `NoBlockReuse` (`FreshBlocks`) and `LossIsBounded` (`BoundedLoss`), for
any number of users and any counter width.  `FreshBlocks` is not inductive: it speaks of the encryption that
is about to happen.  The invariant adds `FlashAhead` (the blocks used are behind the
profile counter, which survives power cuts, of every user whose counter is `Sound`: neither
wrapped nor lowered), `RamBehind` (the blocks of the operation under way are
reserved), `RamFresh` (the RAM counter is past the used blocks, except those just
consumed), `LossInv` and `SessionInv` (which operation goes with which session).  `RamBehind` survives
what the host does unless it lowers the counter, which is why `lowered` looks at the RAM counter
too: without that, the session would go on to use blocks ahead of the profile.

`NodeDbProofs`, for a flash of any size, any finite sets of names (numbers from 1 on, at least one
service and one login; that they are finite is what makes a walk end) and any number of power
cuts and deletions: `SpecTypeOK`, `SpecListsSorted`, `SpecFreeSlotsFree`, `SpecBackLinks`,
`SpecNoLeak`, `SpecNothingLost` and `SpecImplementsStore`, that is, every safety property of its
run, the refinement included.  None of them is inductive: they speak of what can be reached and
say nothing of the writes that are left.  The invariant (`SpecIInv`) says that the flash holds
lists (`Lists`): the set P of services, the sets C of their logins, sorted (`Ordered`), with back
links that are right or point to an orphan (`Linked`), a node that a power cut left in no list
(the set O, empty until one hits an operation).  An insertion is at one of the stages `Stage0` to
`Stage3` or `Done`, and `todo` is what that stage leaves to write (`Inserting`); in a deletion, only
the write of the profile touches a list that can be reached (`Deletion`).  Each of `Write0` to
`Write4` takes an insertion to the next stage, and either leaves the credentials alone or adds the new one
(`Outcome`): that is the refinement, and `NothingLost`.  After a power cut an insertion may link
its node behind an orphan, where it is lost (`Lost`); hence `AckedIsStored` fails, and the refinement is claimed
until a cut only.  `Searched`, `PlaceFound` and `WritesAre` connect this with the code: where the
loops stop, and what `nodemgmt_create_generic_node` writes.  Walks and
deletions are recursive functions; that they exist and stay in a list is proved by induction on
sets of steps (`Induction`, `Iterated`, `Walked`, `WalkStays`).

`AuxMessagesProofs`, for any number of messages in any order without `platinfo` and typing:
`MessagesHandledOnce`, `MessagesNotDropped`, `MessagesComplete`, `MessagesHeard` (`NeverDeaf`)
and `MessagesReadWhole` (`WholeMessage`), which also excludes `late`.  The invariant: every
message but the one in the buffer was handled exactly once, and the flags tell whether
that one was (`Ledger`); which flags go with which progress of the transfer (`Flags`); the
message of a prompt that handles none is still in the buffer (`Kept`).

`PowerSourceProofs`, for queues of any length: `SpecTypeOK`, `SpecDetachOnItsWay`,
`SpecAttachAgrees`, `SpecChargeAgrees`, `SpecChargeOnlyAttached`.  The invariant says what the
aux MCU will be when it has handled all that is on its way: `Attachment` (attached, or an
ATTACH_USB on its way, exactly when the main MCU runs from the USB), `Charge` (a charge the main MCU believes in is running, ordered, or its end is
being reported) and `Order` (nothing is sent behind a DETACH_USB, nor a charge ordered before the
ATTACH_USB).  What appending to a queue
and taking from it does to "contains" and "contains one" is stated once, in `Appended` and
`Taken`.

The second half of the module proves `SpecLastHostLocks`, for queues of any length and any
number of computers.  Its invariant (`Locking`) tells from what is on its way whether the main MCU is
going to lock: of each link the main MCU knows what the aux MCU has, or there is a report of the
difference behind it (`Bonds`, `Enumeration`); a computer that has left and for which the
device is still open is owed a lock (`Owed`), which the cable being out (`Pulled`), a report (`Leaving`)
or one of the named excuses (`Excused`) accounts for.

`SmartcardSessionProofs`, for any number of cards and users, any debouncing and two or more PIN
tries.  `Base` is inductive whatever tick comes when: which goal goes with which step
(`Route`), that the PIN is asked for the card that was read (`PinPhase`), that a last try left
is known only to a card that has been out (`Tries`), and that the user the main thread
works for is in the table (`InTable`).  It gives `SpecTypeOK`, `SpecErasedUserIsLocked` and the action
property `SpecLastTryNeedsRemoval`.  `Session` is inductive until a tick changes
`card_return` between its copy and the critical section, which is where the code itself goes
wrong (`SmartcardSessionRace.cfg`), so that `SpecReleaseReported`, `SpecRemovalLocks`,
`SpecMmmNeedsUser` and `SpecKeyOfCurrentUser` say `Spec => [](preempted = 0 => ...)`: for any
`MaxPreempted`, in every state before such a tick, and in every state where there are none (the run's
`MaxPreempted` is 0).  It says of the flags and the power of the slot what the next report will find
(`Debouncer`, `Believed`, `CardPower`, `Powered`), that a card that was not out is the one the
operation began with (`SameCard`), and whose key is in use (`Keys`).

`HidPacketsProofs`, for any number of messages of any length, any number of resets, late ones
included, and hosts that wait or not, on USB: `SpecWholeMessages`; and `SpecNothingTorn` for hosts that wait (`Waits`).  Both
hypotheses are the code's: without them TLC shows the violations (`HidPacketsBle.cfg`,
`HidPacketsPipelined.cfg`).  The invariant: what packets of an earlier
host can still be under way (`Past`, `Known`), that the endpoint holds at most one packet and is
armed only when the one before was handled (`Endpoint`), that the packets in the buffer are the
first of the message they are of and the next one on the bus follows them (`Stream`, `Complete`);
`Quiet` adds that a host that waits sends nothing during a transfer.

`CtapHidProofs`, for any number of applications, entries, channels and packets:
`SpecTypeOK`, `SpecWholeMessages`, `SpecNoSilence`, `SpecOwnerKnown`,
`SpecChannelsFreed`.  The invariant adds that no two applications have the same channel and no entry
one that was not given out (`OwnChannels`, `OldChannels`), that the buffer
holds the first packets of the message its owner is sending (`Message`), and how far each
application is with it (`Progress`).  `SpecNoSilence` makes the exception for CTAPHID_CANCEL that its
property does.

`UserCardsProofs`, for any number of cards, rows, entries in a row, users and power cuts, on
the assumption `~PullAtRead`: `SpecKnownCardsFit`, `SpecOwnCredentials`, `SpecOneEntry`.
`KnownCardsFit` speaks of the cards the device knows now; the invariant (`Fits`) of all it
may come to know (`Trusted`): those in the row that is being written, those the computer can
add, and the user that is being created once its key was read back.  `Creation` says that a new user is
nowhere before that, `Cloning` that a target has a CPZ only after the key, `Erasure` that an
erased key has no CPZ left, `Table` that the row to be written, too, has no
duplicates and no foreign credentials, and `Mine` that a session stores credentials
where its key belongs, or where a power cut left the entry empty.  `SpecEntriesReachable` has
an invariant of its own (`Reachable`): before the first power cut, every entry has its card, or it is the one that
is being written, or erased (`Held`, `Target`: a card that is reset is that of no entry), or the card of the user being created is
in the slot (`SetUp`, `Pins`, `New`).

Each step lemma is one action; the temporal theorems combine them with PTL.

Only model-checked: liveness (`EmptySlotLocks`, `CardIsReported`, `EveryMessageHandled`,
`SettlesOnBattery`, `SettlesOnUsb`, `EveryHostServed`), for which the prover has no fairness
reasoning here.  Every other property of a passing run is a theorem, under the hypotheses above.

## 6. Not modelled, and why

The AES, TOTP and ECDSA computations (no state of their own); the bits of the card and
flash protocols; drawing and wording; contents of credentials beyond the order of names;
favorites, categories, dates, data files, webauthn lists and bonding records; the host's node
reads and writes in management mode; messages that are invalid or overlong (the code
documents that it does not rearm for the latter, comms_aux_mcu.c:645) and resets of the
link; the emulator, boot loader, factory code and scripts.

Of the modelled parts: in `PowerSource`, enabling and disabling Bluetooth, unpairing,
the USB timeout, battery levels, the ADC, the switch-off at a low battery and the charge
commands of the debug menu; in `HidPackets`, acknowledgements, the answers' packets and the
waits for packets being sent; in `CtapHid`, keep-alive messages, CTAP itself and the timeouts
that nothing calls; in `UserCards`, the provisioned key, the four PIN tries, simple mode, and the test of
the key zone, whose outcome is a choice.

Most lines of the repository are vendored: the Bluetooth and USB stacks, CMSIS, the
chip's headers, CBOR, four generations of aux MCU firmware with a copy
each, and bitmaps and fonts as tables.  The firmware's own logic is about a twentieth.

Unmodelled parts that are exposed to hazards are listed in `PROJECT.json` with a note.

## 7. Plan

Done, in this order: `CtrEncryption`, `NodeDb` with `CredentialStore`, `SmartcardSession`,
`AuxMessages`, `PowerSource`, `HidPackets`, `CtapHid`, `UserCards`; the proofs of
`CtrEncryption`, `AuxMessages`, `PowerSource`, `CtapHid`, `UserCards`, `SmartcardSession`,
`HidPackets` and `NodeDb`.

Left:

1. `ManagementMode`: the host's node reads and writes, free node queries and the scan at
   the end, against the lists of `NodeDb`; stale free slots.
2. Data files, webauthn lists and the bonding table as further lists of `NodeDb`, including
   `logic_user_add_data_service`, which returns `RETURN_NOK` after "Send success!".
