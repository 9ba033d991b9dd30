------------------------------ MODULE CtrEncryption ------------------------------
(***************************************************************************)
(* The AES-CTR counter of a Mooltipass Mini BLE user                       *)
(* (main_mcu/src/LOGIC/logic_encryption.c), with the operations that give  *)
(* it a value: login, creation and deletion of a user, and the management  *)
(* mode commands of the host.                                              *)
(*                                                                         *)
(* Each user profile in the external flash holds a 24-bit counter.  At     *)
(* login it is copied to RAM; every encryption consumes counter values     *)
(* from the RAM copy, and the flash copy is pushed ahead by                *)
(* CTR_FLASH_MIN_INCR before the RAM copy may reach it, so that a power    *)
(* cut loses values but never gives one out twice.  One counter value is   *)
(* one 16-byte keystream block.                                            *)
(***************************************************************************)
EXTENDS Integers

CONSTANTS
  Users,       \* user ids: the slots of the CPZ look-up table
  NoUser,      \* no user is logged in
  MinIncr,     \* CTR_FLASH_MIN_INCR, 32 in the firmware
  CtrSpace,    \* number of counter values, 2^24 in the firmware
  Sizes        \* lengths of the plaintexts, in blocks: 8 (password), 2 (key)

ASSUME NoUserAssumption == NoUser \notin Users
ASSUME MinIncrAssumption == MinIncr \in Nat \ {0}
ASSUME CtrSpaceAssumption == CtrSpace \in Nat /\ CtrSpace > MinIncr
ASSUME SizesAssumption == Sizes \subseteq 1..MinIncr

VARIABLES
  lut,         \* users with an entry in the CPZ look-up table (MCU flash)
  profileCtr,  \* current_ctr of each user profile (external flash)
  nextCtr,     \* logic_encryption_next_ctr_val (RAM)
  curUser,     \* user of the encryption context, or NoUser
  mmm,         \* management mode
  op,          \* point reached in the operation under way
  blocks,      \* blocks the encryption under way needs
  used,        \* history: keystream blocks behind the ciphertexts of a user
  wrapped,     \* history: the profile counter went past its 24 bits
  lowered,     \* history: the host, or a deletion, left the profile counter
               \* behind a ciphertext of the user, or behind nextCtr
  hostMoved    \* history: the host moved the counter or imported
               \* ciphertexts since this user logged in

vars == <<lut, profileCtr, nextCtr, curUser, mmm, op, blocks, used, wrapped,
          lowered, hostMoved>>

Ctrs == 0..(CtrSpace - 1)

\* op = "idle": between two operations; "reserved": logic_encryption_pre_ctr_tasks
\* has returned; "encrypted": the data is encrypted, the RAM counter is not yet
\* advanced; "formatted": the profile of a user being deleted is blank.
TypeOK ==
  /\ lut \in SUBSET Users
  /\ profileCtr \in [Users -> Ctrs]
  /\ nextCtr \in Ctrs
  /\ curUser \in Users \cup {NoUser}
  /\ mmm \in BOOLEAN
  /\ op \in {"idle", "reserved", "encrypted", "formatted"}
  /\ blocks \in Sizes \cup {0}
  /\ used \in [Users -> SUBSET Nat]
  /\ wrapped \in [Users -> BOOLEAN]
  /\ lowered \in [Users -> BOOLEAN]
  /\ hostMoved \in BOOLEAN

\* The keystream blocks of n blocks of data encrypted from counter value c: the
\* block cipher counts on from nonce + c over the whole 128-bit block.
Blocks(c, n) == c..(c + n - 1)

Init ==
  /\ lut = {}
  /\ profileCtr = [u \in Users |-> 0]
  /\ nextCtr = 0
  /\ curUser = NoUser
  /\ mmm = FALSE
  /\ op = "idle"
  /\ blocks = 0
  /\ used = [u \in Users |-> {}]
  /\ wrapped = [u \in Users |-> FALSE]
  /\ lowered = [u \in Users |-> FALSE]
  /\ hostMoved = FALSE

-----------------------------------------------------------------------------
(* Session *)

\* Mutant: the RAM counter is not read from the profile.
InitContextKeepsCtr(u, ctr) ==
  /\ curUser' = u
  /\ hostMoved' = FALSE
  /\ UNCHANGED nextCtr

\* The encryption context of user u is set up with the counter of its profile.
InitContext(u, ctr) ==
  /\ curUser' = u
  /\ nextCtr' = ctr
  /\ hostMoved' = FALSE

\* Right PIN for the card of u: logic_smartcard_valid_card_unlock.
Login(u) ==
  /\ curUser = NoUser
  /\ u \in lut
  /\ InitContext(u, profileCtr[u])
  /\ UNCHANGED <<lut, profileCtr, mmm, op, blocks, used, wrapped, lowered>>

\* Card removed, device locked: the context goes, the RAM counter stays.
Logout ==
  /\ curUser # NoUser
  /\ op = "idle"
  /\ curUser' = NoUser
  /\ mmm' = FALSE
  /\ UNCHANGED <<lut, profileCtr, nextCtr, op, blocks, used, wrapped, lowered,
                 hostMoved>>

\* Power loss at any point: flash survives, RAM does not.
PowerCut ==
  /\ curUser' = NoUser
  /\ nextCtr' = 0
  /\ mmm' = FALSE
  /\ op' = "idle"
  /\ blocks' = 0
  /\ UNCHANGED <<lut, profileCtr, used, wrapped, lowered, hostMoved>>

-----------------------------------------------------------------------------
(* logic_encryption_ctr_encrypt: reserve, encrypt, advance *)

\* Adding n <= CtrSpace byte by byte drops the carry out of the third byte: the
\* sum modulo CtrSpace.
Advance(ctr, n) == IF ctr + n < CtrSpace THEN ctr + n ELSE ctr + n - CtrSpace

\* Mutant: the comparison forgets the length of the data.
ReservationNeededNoLookahead(u, n) == nextCtr >= profileCtr[u]

\* The 32-bit comparison that decides whether the profile has to move.
ReservationNeeded(u, n) == nextCtr + n >= profileCtr[u]

\* logic_encryption_pre_ctr_tasks.
PreCtrTasks(n) ==
  /\ curUser # NoUser
  /\ op = "idle"
  /\ op' = "reserved"
  /\ blocks' = n
  /\ IF ReservationNeeded(curUser, n)
       THEN /\ profileCtr' = [profileCtr EXCEPT ![curUser] = Advance(@, MinIncr)]
            /\ wrapped' = [wrapped EXCEPT ![curUser] =
                             @ \/ profileCtr[curUser] + MinIncr >= CtrSpace]
       ELSE UNCHANGED <<profileCtr, wrapped>>
  /\ UNCHANGED <<lut, nextCtr, curUser, mmm, used, lowered, hostMoved>>

\* The encryption itself, with the RAM counter as the credential's counter.
CtrEncrypt ==
  /\ op = "reserved"
  /\ op' = "encrypted"
  /\ used' = [used EXCEPT ![curUser] = @ \cup Blocks(nextCtr, blocks)]
  /\ UNCHANGED <<lut, profileCtr, nextCtr, curUser, mmm, blocks, wrapped, lowered,
                 hostMoved>>

\* logic_encryption_post_ctr_tasks: RAM only.
PostCtrTasks ==
  /\ op = "encrypted"
  /\ op' = "idle"
  /\ nextCtr' = Advance(nextCtr, blocks)
  /\ blocks' = 0
  /\ UNCHANGED <<lut, profileCtr, curUser, mmm, used, wrapped, lowered, hostMoved>>

-----------------------------------------------------------------------------
(* Creation and deletion of users *)

\* nodemgmt_format_user_profile zeroes the profile, the counter with it.  "left"
\* is what the flash still holds of ciphertexts under the key of u.
FormatProfile(u, left) ==
  /\ profileCtr' = [profileCtr EXCEPT ![u] = 0]
  /\ used' = [used EXCEPT ![u] = left]
  /\ wrapped' = [wrapped EXCEPT ![u] = FALSE]
  /\ lowered' = [lowered EXCEPT ![u] = left # {}]

\* A card gets a free user slot.  A blank card gets a new key; for a card of a
\* known user of another device the host supplies the look-up table entry, and
\* management mode opens at once (HID_CMD_ADD_UNKNOWN_CARD_ID).  That card may
\* hold the key of the slot's last user, whose ciphertexts need not all be gone.
CreateUser(u, existingCard) ==
  /\ curUser = NoUser
  /\ u \notin lut
  /\ lut' = lut \cup {u}
  /\ \/ FormatProfile(u, {})
     \/ existingCard /\ FormatProfile(u, used[u])
  /\ InitContext(u, 0)
  /\ mmm' = existingCard
  /\ UNCHANGED <<op, blocks>>

\* nodemgmt_delete_current_user_from_flash starts with the profile, its
\* ciphertexts still in the flash ...
DeleteProfile ==
  /\ curUser # NoUser
  /\ op = "idle"
  /\ ~mmm
  /\ op' = "formatted"
  /\ FormatProfile(curUser, used[curUser])
  /\ UNCHANGED <<lut, nextCtr, curUser, mmm, blocks, hostMoved>>

\* ... and logic_gui_erase_user removes the look-up table entry, then logs out.
DeleteLutEntry ==
  /\ op = "formatted"
  /\ lut' = lut \ {curUser}
  /\ curUser' = NoUser
  /\ op' = "idle"
  /\ UNCHANGED <<profileCtr, nextCtr, mmm, blocks, used, wrapped, lowered,
                 hostMoved>>

-----------------------------------------------------------------------------
(* Management mode *)

StartMMM ==
  /\ curUser # NoUser
  /\ op = "idle"
  /\ ~mmm
  /\ mmm' = TRUE
  /\ UNCHANGED <<lut, profileCtr, nextCtr, curUser, op, blocks, used, wrapped,
                 lowered, hostMoved>>

\* HID_CMD_END_MMM and the main loop's exit from management mode: the user
\* stays logged in and the RAM counter is not read again.
EndMMM ==
  /\ mmm
  /\ op = "idle"
  /\ mmm' = FALSE
  /\ UNCHANGED <<lut, profileCtr, nextCtr, curUser, op, blocks, used, wrapped,
                 lowered, hostMoved>>

\* A profile counter that would give out a consumed block again: it is behind a
\* ciphertext, or behind the counter in RAM.
Behind(ctr, ciphertexts) == ctr < nextCtr \/ \E b \in ciphertexts : ctr <= b

\* HID_CMD_SET_CTR_VALUE: any value, higher or lower, into the profile only.
HostSetCtr(v) ==
  /\ mmm
  /\ op = "idle"
  /\ profileCtr' = [profileCtr EXCEPT ![curUser] = v]
  /\ lowered' = [lowered EXCEPT ![curUser] = Behind(v, used[curUser])]
  /\ hostMoved' = TRUE
  /\ UNCHANGED <<lut, nextCtr, curUser, mmm, op, blocks, used, wrapped>>

\* HID_CMD_WRITE_NODE with a credential of a backup, encrypted with the same key
\* from counter value c: before or after the counter is set, if it is set at all.
HostImport(c, n) ==
  /\ mmm
  /\ op = "idle"
  /\ used' = [used EXCEPT ![curUser] = @ \cup Blocks(c, n)]
  /\ lowered' = [lowered EXCEPT ![curUser] =
                   Behind(profileCtr[curUser], used[curUser] \cup Blocks(c, n))]
  /\ hostMoved' = TRUE
  /\ UNCHANGED <<lut, profileCtr, nextCtr, curUser, mmm, op, blocks, wrapped>>

-----------------------------------------------------------------------------
Next ==
  \/ \E u \in Users : Login(u)
  \/ Logout
  \/ PowerCut
  \/ \E n \in Sizes : PreCtrTasks(n)
  \/ CtrEncrypt
  \/ PostCtrTasks
  \/ \E u \in Users, existingCard \in BOOLEAN : CreateUser(u, existingCard)
  \/ DeleteProfile
  \/ DeleteLutEntry
  \/ StartMMM
  \/ EndMMM
  \/ \E v \in Ctrs : HostSetCtr(v)
  \/ \E c \in Ctrs, n \in Sizes : HostImport(c, n)

Spec == Init /\ [][Next]_vars

-----------------------------------------------------------------------------
\* An encryption never consumes a keystream block that lies behind another
\* ciphertext of the same user, through any sequence of logins, power cuts in
\* the middle of an encryption, restores by the host, and users who come and go:
\* what the reservation in logic_encryption_pre_ctr_tasks is for.  It holds until
\* the 24-bit counter wraps, as long as the host did not move the counter or
\* import ciphertexts in this session, and unless the host (in any session, and
\* until it sets the counter past them) or a deletion left the profile counter
\* behind a ciphertext that is still there, or behind the counter in RAM.
FreshBlocks ==
  op = "reserved" /\ ~wrapped[curUser] /\ ~lowered[curUser] /\ ~hostMoved
    => Blocks(nextCtr, blocks) \cap used[curUser] = {}

\* "Encrypt data using next available CTR value" (logic_encryption.c) once the
\* host has restored a backup in management mode and set the profile counter past
\* every ciphertext.  It does not hold: the RAM counter is only read from the
\* profile at login.
FreshBlocksAfterRestore ==
  op = "reserved" /\ ~wrapped[curUser] /\ ~lowered[curUser]
    => Blocks(nextCtr, blocks) \cap used[curUser] = {}

\* The profile never runs more than CTR_FLASH_MIN_INCR ahead of the RAM counter
\* between two operations: this is what one login or power cut can cost of the
\* 2^24 counter values of a user.
BoundedLoss ==
  curUser # NoUser /\ op = "idle" /\ ~wrapped[curUser] /\ ~hostMoved
    => profileCtr[curUser] - nextCtr \in 0..MinIncr
=============================================================================
