------------------------------- MODULE UserCards -------------------------------
(***************************************************************************)
(* Where a user of the device is kept: a smartcard (code protected zone,   *)
(* AES key, PIN), an entry of the CPZ look-up table in the flash of the    *)
(* main MCU, and a profile with lists of credentials in the external       *)
(* flash.  Creating, cloning and erasing users write them one after the    *)
(* other, while the card may be pulled, or the power cut, between any two  *)
(* writes (logic_user.c, logic_gui.c, logic_smartcard.c, custom_fs.c,      *)
(* smartcard_highlevel.c).                                                 *)
(***************************************************************************)
EXTENDS Integers, FiniteSetsExt

CONSTANTS
  Cards,     \* smartcards, blank at first
  Rows,      \* rows of flash the look-up table takes, 28 in the firmware
  RowSize,   \* entries in a row, which is erased as a whole: 4 in the firmware
  MaxUsers,  \* bound: users created
  MaxCuts,   \* bound: power cuts
  PullAtRead \* a card may be pulled in the milliseconds between two reads of the clone

ASSUME ConstantsAssumption ==
  /\ Rows \in Nat \ {0} /\ RowSize \in Nat \ {0} /\ MaxUsers \in Nat /\ MaxCuts \in Nat
  /\ PullAtRead \in BOOLEAN

VARIABLES
  card,      \* each card's code protected zone (cpz), key and pin
  slot,      \* the card in the slot, as a set of at most one
  authed,    \* that card has accepted its PIN
  lut,       \* custom_fs_cpz_lut: the user of each entry
  image,     \* one_page_of_lut_entries: what the row of entry cur is to hold
  page,      \* pages of that row written; -1 before the row is erased
  data,      \* the keys of the credentials in the lists of each user profile
  session,   \* logic_security_smartcard_inserted_unlocked
  cur,       \* the user id that is logged in, created or erased
  key,       \* the key in the encryption context
  user,      \* the user that is created, or whose card is cloned
  copy,      \* temp_az1: the key read for the clone
  goal,      \* what the main thread is doing
  pc,        \* its next step, "idle" for none
  created,   \* users created so far
  exported,  \* users whose look-up table entry the computer knows
  cuts       \* power cuts so far

flash == <<lut, image, page>>
context == <<session, cur, key, user, copy>>
control == <<goal, pc>>
vars == <<card, slot, authed, flash, data, context, control, created, exported, cuts>>

\* A user stands for the random CPZ, key and nonce it was created with, and for the
\* PIN chosen then, which no other user has.  NoUser is what erased memory reads.
NoUser == 0
Users == 1 .. MaxUsers
Entries == 1 .. Rows * RowSize
Row(i) == (i - 1) \div RowSize
InRow(i) == {k \in Entries : Row(k) = Row(i)}
Blank == [cpz |-> NoUser, key |-> NoUser, pin |-> NoUser]

Goals == {"none", "create", "uncreate", "add", "reset", "erase", "clone"}
Steps == {"idle", "write_cpz", "write_key", "write_pin", "check", "confirm", "erase_cpz",
          "erase_key", "erase_pin", "others", "delete", "read_key", "target", "row"}

Init ==
  /\ card = [c \in Cards |-> Blank]
  /\ slot = {} /\ authed = FALSE
  /\ lut = [i \in Entries |-> NoUser]
  /\ image = lut /\ page = -1
  /\ data = [i \in Entries |-> {}]
  /\ session = FALSE /\ cur = 1 /\ key = NoUser /\ user = NoUser /\ copy = NoUser
  /\ goal = "none" /\ pc = "idle"
  /\ created = 0 /\ exported = {} /\ cuts = 0

-----------------------------------------------------------------------------
(* The card.  What is written to one that has not accepted its PIN, or to   *)
(* none, is lost.                                                           *)

\* A card that was set up has a CPZ; another opens with the default PIN or is a
\* problem card.
IsUserCard(c) == card[c].cpz # NoUser
IsBlankCard(c) == card[c].cpz = NoUser /\ card[c].pin = NoUser

WriteCard(zone, value) ==
  card' = [c \in Cards |-> IF c \in slot /\ authed THEN [card[c] EXCEPT ![zone] = value]
                           ELSE card[c]]

InsertCard(c) ==
  /\ slot = {}
  /\ slot' = {c}
  /\ UNCHANGED <<card, authed, flash, data, context, control, created, exported, cuts>>

\* The interrupt cuts the slot's power and clears the flag.
RemoveCard ==
  /\ slot # {}
  /\ pc = "read_key" => PullAtRead
  /\ slot' = {} /\ authed' = FALSE /\ session' = FALSE
  /\ UNCHANGED <<card, flash, data, cur, key, user, copy, control, created, exported, cuts>>

-----------------------------------------------------------------------------
(* The look-up table.  custom_fs_update_cpz_entry and the deletion of an    *)
(* entry read a row, erase it and write its pages, one entry each.          *)

Free == {i \in Entries : lut[i] = NoUser}
Known(u) == \E i \in Entries : lut[i] = u
EntryOf(u) == Min({i \in Entries : lut[i] = u})

WriteEntry(i, u) ==
  /\ image' = [k \in Entries |-> IF k = i THEN u ELSE lut[k]]
  /\ page' = -1
  /\ pc' = "row"

EraseRow ==
  /\ pc = "row" /\ page = -1
  /\ lut' = [i \in Entries |-> IF i \in InRow(cur) THEN NoUser ELSE lut[i]]
  /\ page' = 0
  /\ UNCHANGED <<card, slot, authed, image, data, context, control, created, exported,
                 cuts>>

WritePage ==
  /\ pc = "row" /\ page \in 0 .. RowSize - 1
  /\ LET i == Row(cur) * RowSize + page + 1 IN lut' = [lut EXCEPT ![i] = image[i]]
  /\ page' = page + 1
  /\ UNCHANGED <<card, slot, authed, image, data, context, control, created, exported,
                 cuts>>

\* The row is written: what follows depends on why it was.
Idle == pc' = "idle" /\ goal' = "none"

RowWritten ==
  /\ pc = "row" /\ page = RowSize
  /\ page' = -1
  /\ \/ goal = "create" /\ pc' = "write_pin" /\ UNCHANGED <<goal, session, exported, authed>>
     \/ /\ goal = "add" /\ Idle
        /\ session' = TRUE /\ exported' = exported \cup {user} /\ UNCHANGED authed
     \/ goal = "uncreate" /\ Idle /\ UNCHANGED <<session, exported, authed>>
     \/ goal = "erase" /\ Idle /\ session' = FALSE /\ authed' = FALSE /\ UNCHANGED exported
  /\ UNCHANGED <<card, slot, lut, image, data, cur, key, user, copy, created, cuts>>

-----------------------------------------------------------------------------
(* The user logs in, and stores credentials.                                *)

Login(c) ==
  /\ pc = "idle" /\ ~session /\ slot = {c} /\ IsUserCard(c) /\ Known(card[c].cpz)
  /\ cur' = EntryOf(card[c].cpz) /\ key' = card[c].key
  /\ authed' = TRUE /\ session' = TRUE
  /\ exported' = exported \cup {card[c].cpz}
  /\ UNCHANGED <<card, slot, flash, data, user, copy, control, created, cuts>>

\* The main loop hears of the removal.
CardReleased ==
  /\ pc = "idle" /\ session /\ ~authed
  /\ session' = FALSE
  /\ UNCHANGED <<card, slot, authed, flash, data, cur, key, user, copy, control, created,
                 exported, cuts>>

StoreCredential ==
  /\ pc = "idle" /\ session
  /\ data' = [data EXCEPT ![cur] = @ \cup {key}]
  /\ UNCHANGED <<card, slot, authed, flash, context, control, created, exported, cuts>>

-----------------------------------------------------------------------------
(* logic_user_create_new_user, for a blank card.                            *)

\* Mutant: the profile is not formatted.
FormatNone(i) == UNCHANGED data
nodemgmt_format_user_profile(i) == data' = [data EXCEPT ![i] = {}]

Create(c) ==
  /\ pc = "idle" /\ ~session /\ slot = {c} /\ IsBlankCard(c)
  /\ Free # {} /\ created < MaxUsers
  /\ authed' = TRUE
  /\ created' = created + 1 /\ user' = created + 1 /\ key' = created + 1
  /\ cur' = Min(Free)
  /\ nodemgmt_format_user_profile(Min(Free))
  /\ goal' = "create" /\ pc' = "write_cpz"
  /\ UNCHANGED <<card, slot, flash, session, copy, exported, cuts>>

WriteCpz ==
  /\ pc = "write_cpz"
  /\ WriteCard("cpz", user)
  /\ pc' = IF goal = "clone" THEN "write_pin" ELSE "write_key"
  /\ UNCHANGED <<slot, authed, flash, data, context, goal, created, exported, cuts>>

\* The key is read back; the clone writes it without.
\* Mutant: it is taken to be written.
KeyWrittenAlways == TRUE
KeyWritten == slot # {} /\ authed

WriteKey ==
  /\ pc = "write_key"
  /\ WriteCard("key", IF goal = "clone" THEN copy ELSE key)
  /\ IF goal = "clone" THEN pc' = "write_cpz" /\ UNCHANGED <<image, page, goal>>
     ELSE IF KeyWritten THEN WriteEntry(cur, user) /\ UNCHANGED goal
     ELSE Idle /\ UNCHANGED <<image, page>>
  /\ UNCHANGED <<slot, authed, lut, data, context, created, exported, cuts>>

\* The clone ends here, with the flag set; a new card is switched off and checked.
WritePin ==
  /\ pc = "write_pin"
  /\ WriteCard("pin", user)
  /\ IF goal = "clone"
     THEN session' = TRUE /\ Idle /\ UNCHANGED authed
     ELSE authed' = FALSE /\ pc' = "check" /\ UNCHANGED <<session, goal>>
  /\ copy' = NoUser
  /\ UNCHANGED <<slot, flash, data, cur, key, user, created, exported, cuts>>

Check(c) ==
  /\ pc = "check" /\ slot = {c} /\ IsUserCard(c) /\ card[c].pin = user
  /\ authed' = TRUE /\ session' = TRUE
  /\ exported' = exported \cup {user}
  /\ Idle
  /\ UNCHANGED <<card, slot, flash, data, cur, key, user, copy, created, cuts>>

\* "Reset smartcard and delete just created user": the card does not answer, or has not
\* taken its PIN, or fails the test of the key zone and is unlocked again to be erased.
CheckFails ==
  /\ pc = "check"
  /\ authed' \in {FALSE, \E c \in slot : card[c].pin = user}
  /\ goal' = "uncreate" /\ pc' = "erase_cpz"
  /\ UNCHANGED <<card, slot, flash, data, context, created, exported, cuts>>

-----------------------------------------------------------------------------
(* HID_CMD_ADD_UNKNOWN_CARD_ID: the computer gives the entry of a card the  *)
(* device does not know; HID_CMD_RESET_UNKNOWN_CARD has such a card erased. *)

\* Mutant: the device is not asked whether it knows the card.
UnknownAny(u) == TRUE
Unknown(u) == ~Known(u)

AddUnknownCard(c) ==
  /\ pc = "idle" /\ ~session /\ slot = {c} /\ IsUserCard(c) /\ Unknown(card[c].cpz)
  /\ card[c].cpz \in exported /\ Free # {}
  /\ authed' = TRUE
  /\ cur' = Min(Free) /\ user' = card[c].cpz /\ key' = card[c].key
  /\ nodemgmt_format_user_profile(Min(Free))
  /\ goal' = "add" /\ WriteEntry(Min(Free), card[c].cpz)
  /\ UNCHANGED <<card, slot, lut, session, copy, created, exported, cuts>>

ResetUnknownCard(c) ==
  /\ pc = "idle" /\ ~session /\ slot = {c} /\ IsUserCard(c) /\ Unknown(card[c].cpz)
  /\ authed' = TRUE
  /\ goal' = "reset" /\ pc' = "erase_cpz"
  /\ UNCHANGED <<card, slot, flash, data, context, created, exported, cuts>>

-----------------------------------------------------------------------------
(* logic_gui_erase_user and smartcard_highlevel_erase_smartcard             *)

\* logic_smartcard_remove_card_and_reauth_user
Reauth(c) ==
  /\ pc = "idle" /\ session /\ slot = {c} /\ IsUserCard(c)
  /\ Known(card[c].cpz) /\ EntryOf(card[c].cpz) = cur
  /\ authed' = TRUE

EraseUser(c) ==
  /\ Reauth(c)
  /\ goal' = "erase" /\ pc' = "confirm"
  /\ UNCHANGED <<card, slot, flash, data, context, created, exported, cuts>>

\* The credentials go first; then the user may have the card erased, or not.
nodemgmt_delete_current_user_from_flash ==
  /\ pc = "confirm"
  /\ data' = [data EXCEPT ![cur] = {}]
  /\ pc' \in {"erase_cpz", "delete"}
  /\ UNCHANGED <<card, slot, authed, flash, context, goal, created, exported, cuts>>

\* The second confirmation is refused.
EraseRefused ==
  /\ pc = "confirm"
  /\ Idle /\ session' = FALSE /\ authed' = FALSE
  /\ UNCHANGED <<card, slot, flash, data, cur, key, user, copy, created, exported, cuts>>

EraseCpz ==
  /\ pc = "erase_cpz"
  /\ WriteCard("cpz", NoUser)
  /\ pc' = "erase_key"
  /\ UNCHANGED <<slot, authed, flash, data, context, goal, created, exported, cuts>>

EraseKey ==
  /\ pc = "erase_key"
  /\ WriteCard("key", NoUser)
  /\ pc' = IF goal = "clone" THEN "write_key" ELSE "erase_pin"
  /\ UNCHANGED <<slot, authed, flash, data, context, goal, created, exported, cuts>>

ErasePin ==
  /\ pc = "erase_pin"
  /\ WriteCard("pin", NoUser)
  /\ \/ goal = "erase" /\ pc' = "others" /\ UNCHANGED goal
     \/ goal = "uncreate" /\ pc' = "delete" /\ UNCHANGED goal
     \/ goal = "reset" /\ Idle
  /\ UNCHANGED <<slot, authed, flash, data, context, created, exported, cuts>>

\* Another card is unlocked, and erased if it is one of the same user.  cur is the id
\* read before, and the session this opens ends with the erasure.
EraseOther(c) ==
  /\ pc = "others" /\ slot = {c} /\ IsUserCard(c) /\ Known(card[c].cpz)
  /\ authed' = TRUE /\ session' = TRUE /\ key' = card[c].key
  /\ pc' = IF EntryOf(card[c].cpz) = cur THEN "erase_cpz" ELSE "others"
  /\ UNCHANGED <<card, slot, flash, data, cur, user, copy, goal, created, exported, cuts>>

NoOthers ==
  /\ pc = "others"
  /\ pc' = "delete"
  /\ UNCHANGED <<card, slot, authed, flash, data, context, goal, created, exported, cuts>>

\* Mutant: the entry is kept.
DeletedKeeps(i) == lut[i]
Deleted(i) == NoUser

custom_fs_detele_user_cpz_lut_entry ==
  /\ pc = "delete"
  /\ WriteEntry(cur, Deleted(cur))
  /\ UNCHANGED <<card, slot, authed, lut, data, context, goal, created, exported, cuts>>

-----------------------------------------------------------------------------
(* logic_smartcard_clone_card: the zones are read, the card is replaced by  *)
(* a blank one, and they are written, the CPZ after the key.                *)

Clone(c) ==
  /\ Reauth(c)
  /\ user' = card[c].cpz
  /\ goal' = "clone" /\ pc' = "read_key"
  /\ UNCHANGED <<card, slot, flash, data, session, cur, key, copy, created, exported, cuts>>

\* A card that is gone, or not unlocked, reads as erased.
ReadKey ==
  /\ pc = "read_key"
  /\ IF slot # {} /\ authed THEN \E c \in slot : copy' = card[c].key ELSE copy' = NoUser
  /\ pc' = "target"
  /\ UNCHANGED <<card, slot, authed, flash, data, session, cur, key, user, goal, created,
                 exported, cuts>>

CloneTarget(c) ==
  /\ pc = "target" /\ slot = {c} /\ ~authed
  /\ IF IsBlankCard(c)
     THEN authed' = TRUE /\ pc' = "erase_key" /\ UNCHANGED <<goal, copy>>
     ELSE Idle /\ copy' = NoUser /\ UNCHANGED authed
  /\ UNCHANGED <<card, slot, flash, data, session, cur, key, user, created, exported, cuts>>

-----------------------------------------------------------------------------
PowerCut ==
  /\ cuts < MaxCuts /\ pc # "idle"
  /\ cuts' = cuts + 1
  /\ authed' = FALSE /\ session' = FALSE
  /\ Idle /\ page' = -1 /\ image' = lut
  /\ key' = NoUser /\ user' = NoUser /\ copy' = NoUser
  /\ UNCHANGED <<card, slot, lut, data, cur, created, exported>>

MainThread ==
  \/ EraseRow \/ WritePage \/ RowWritten
  \/ \E c \in Cards : Login(c) \/ Create(c) \/ AddUnknownCard(c) \/ ResetUnknownCard(c)
                         \/ EraseUser(c) \/ Clone(c)
  \/ CardReleased \/ StoreCredential \/ nodemgmt_delete_current_user_from_flash
  \/ WriteCpz \/ WriteKey \/ WritePin \/ ReadKey
  \/ \E c \in Cards : Check(c) \/ EraseOther(c) \/ CloneTarget(c)
  \/ CheckFails \/ EraseRefused \/ EraseCpz \/ EraseKey \/ ErasePin \/ NoOthers
  \/ custom_fs_detele_user_cpz_lut_entry

Next ==
  \/ MainThread
  \/ RemoveCard \/ \E c \in Cards : InsertCard(c)
  \/ PowerCut

Spec == Init /\ [][Next]_vars

-----------------------------------------------------------------------------
TypeOK ==
  /\ card \in [Cards -> [cpz : Users \cup {NoUser}, key : Users \cup {NoUser},
                         pin : Users \cup {NoUser}]]
  /\ slot \subseteq Cards /\ authed \in BOOLEAN /\ session \in BOOLEAN
  /\ lut \in [Entries -> Users \cup {NoUser}]
  /\ image \in [Entries -> Users \cup {NoUser}] /\ page \in -1 .. RowSize
  /\ data \in [Entries -> SUBSET (Users \cup {NoUser})]
  /\ cur \in Entries /\ key \in Users \cup {NoUser} /\ user \in Users \cup {NoUser}
  /\ copy \in Users \cup {NoUser}
  /\ goal \in Goals /\ pc \in Steps
  /\ created \in 0 .. MaxUsers /\ exported \subseteq Users /\ cuts \in 0 .. MaxCuts

\* A card the device knows holds the key its user's credentials are encrypted with:
\* wherever a creation, a cloning or an erasure was interrupted, no card logs in to
\* credentials it cannot decrypt.  It fails if PullAtRead.
KnownCardsFit ==
  \A c \in Cards : IsUserCard(c) /\ Known(card[c].cpz) => card[c].key = card[c].cpz

\* The lists of a user hold that user's credentials alone, though entries are lost, and
\* taken again, by power cuts.
OwnCredentials == \A i \in Entries : lut[i] # NoUser => data[i] \subseteq {lut[i]}

\* A user has one entry: with two, the credentials in the second one are out of reach.
OneEntry == \A i, k \in Entries : lut[i] = lut[k] /\ lut[i] # NoUser => i = k

\* Between operations each entry has a card: no place in the table is taken for ever.
PlacesReturn ==
  pc = "idle" => \A i \in Entries : lut[i] # NoUser => \E c \in Cards : card[c].cpz = lut[i]

\* However the operations ended but by a power cut, and wherever the cards were pulled.
EntriesReachable == cuts = 0 => PlacesReturn

\* smartcard_highlevel_card_detected_routine: a card without a CPZ is one "the user
\* hasn't configured", which opens with the default PIN.
BlankCardsOpen == pc = "idle" => \A c \in Cards : ~IsUserCard(c) => card[c].pin = NoUser

\* custom_fs_detele_user_cpz_lut_entry: "Delete single CPZ LUT entry"; its row comes back
\* with the other entries in place.
OthersKeepEntries ==
  [][page # -1 /\ page' = -1 => \A i \in Entries \ {cur} : lut[i] = image[i]]_vars
=============================================================================
