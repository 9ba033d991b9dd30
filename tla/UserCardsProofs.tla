---------------------------- MODULE UserCardsProofs ----------------------------
(***************************************************************************)
(* Proofs about UserCards, for any number of cards, entries, users and     *)
(* power cuts: the device knows no card whose key is not its user's, no    *)
(* list holds a credential of another user, and no user has two entries;   *)
(* without power cuts, every entry has a card.                             *)
(* The cards stay in the slot while they are read for a clone: PullAtRead  *)
(* is FALSE.                                                               *)
(***************************************************************************)
EXTENDS UserCards, WellFoundedInduction, NaturalsInduction, TLAPS

\* The users made so far, and what memory can read.
Made == 0 .. created

Typed ==
  /\ created \in Nat
  /\ card \in [Cards -> [cpz : Made, key : Made, pin : Made]]
  /\ slot \subseteq Cards /\ authed \in BOOLEAN /\ session \in BOOLEAN
  /\ lut \in [Entries -> Made] /\ image \in [Entries -> Made]
  /\ page \in -1 .. RowSize
  /\ data \in [Entries -> SUBSET Made]
  /\ cur \in Entries /\ key \in Made /\ user \in Made /\ copy \in Made
  /\ goal \in Goals /\ pc \in Steps
  /\ exported \subseteq Made

\* There is at most one card in the slot, and one that has accepted its PIN is there.
OneCard == (\A c, d \in slot : c = d) /\ (authed => slot # {})

\* The steps of each goal.
Route ==
  /\ pc = "idle" => goal = "none"
  /\ pc = "row" => goal \in {"create", "add", "uncreate", "erase"}
  /\ pc = "check" => goal = "create"
  /\ pc = "write_pin" => goal \in {"create", "clone"}
  /\ pc \in {"write_cpz", "write_key"} => goal \in {"create", "clone"}
  /\ pc \in {"read_key", "target"} => goal = "clone"
  /\ pc = "erase_key" => goal \in {"clone", "erase", "uncreate", "reset"}
  /\ pc \in {"erase_cpz", "erase_pin"} => goal \in {"erase", "uncreate", "reset"}
  /\ pc = "delete" => goal \in {"erase", "uncreate"}
  /\ pc \in {"confirm", "others"} => goal = "erase"
  /\ page >= 0 => pc = "row"

\* The image of a row has the other entries as they are; while its pages are written
\* the table holds it, or less.
Table ==
  pc = "row" =>
    /\ \A i, k \in Entries : image[i] = image[k] /\ image[i] # NoUser => i = k
    /\ \A i \in Entries : image[i] # NoUser => data[i] \subseteq {image[i]}
    /\ page = -1 => \A i \in Entries : i # cur => lut[i] = image[i]
    /\ page >= 0 => \A i \in Entries : lut[i] \in {NoUser, image[i]}
    /\ goal \in {"create", "add"} => image[cur] = user

\* A user that is being created is nowhere yet, but on the card that is written.
Creation ==
  goal = "create" =>
    /\ key = user /\ user # NoUser /\ ~session
    /\ pc \in {"write_cpz", "write_key"} =>
         /\ \A i \in Entries : lut[i] # user
         /\ user \notin exported
         /\ lut[cur] = NoUser /\ data[cur] = {}
    /\ pc = "write_cpz" => \A c \in Cards : card[c].cpz # user
    /\ pc = "write_key" /\ authed => \A c \in Cards : c \in slot <=> card[c].cpz = user
    /\ pc \in {"row", "write_pin", "check", "write_cpz", "write_key"}

\* What a clone is to hold.
Cloning ==
  goal = "clone" =>
    /\ pc = "read_key" => \E c \in slot : authed /\ card[c].key = user
    /\ pc \in {"target", "erase_key", "write_key", "write_cpz", "write_pin"} =>
         copy = user
    /\ pc \in {"erase_key", "write_key", "write_cpz"} /\ authed =>
         \A c \in slot : card[c].cpz = NoUser
    /\ pc = "write_cpz" /\ authed => \A c \in slot : card[c].key = user
    /\ pc \in {"read_key", "target", "erase_key", "write_key", "write_cpz", "write_pin"}

\* The code protected zone goes first.
Erasure == pc = "erase_key" /\ authed => \A c \in slot : card[c].cpz = NoUser

\* The users whose cards the device knows, or will know if it is told of them.
Trusted(u) ==
  \/ \E i \in Entries : lut[i] = u \/ (pc = "row" /\ image[i] = u)
  \/ u \in exported
  \/ goal = "create" /\ pc \in {"row", "write_pin", "check"} /\ u = user

Fits ==
  \A c \in Cards :
    card[c].cpz # NoUser /\ Trusted(card[c].cpz) => card[c].key = card[c].cpz

\* The entry of a session is that of the user whose key it uses.
Mine ==
  /\ (session /\ goal = "none") \/ goal \in {"create", "add", "clone"}
       => lut[cur] \in {NoUser, key}
  /\ goal = "add" => user = key /\ user \in exported /\ pc = "row"
  /\ goal \in {"uncreate", "reset"} => ~session

IInv ==
  /\ Typed /\ OneCard /\ Route /\ Table /\ Creation /\ Cloning /\ Erasure /\ Fits /\ Mine
  /\ OneEntry /\ OwnCredentials

-----------------------------------------------------------------------------
(* The least of a set of entries is one of them.                             *)

LEMMA MinIn ==
  ASSUME NEW S, S \subseteq Nat, S # {}
  PROVE  Min(S) \in S
<1> DEFINE R == OpToRel(<, Nat)
<1>1. IsWellFoundedOn(R, Nat)
  BY NatLessThanWellFounded
<1>2. \A x, y \in Nat : x < y => <<x, y>> \in R
  BY DEF OpToRel
<1> HIDE DEF R
<1>3. PICK x \in S : \A y \in S : ~(<<y, x>> \in R)
  BY <1>1, WFMin
<1>4. ASSUME NEW y \in S PROVE x <= y
  <2>1. x \in Nat /\ y \in Nat /\ ~(y < x)
    BY <1>2, <1>3
  <2> QED BY <2>1
<1> QED BY <1>4 DEF Min

LEMMA MinEntry ==
  ASSUME NEW S, S \subseteq Entries, S # {}
  PROVE  Min(S) \in S
<1>1. Entries \subseteq Nat
  BY ConstantsAssumption DEF Entries
<1> QED BY <1>1, MinIn

-----------------------------------------------------------------------------
(* Each action keeps the invariant.  In every lemma the last step but one    *)
(* has the conjuncts that the action has nothing to do with.                 *)

\* The card.
LEMMA InsertCardKeeps ==
  ASSUME ~PullAtRead, IInv, NEW c \in Cards, InsertCard(c)
  PROVE  IInv'
<1> USE ConstantsAssumption DEF IInv, Typed, flash, context, control
<1>1. Typed'
  BY DEF InsertCard, Made
<1>2. Creation'
  <2>1. ~authed
    BY DEF InsertCard, OneCard
  <2> QED BY <2>1 DEF InsertCard, Creation
<1>3. Cloning'
  <2>1. ~authed
    BY DEF InsertCard, OneCard
  <2>2. goal = "clone" => pc # "read_key"
    BY <2>1 DEF Cloning
  <2> QED BY <2>1, <2>2 DEF InsertCard, Cloning
<1>4. Erasure'
  <2>1. ~authed
    BY DEF InsertCard, OneCard
  <2> QED BY <2>1 DEF InsertCard, Erasure
<1>5. OneCard' /\ Route' /\ Table' /\ Fits' /\ Mine' /\ OneEntry' /\ OwnCredentials'
  BY DEF InsertCard, OneCard, Route, Table, Fits, Trusted, Mine, OneEntry,
     OwnCredentials
<1> QED BY <1>1, <1>2, <1>3, <1>4, <1>5 DEF IInv

LEMMA RemoveCardKeeps ==
  ASSUME ~PullAtRead, IInv, RemoveCard
  PROVE  IInv'
<1> USE ConstantsAssumption DEF IInv, Typed, flash, context, control
<1>1. Typed'
  <2>1. authed' \in BOOLEAN /\ session' \in BOOLEAN
    BY DEF RemoveCard
  <2> QED BY <2>1 DEF RemoveCard, Made
<1>2. OneCard' /\ Route' /\ Table' /\ Creation' /\ Cloning' /\ Erasure' /\ Fits'
     /\ Mine' /\ OneEntry' /\ OwnCredentials'
  BY DEF RemoveCard, OneCard, Route, Table, Creation, Cloning, Erasure, Fits, Trusted,
     Mine, OneEntry, OwnCredentials
<1> QED BY <1>1, <1>2 DEF IInv

\* The row of the look-up table.
LEMMA EraseRowKeeps ==
  ASSUME ~PullAtRead, IInv, EraseRow
  PROVE  IInv'
<1> USE ConstantsAssumption DEF IInv, Typed, flash, context, control
<1>1. Typed'
  BY DEF EraseRow, Made, NoUser
<1>2. Table'
  <2>1. cur \in InRow(cur)
    BY DEF InRow
  <2> QED BY <2>1 DEF EraseRow, Table, NoUser
<1>3. OneCard' /\ Route' /\ Creation' /\ Cloning' /\ Erasure' /\ Fits' /\ Mine'
     /\ OneEntry' /\ OwnCredentials'
  BY DEF EraseRow, OneCard, Route, Creation, Cloning, Erasure, Fits, Trusted, Mine,
     OneEntry, OwnCredentials
<1> QED BY <1>1, <1>2, <1>3 DEF IInv

LEMMA WritePageKeeps ==
  ASSUME ~PullAtRead, IInv, WritePage
  PROVE  IInv'
<1> USE ConstantsAssumption DEF IInv, Typed, flash, context, control
<1>1. Typed'
  <2>1. lut' \in [Entries -> Made]
    BY DEF WritePage, Made
  <2>2. page' \in -1 .. RowSize
    BY DEF WritePage, ConstantsAssumption
  <2> QED BY <2>1, <2>2 DEF WritePage, Made
<1>2. Mine'
  BY DEF WritePage, Mine, Route, Table, Creation
<1>3. OneEntry'
  BY DEF WritePage, OneEntry, Table
<1>4. OwnCredentials'
  BY DEF WritePage, OwnCredentials, Table
<1>5. OneCard' /\ Route' /\ Table' /\ Creation' /\ Cloning' /\ Erasure' /\ Fits'
  BY DEF WritePage, OneCard, Route, Table, Creation, Cloning, Erasure, Fits, Trusted
<1> QED BY <1>1, <1>2, <1>3, <1>4, <1>5 DEF IInv

LEMMA RowWrittenKeeps ==
  ASSUME ~PullAtRead, IInv, RowWritten
  PROVE  IInv'
<1> USE ConstantsAssumption DEF IInv, Typed, flash, context, control
<1>1. Typed'
  <2>1. authed' \in BOOLEAN /\ session' \in BOOLEAN
    BY DEF RowWritten
  <2>2. goal' \in Goals /\ pc' \in Steps /\ exported' \subseteq Made
        /\ page' \in -1 .. RowSize
    BY DEF RowWritten, Idle, Goals, Steps
  <2> QED BY <2>1, <2>2 DEF RowWritten, Made
<1>2. Fits'
  BY DEF RowWritten, Fits, Idle, Mine, Trusted
<1>3. Mine'
  <2>1. CASE goal = "add"
    BY <2>1 DEF RowWritten, Mine, Idle
  <2>2. CASE goal = "create"
    BY <2>2 DEF RowWritten, Mine, Idle
  <2>3. CASE goal \in {"uncreate", "erase"}
    BY <2>3 DEF RowWritten, Mine, Idle
  <2> QED BY <2>1, <2>2, <2>3 DEF RowWritten, Route
<1>4. OneCard' /\ Route' /\ Table' /\ Creation' /\ Cloning' /\ Erasure' /\ OneEntry'
     /\ OwnCredentials'
  BY DEF RowWritten, OneCard, Route, Idle, Table, Creation, Cloning, Erasure,
     OneEntry, OwnCredentials
<1> QED BY <1>1, <1>2, <1>3, <1>4 DEF IInv

\* The session: the entry it uses is the one its card is known by.
LEMMA LoginKeeps ==
  ASSUME ~PullAtRead, IInv, NEW c \in Cards, Login(c)
  PROVE  IInv'
<1> USE ConstantsAssumption DEF IInv, Typed, flash, context, control
<1>0. EntryOf(card[c].cpz) \in Entries /\ lut[EntryOf(card[c].cpz)] = card[c].cpz
  <2> DEFINE S == {i \in Entries : lut[i] = card[c].cpz}
  <2>1. S # {}
    BY DEF Login, Known
  <2>2. S \subseteq Entries
    OBVIOUS
  <2>3. Min(S) \in S
    BY <2>1, <2>2, MinEntry
  <2> QED BY <2>3 DEF EntryOf
<1>1. Typed'
  <2>1. authed' \in BOOLEAN /\ session' \in BOOLEAN
    BY DEF Login
  <2>2. cur' \in Entries /\ key' \in Made /\ exported' \subseteq Made
    BY <1>0 DEF Login
  <2> QED BY <2>1, <2>2 DEF Login, Made
<1>2. Fits'
  BY DEF Login, Fits, Known, Trusted
<1>3. Mine'
  BY <1>0 DEF Login, Mine, Route, Fits, Trusted
<1>4. OneCard' /\ Route' /\ Table' /\ Creation' /\ Cloning' /\ Erasure' /\ OneEntry'
     /\ OwnCredentials'
  BY DEF Login, OneCard, Route, Table, Creation, Cloning, Erasure, OneEntry,
     OwnCredentials
<1> QED BY <1>1, <1>2, <1>3, <1>4 DEF IInv

LEMMA CardReleasedKeeps ==
  ASSUME ~PullAtRead, IInv, CardReleased
  PROVE  IInv'
<1> USE ConstantsAssumption DEF IInv, Typed, flash, context, control
<1>1. Typed'
  <2>1. authed' \in BOOLEAN /\ session' \in BOOLEAN
    BY DEF CardReleased
  <2> QED BY <2>1 DEF CardReleased, Made
<1>2. OneCard' /\ Route' /\ Table' /\ Creation' /\ Cloning' /\ Erasure' /\ Fits'
     /\ Mine' /\ OneEntry' /\ OwnCredentials'
  BY DEF CardReleased, OneCard, Route, Table, Creation, Cloning, Erasure, Fits,
     Trusted, Mine, OneEntry, OwnCredentials
<1> QED BY <1>1, <1>2 DEF IInv

LEMMA StoreCredentialKeeps ==
  ASSUME ~PullAtRead, IInv, StoreCredential
  PROVE  IInv'
<1> USE ConstantsAssumption DEF IInv, Typed, flash, context, control
<1>1. Typed'
  BY DEF StoreCredential, Made
<1>2. OwnCredentials'
  BY DEF StoreCredential, OwnCredentials, Route, Mine
<1>3. OneCard' /\ Route' /\ Table' /\ Creation' /\ Cloning' /\ Erasure' /\ Fits'
     /\ Mine' /\ OneEntry'
  BY DEF StoreCredential, OneCard, Route, Table, Creation, Cloning, Erasure, Fits,
     Trusted, Mine, OneEntry
<1> QED BY <1>1, <1>2, <1>3 DEF IInv

\* The creation: nobody knows the CPZ of a new user before its key is on the card.
LEMMA CreateKeeps ==
  ASSUME ~PullAtRead, IInv, NEW c \in Cards, Create(c)
  PROVE  IInv'
<1> USE ConstantsAssumption DEF IInv, Typed, flash, context, control
<1>0. Min(Free) \in Entries /\ lut[Min(Free)] = NoUser
  <2>1. Free # {} /\ Free \subseteq Entries
    BY DEF Create, Free
  <2>2. Min(Free) \in Free
    BY <2>1, MinEntry
  <2> QED BY <2>2 DEF Free
<1>1. Typed'
  <2>1. authed' \in BOOLEAN /\ session' \in BOOLEAN
    BY DEF Create
  <2> QED BY <2>1, <1>0 DEF Create, nodemgmt_format_user_profile, Made, Goals, Steps
<1>2. Creation'
  BY <1>0 DEF Create, Creation, nodemgmt_format_user_profile, Made
<1>3. Mine'
  BY <1>0 DEF Create, Mine
<1>4. OwnCredentials'
  BY <1>0 DEF Create, OwnCredentials, nodemgmt_format_user_profile
<1>5. OneCard' /\ Route' /\ Table' /\ Cloning' /\ Erasure' /\ Fits' /\ OneEntry'
  BY DEF Create, OneCard, Route, Table, Cloning, Erasure, Fits, Trusted, OneEntry
<1> QED BY <1>1, <1>2, <1>3, <1>4, <1>5 DEF IInv

LEMMA WriteCpzKeeps ==
  ASSUME ~PullAtRead, IInv, WriteCpz
  PROVE  IInv'
<1> USE ConstantsAssumption DEF IInv, Typed, flash, context, control
<1>1. Typed'
  BY DEF WriteCpz, WriteCard, Made, Steps
<1>2. Creation'
  BY DEF WriteCpz, Creation, WriteCard
<1>3. Fits'
  BY DEF WriteCpz, Fits, WriteCard, Route, Creation, Cloning, Trusted
<1>4. OneCard' /\ Route' /\ Table' /\ Cloning' /\ Erasure' /\ Mine' /\ OneEntry'
     /\ OwnCredentials'
  BY DEF WriteCpz, OneCard, Route, Table, Cloning, Erasure, Mine, OneEntry,
     OwnCredentials
<1> QED BY <1>1, <1>2, <1>3, <1>4 DEF IInv

LEMMA WriteKeyKeeps ==
  ASSUME ~PullAtRead, IInv, WriteKey
  PROVE  IInv'
<1> USE ConstantsAssumption DEF IInv, Typed, flash, context, control
<1>1. Typed'
  BY DEF WriteKey, WriteCard, WriteEntry, Idle, Made, Goals, Steps
<1>2. Route'
  BY DEF WriteKey, Route, WriteEntry, Idle
<1>3. Table'
  BY DEF WriteKey, Table, WriteEntry, Idle, Route, Creation, OneEntry, OwnCredentials
<1>4. Creation'
  BY DEF WriteKey, Creation, WriteEntry, Idle
<1>5. Cloning'
  BY DEF WriteKey, Cloning, WriteCard, Idle
<1>6. Erasure'
  BY DEF WriteKey, Erasure, WriteEntry, Idle
<1>7. Fits'
  BY DEF WriteKey, Fits, WriteCard, KeyWritten, WriteEntry, Idle, Route, Creation,
     Cloning, Trusted
<1>8. Mine'
  BY DEF WriteKey, Mine, Idle, Route
<1>9. OneCard' /\ OneEntry' /\ OwnCredentials'
  BY DEF WriteKey, OneCard, OneEntry, OwnCredentials
<1> QED BY <1>1, <1>2, <1>3, <1>4, <1>5, <1>6, <1>7, <1>8, <1>9 DEF IInv

LEMMA WritePinKeeps ==
  ASSUME ~PullAtRead, IInv, WritePin
  PROVE  IInv'
<1> USE ConstantsAssumption DEF IInv, Typed, flash, context, control
<1>1. Typed'
  <2>1. authed' \in BOOLEAN /\ session' \in BOOLEAN
    BY DEF WritePin
  <2> QED BY <2>1 DEF WritePin, WriteCard, Idle, Made, Goals, Steps, NoUser
<1>2. Fits'
  BY DEF WritePin, Fits, WriteCard, Idle, Trusted
<1>3. OneCard' /\ Route' /\ Table' /\ Creation' /\ Cloning' /\ Erasure' /\ Mine'
     /\ OneEntry' /\ OwnCredentials'
  BY DEF WritePin, OneCard, Route, Idle, Table, Creation, Cloning, Erasure, Mine,
     OneEntry, OwnCredentials
<1> QED BY <1>1, <1>2, <1>3 DEF IInv

LEMMA CheckKeeps ==
  ASSUME ~PullAtRead, IInv, NEW c \in Cards, Check(c)
  PROVE  IInv'
<1> USE ConstantsAssumption DEF IInv, Typed, flash, context, control
<1>1. Typed'
  BY DEF Check, Idle, Made, Goals, Steps
<1>2. Fits'
  BY DEF Check, Fits, Idle, Route, Trusted
<1>3. Mine'
  BY DEF Check, Mine, Idle, Route
<1>4. OneCard' /\ Route' /\ Table' /\ Creation' /\ Cloning' /\ Erasure' /\ OneEntry'
     /\ OwnCredentials'
  BY DEF Check, OneCard, Route, Idle, Table, Creation, Cloning, Erasure, OneEntry,
     OwnCredentials
<1> QED BY <1>1, <1>2, <1>3, <1>4 DEF IInv

LEMMA CheckFailsKeeps ==
  ASSUME ~PullAtRead, IInv, CheckFails
  PROVE  IInv'
<1> USE ConstantsAssumption DEF IInv, Typed, flash, context, control
<1>1. Typed'
  <2>1. authed' \in BOOLEAN /\ session' \in BOOLEAN
    BY DEF CheckFails
  <2> QED BY <2>1 DEF CheckFails, Made, Goals, Steps
<1>2. OneCard'
  <2>1. authed' => \E d \in slot : card[d].pin = user
    BY DEF CheckFails
  <2> QED BY <2>1 DEF CheckFails, OneCard
<1>3. Mine'
  BY DEF CheckFails, Mine, Route, Creation
<1>4. Route' /\ Table' /\ Creation' /\ Cloning' /\ Erasure' /\ Fits' /\ OneEntry'
     /\ OwnCredentials'
  BY DEF CheckFails, Route, Table, Creation, Cloning, Erasure, Fits, Trusted,
     OneEntry, OwnCredentials
<1> QED BY <1>1, <1>2, <1>3, <1>4 DEF IInv

\* A user the computer knows is trusted already.
LEMMA AddUnknownCardKeeps ==
  ASSUME ~PullAtRead, IInv, NEW c \in Cards, AddUnknownCard(c)
  PROVE  IInv'
<1> USE ConstantsAssumption DEF IInv, Typed, flash, context, control
<1>0. Min(Free) \in Entries /\ lut[Min(Free)] = NoUser
  <2>1. Free # {} /\ Free \subseteq Entries
    BY DEF AddUnknownCard, Free
  <2>2. Min(Free) \in Free
    BY <2>1, MinEntry
  <2> QED BY <2>2 DEF Free
<1>1. Typed'
  <2>1. authed' \in BOOLEAN /\ session' \in BOOLEAN
    BY DEF AddUnknownCard
  <2> QED BY <2>1, <1>0 DEF AddUnknownCard, nodemgmt_format_user_profile, WriteEntry,
     Made, Goals, Steps
<1>2. Route'
  BY DEF AddUnknownCard, Route, WriteEntry
<1>3. Table'
  BY <1>0 DEF AddUnknownCard, Table, Unknown, Known, nodemgmt_format_user_profile,
     WriteEntry, OneEntry, OwnCredentials
<1>4. Erasure'
  BY DEF AddUnknownCard, Erasure, WriteEntry
<1>5. Fits'
  BY DEF AddUnknownCard, Fits, WriteEntry, Trusted
<1>6. Mine'
  BY <1>0 DEF AddUnknownCard, Mine, IsUserCard, WriteEntry, Fits, Trusted
<1>7. OwnCredentials'
  BY <1>0 DEF AddUnknownCard, OwnCredentials, nodemgmt_format_user_profile
<1>8. OneCard' /\ Creation' /\ Cloning' /\ OneEntry'
  BY DEF AddUnknownCard, OneCard, Creation, Cloning, OneEntry
<1> QED BY <1>1, <1>2, <1>3, <1>4, <1>5, <1>6, <1>7, <1>8 DEF IInv

LEMMA ResetUnknownCardKeeps ==
  ASSUME ~PullAtRead, IInv, NEW c \in Cards, ResetUnknownCard(c)
  PROVE  IInv'
<1> USE ConstantsAssumption DEF IInv, Typed, flash, context, control
<1>1. Typed'
  <2>1. authed' \in BOOLEAN
    BY DEF ResetUnknownCard
  <2> QED BY <2>1 DEF ResetUnknownCard, Made, Goals, Steps, NoUser
<1>2. OneCard' /\ Route' /\ Mine'
  BY DEF ResetUnknownCard, OneCard, Route, Mine
<1>3. Table' /\ Creation' /\ Cloning' /\ Erasure' /\ Fits' /\ OneEntry' /\ OwnCredentials'
  BY DEF ResetUnknownCard, Table, Creation, Cloning, Erasure, Fits, Trusted, OneEntry,
     OwnCredentials
<1> QED BY <1>1, <1>2, <1>3 DEF IInv

\* The erasure: the CPZ goes before the key.
LEMMA EraseUserKeeps ==
  ASSUME ~PullAtRead, IInv, NEW c \in Cards, EraseUser(c)
  PROVE  IInv'
<1> USE ConstantsAssumption DEF IInv, Typed, flash, context, control
<1>1. Typed'
  BY DEF EraseUser, Reauth, Made, Goals, Steps, NoUser
<1>2. OneCard'
  BY DEF EraseUser, OneCard, Reauth
<1>3. Route'
  BY DEF EraseUser, Route, Reauth
<1>4. Table' /\ Creation' /\ Cloning' /\ Erasure' /\ Fits' /\ Mine' /\ OneEntry'
     /\ OwnCredentials'
  BY DEF EraseUser, Table, Creation, Cloning, Erasure, Fits, Trusted, Mine, OneEntry,
     OwnCredentials
<1> QED BY <1>1, <1>2, <1>3, <1>4 DEF IInv

LEMMA DeleteCredentialsKeeps ==
  ASSUME ~PullAtRead, IInv, nodemgmt_delete_current_user_from_flash
  PROVE  IInv'
<1> USE ConstantsAssumption DEF IInv, Typed, flash, context, control
<1>1. Typed'
  BY DEF nodemgmt_delete_current_user_from_flash, Made, Steps
<1>2. OneCard' /\ Route' /\ Table' /\ Creation' /\ Cloning' /\ Erasure' /\ Fits'
     /\ Mine' /\ OneEntry' /\ OwnCredentials'
  BY DEF nodemgmt_delete_current_user_from_flash, OneCard, Route, Table, Creation,
     Cloning, Erasure, Fits, Trusted, Mine, OneEntry, OwnCredentials
<1> QED BY <1>1, <1>2 DEF IInv

LEMMA EraseRefusedKeeps ==
  ASSUME ~PullAtRead, IInv, EraseRefused
  PROVE  IInv'
<1> USE ConstantsAssumption DEF IInv, Typed, flash, context, control
<1>1. Typed'
  <2>1. authed' \in BOOLEAN /\ session' \in BOOLEAN
    BY DEF EraseRefused
  <2> QED BY <2>1 DEF EraseRefused, Idle, Made, Goals, Steps
<1>2. OneCard' /\ Route' /\ Table' /\ Creation' /\ Cloning' /\ Erasure' /\ Fits'
     /\ Mine' /\ OneEntry' /\ OwnCredentials'
  BY DEF EraseRefused, OneCard, Route, Idle, Table, Creation, Cloning, Erasure, Fits,
     Trusted, Mine, OneEntry, OwnCredentials
<1> QED BY <1>1, <1>2 DEF IInv

LEMMA EraseCpzKeeps ==
  ASSUME ~PullAtRead, IInv, EraseCpz
  PROVE  IInv'
<1> USE ConstantsAssumption DEF IInv, Typed, flash, context, control
<1>1. Typed'
  BY DEF EraseCpz, WriteCard, Made, Steps, NoUser
<1>2. Erasure'
  BY DEF EraseCpz, Erasure, WriteCard
<1>3. Fits'
  BY DEF EraseCpz, Fits, WriteCard, Trusted
<1>4. OneCard' /\ Route' /\ Table' /\ Creation' /\ Cloning' /\ Mine' /\ OneEntry'
     /\ OwnCredentials'
  BY DEF EraseCpz, OneCard, Route, Table, Creation, Cloning, Mine, OneEntry,
     OwnCredentials
<1> QED BY <1>1, <1>2, <1>3, <1>4 DEF IInv

LEMMA EraseKeyKeeps ==
  ASSUME ~PullAtRead, IInv, EraseKey
  PROVE  IInv'
<1> USE ConstantsAssumption DEF IInv, Typed, flash, context, control
<1>1. Typed'
  BY DEF EraseKey, WriteCard, Made, Steps, NoUser
<1>2. Cloning'
  BY DEF EraseKey, Cloning, WriteCard
<1>3. Fits'
  BY DEF EraseKey, Fits, WriteCard, Erasure, Trusted
<1>4. OneCard' /\ Route' /\ Table' /\ Creation' /\ Erasure' /\ Mine' /\ OneEntry'
     /\ OwnCredentials'
  BY DEF EraseKey, OneCard, Route, Table, Creation, Erasure, Mine, OneEntry,
     OwnCredentials
<1> QED BY <1>1, <1>2, <1>3, <1>4 DEF IInv

LEMMA ErasePinKeeps ==
  ASSUME ~PullAtRead, IInv, ErasePin
  PROVE  IInv'
<1> USE ConstantsAssumption DEF IInv, Typed, flash, context, control
<1>1. Typed'
  BY DEF ErasePin, WriteCard, Idle, Made, Goals, Steps, NoUser
<1>2. Fits'
  BY DEF ErasePin, Idle, Fits, WriteCard, Trusted
<1>3. OneCard' /\ Route' /\ Table' /\ Creation' /\ Cloning' /\ Erasure' /\ Mine'
     /\ OneEntry' /\ OwnCredentials'
  BY DEF ErasePin, Idle, OneCard, Route, Table, Creation, Cloning, Erasure, Mine,
     OneEntry, OwnCredentials
<1> QED BY <1>1, <1>2, <1>3 DEF IInv

LEMMA EraseOtherKeeps ==
  ASSUME ~PullAtRead, IInv, NEW c \in Cards, EraseOther(c)
  PROVE  IInv'
<1> USE ConstantsAssumption DEF IInv, Typed, flash, context, control
<1>1. Typed'
  BY DEF EraseOther, Made, Steps
<1>2. Mine'
  BY DEF EraseOther, Mine, Route
<1>3. OneCard' /\ Route' /\ Table' /\ Creation' /\ Cloning' /\ Erasure' /\ Fits'
     /\ OneEntry' /\ OwnCredentials'
  BY DEF EraseOther, OneCard, Route, Table, Creation, Cloning, Erasure, Fits, Trusted,
     OneEntry, OwnCredentials
<1> QED BY <1>1, <1>2, <1>3 DEF IInv

LEMMA NoOthersKeeps ==
  ASSUME ~PullAtRead, IInv, NoOthers
  PROVE  IInv'
<1> USE ConstantsAssumption DEF IInv, Typed, flash, context, control
<1>1. Typed'
  BY DEF NoOthers, Made, Steps
<1>2. OneCard' /\ Route' /\ Table' /\ Creation' /\ Cloning' /\ Erasure' /\ Fits'
     /\ Mine' /\ OneEntry' /\ OwnCredentials'
  BY DEF NoOthers, OneCard, Route, Table, Creation, Cloning, Erasure, Fits, Trusted,
     Mine, OneEntry, OwnCredentials
<1> QED BY <1>1, <1>2 DEF IInv

LEMMA DeleteEntryKeeps ==
  ASSUME ~PullAtRead, IInv, custom_fs_detele_user_cpz_lut_entry
  PROVE  IInv'
<1> USE ConstantsAssumption DEF IInv, Typed, flash, context, control
<1>1. Typed'
  BY DEF custom_fs_detele_user_cpz_lut_entry, WriteEntry, Deleted, Made, Steps, NoUser
<1>2. Route'
  BY DEF custom_fs_detele_user_cpz_lut_entry, Route, WriteEntry
<1>3. Table'
  BY DEF custom_fs_detele_user_cpz_lut_entry, Table, WriteEntry, Deleted, Route,
     OneEntry, OwnCredentials
<1>4. Erasure'
  BY DEF custom_fs_detele_user_cpz_lut_entry, Erasure, WriteEntry
<1>5. Fits'
  BY DEF custom_fs_detele_user_cpz_lut_entry, Fits, WriteEntry, Deleted, Creation,
     Trusted
<1>6. OneCard' /\ Creation' /\ Cloning' /\ Mine' /\ OneEntry' /\ OwnCredentials'
  BY DEF custom_fs_detele_user_cpz_lut_entry, OneCard, Creation, Cloning, Mine,
     OneEntry, OwnCredentials
<1> QED BY <1>1, <1>2, <1>3, <1>4, <1>5, <1>6 DEF IInv

\* The clone: the key that is read is that of the user, and goes before the CPZ.
LEMMA CloneKeeps ==
  ASSUME ~PullAtRead, IInv, NEW c \in Cards, Clone(c)
  PROVE  IInv'
<1> USE ConstantsAssumption DEF IInv, Typed, flash, context, control
<1>0. EntryOf(card[c].cpz) \in Entries /\ lut[EntryOf(card[c].cpz)] = card[c].cpz
  <2> DEFINE S == {i \in Entries : lut[i] = card[c].cpz}
  <2>1. S # {}
    BY DEF Clone, Reauth, Known
  <2>2. S \subseteq Entries
    OBVIOUS
  <2>3. Min(S) \in S
    BY <2>1, <2>2, MinEntry
  <2> QED BY <2>3 DEF EntryOf
<1>1. Typed'
  BY DEF Clone, Reauth, Made, Goals, Steps
<1>2. OneCard'
  BY DEF Clone, OneCard, Reauth
<1>3. Route'
  BY DEF Clone, Route, Reauth
<1>4. Cloning'
  <2>1. card[c].key = card[c].cpz
    BY DEF Clone, Reauth, IsUserCard, Known, Fits, Trusted
  <2> QED BY <2>1 DEF Clone, Reauth, Cloning
<1>5. Mine'
  BY DEF Clone, Mine, Reauth, Route
<1>6. Table' /\ Creation' /\ Erasure' /\ Fits' /\ OneEntry' /\ OwnCredentials'
  BY DEF Clone, Table, Creation, Erasure, Fits, Trusted, OneEntry, OwnCredentials
<1> QED BY <1>1, <1>2, <1>3, <1>4, <1>5, <1>6 DEF IInv

LEMMA ReadKeyKeeps ==
  ASSUME ~PullAtRead, IInv, ReadKey
  PROVE  IInv'
<1> USE ConstantsAssumption DEF IInv, Typed, flash, context, control
<1>1. Typed'
  BY DEF ReadKey, Made, Steps, NoUser
<1>2. Cloning'
  <2>1. PICK c \in slot : authed /\ card[c].key = user
    BY DEF ReadKey, Route, Cloning
  <2>2. copy' = user
    BY <2>1 DEF ReadKey, OneCard
  <2> QED BY <2>2 DEF ReadKey, Cloning
<1>3. OneCard' /\ Route' /\ Table' /\ Creation' /\ Erasure' /\ Fits' /\ Mine'
     /\ OneEntry' /\ OwnCredentials'
  BY DEF ReadKey, OneCard, Route, Table, Creation, Erasure, Fits, Trusted, Mine,
     OneEntry, OwnCredentials
<1> QED BY <1>1, <1>2, <1>3 DEF IInv

LEMMA CloneTargetKeeps ==
  ASSUME ~PullAtRead, IInv, NEW c \in Cards, CloneTarget(c)
  PROVE  IInv'
<1> USE ConstantsAssumption DEF IInv, Typed, flash, context, control
<1>1. Typed'
  <2>1. authed' \in BOOLEAN /\ session' \in BOOLEAN
    BY DEF CloneTarget
  <2> QED BY <2>1 DEF CloneTarget, Idle, Made, Goals, Steps, NoUser
<1>2. Cloning'
  BY DEF CloneTarget, Cloning, IsBlankCard, Idle
<1>3. Erasure'
  BY DEF CloneTarget, Erasure, IsBlankCard, Idle
<1>4. Mine'
  BY DEF CloneTarget, Mine, Idle, Route
<1>5. OneCard' /\ Route' /\ Table' /\ Creation' /\ Fits' /\ OneEntry'
     /\ OwnCredentials'
  BY DEF CloneTarget, OneCard, Route, Idle, Table, Creation, Fits, Trusted, OneEntry,
     OwnCredentials
<1> QED BY <1>1, <1>2, <1>3, <1>4, <1>5 DEF IInv

LEMMA PowerCutKeeps ==
  ASSUME ~PullAtRead, IInv, PowerCut
  PROVE  IInv'
<1> USE ConstantsAssumption DEF IInv, Typed, flash, context, control
<1>1. Typed'
  <2>1. authed' \in BOOLEAN /\ session' \in BOOLEAN
    BY DEF PowerCut
  <2> QED BY <2>1 DEF PowerCut, Idle, Made, Goals, Steps, NoUser
<1>2. OneCard' /\ Route' /\ Table' /\ Creation' /\ Cloning' /\ Erasure' /\ Fits'
     /\ Mine' /\ OneEntry' /\ OwnCredentials'
  BY DEF PowerCut, OneCard, Route, Idle, Table, Creation, Cloning, Erasure, Fits,
     Trusted, Mine, OneEntry, OwnCredentials
<1> QED BY <1>1, <1>2 DEF IInv

-----------------------------------------------------------------------------
\* A device that leaves the factory knows no card.
LEMMA InitIInv == Init => IInv
<1> SUFFICES ASSUME Init PROVE IInv
  OBVIOUS
<1> USE ConstantsAssumption DEF Init
<1>1. 1 \in Entries
  <2>1. \A m, n \in Nat \ {0} : m * n >= 1
    BY SMT
  <2>2. Rows * RowSize \in Nat /\ Rows * RowSize >= 1
    BY <2>1, SMT
  <2> QED BY <2>2 DEF Entries
<1>2. Typed
  <2>1. authed \in BOOLEAN /\ session \in BOOLEAN
    OBVIOUS
  <2> QED BY <1>1, <2>1 DEF Typed, Made, NoUser, Blank, Goals, Steps
<1>3. OneCard /\ Route /\ Table /\ Creation /\ Cloning /\ Erasure /\ Fits
  BY DEF OneCard, Route, Table, Creation, Cloning, Erasure, Fits, Blank, NoUser
<1>4. Mine /\ OneEntry /\ OwnCredentials
  BY <1>1 DEF Mine, OneEntry, OwnCredentials, NoUser
<1> QED BY <1>2, <1>3, <1>4 DEF IInv

LEMMA StepIInv ==
  ASSUME ~PullAtRead, IInv, [Next]_vars
  PROVE  IInv'
<1>1. CASE UNCHANGED vars
  BY <1>1 DEF vars, flash, context, control, IInv, Typed, Made, OneCard, Route, Table,
     Creation, Cloning, Erasure, Fits, Trusted, Mine, OneEntry, OwnCredentials
<1>2. CASE \E c \in Cards : InsertCard(c)
  BY <1>2, InsertCardKeeps
<1>3. CASE RemoveCard
  BY <1>3, RemoveCardKeeps
<1>4. CASE PowerCut
  BY <1>4, PowerCutKeeps
<1>5. CASE EraseRow \/ WritePage \/ RowWritten
  BY <1>5, EraseRowKeeps, WritePageKeeps, RowWrittenKeeps
<1>6. CASE \E c \in Cards : Login(c) \/ Create(c) \/ AddUnknownCard(c)
                              \/ ResetUnknownCard(c) \/ EraseUser(c) \/ Clone(c)
  BY <1>6, LoginKeeps, CreateKeeps, AddUnknownCardKeeps, ResetUnknownCardKeeps,
     EraseUserKeeps, CloneKeeps
<1>7. CASE CardReleased \/ StoreCredential \/ nodemgmt_delete_current_user_from_flash
  BY <1>7, CardReleasedKeeps, StoreCredentialKeeps, DeleteCredentialsKeeps
<1>8. CASE WriteCpz \/ WriteKey \/ WritePin \/ ReadKey
  BY <1>8, WriteCpzKeeps, WriteKeyKeeps, WritePinKeeps, ReadKeyKeeps
<1>9. CASE \E c \in Cards : Check(c) \/ EraseOther(c) \/ CloneTarget(c)
  BY <1>9, CheckKeeps, EraseOtherKeeps, CloneTargetKeeps
<1>10. CASE CheckFails \/ EraseRefused \/ EraseCpz \/ EraseKey \/ ErasePin \/ NoOthers
  BY <1>10, CheckFailsKeeps, EraseRefusedKeeps, EraseCpzKeeps, EraseKeyKeeps,
     ErasePinKeeps, NoOthersKeeps
<1>11. CASE custom_fs_detele_user_cpz_lut_entry
  BY <1>11, DeleteEntryKeeps
<1> QED BY <1>1, <1>2, <1>3, <1>4, <1>5, <1>6, <1>7, <1>8, <1>9, <1>10, <1>11
        DEF Next, MainThread

\* Wherever a creation, a clone or an erasure is interrupted, by a card that is pulled
\* or by a power cut, no card is left that the device knows and whose key is not that
\* of its user.
THEOREM SpecKnownCardsFit ==
  ASSUME ~PullAtRead
  PROVE  Spec => []KnownCardsFit
<1>1. IInv /\ [Next]_vars => IInv'
  BY StepIInv
<1>2. IInv => KnownCardsFit
  BY DEF IInv, Fits, Trusted, KnownCardsFit, IsUserCard, Known
<1> QED BY InitIInv, <1>1, <1>2, PTL DEF Spec

\* The lists of a user show the credentials of no other one, though an erasure leaves
\* its entry, and a power cut the credentials, to whoever comes next.
THEOREM SpecOwnCredentials ==
  ASSUME ~PullAtRead
  PROVE  Spec => []OwnCredentials
<1>1. IInv /\ [Next]_vars => IInv'
  BY StepIInv
<1>2. IInv => OwnCredentials
  BY DEF IInv
<1> QED BY InitIInv, <1>1, <1>2, PTL DEF Spec

\* A user has one entry in the look-up table, though the computer may add it again
\* after a power cut took it out.
THEOREM SpecOneEntry ==
  ASSUME ~PullAtRead
  PROVE  Spec => []OneEntry
<1>1. IInv /\ [Next]_vars => IInv'
  BY StepIInv
<1>2. IInv => OneEntry
  BY DEF IInv
<1> QED BY InitIInv, <1>1, <1>2, PTL DEF Spec
-----------------------------------------------------------------------------
(* The entries, without power cuts.  A card loses its CPZ only to an        *)
(* erasure that goes on to delete the entry, and it is a card of that entry *)
(* that does, for every other one has not accepted the PIN.                 *)

HasCard(u) == \E c \in Cards : card[c].cpz = u

\* An entry has a card, unless it is about to be deleted; so have the entries of the
\* row that is written.
Held ==
  /\ \A i \in Entries : lut[i] # NoUser =>
       HasCard(lut[i]) \/ (i = cur /\ goal \in {"erase", "uncreate"} /\ pc # "confirm")
  /\ pc = "row" => \A i \in Entries : image[i] # NoUser => HasCard(image[i])

\* The card that is to be erased is known by no other entry, one that is reset by none.
Target ==
  authed /\ pc \in {"confirm", "erase_cpz"} =>
    \A c \in slot : \A i \in Entries :
      lut[i] # NoUser /\ lut[i] = card[c].cpz => i = cur /\ goal # "reset"

\* A card that is set up was blank, and gets the CPZ before the PIN.
SetUp ==
  authed /\ goal \in {"create", "clone"} => \A c \in slot :
    /\ pc \in {"erase_key", "write_key", "write_cpz"} => card[c].pin = NoUser
    /\ pc = "write_cpz" => card[c].cpz = NoUser
    /\ pc = "write_pin" \/ (goal = "create" /\ pc = "row") => card[c].cpz = user
Pins == \A c \in Cards :
  card[c].cpz # NoUser /\ card[c].pin # NoUser => card[c].pin = card[c].cpz

\* A user that is being created has one entry at most.
New ==
  goal = "create" /\ pc \in {"row", "write_pin", "check"} =>
    \A i \in Entries : lut[i] = user => i = cur

\* All of it holds until the power is cut.
Reach == Held /\ Target /\ SetUp /\ Pins /\ New
Reachable == cuts \in Nat /\ (cuts = 0 => Reach)

\* The entry a card is known by is the only one of its user.
LEMMA OnlyEntry ==
  ASSUME IInv, NEW u, u # NoUser, Known(u)
  PROVE  \A i \in Entries : lut[i] = u => i = EntryOf(u)
<1> DEFINE S == {i \in Entries : lut[i] = u}
<1>1. Min(S) \in S
  BY MinEntry DEF Known
<1>2. EntryOf(u) = Min(S)
  BY DEF EntryOf
<1> QED BY <1>1, <1>2 DEF IInv, OneEntry

\* One lemma for each conjunct, the actions that have nothing to do with it together.
LEMMA StepHeld ==
  ASSUME IInv, Reach, MainThread \/ RemoveCard \/ \E c \in Cards : InsertCard(c)
  PROVE  Held'
<1> USE ConstantsAssumption DEF IInv, Typed, Reach, flash, context, control
<1>1. CASE RemoveCard \/ EraseRow \/ WritePage
  BY <1>1 DEF RemoveCard, EraseRow, WritePage, Held, HasCard
<1>2. CASE CardReleased \/ StoreCredential \/ WritePin
  BY <1>2 DEF CardReleased, StoreCredential, WritePin, WriteCard, Idle, Held, HasCard
<1>3. CASE CheckFails \/ nodemgmt_delete_current_user_from_flash \/ EraseRefused
  BY <1>3 DEF CheckFails, nodemgmt_delete_current_user_from_flash, EraseRefused, Idle,
     Held, HasCard
<1>4. CASE EraseKey \/ ErasePin \/ NoOthers
  BY <1>4 DEF EraseKey, ErasePin, NoOthers, WriteCard, Idle, Held, HasCard
<1>5. CASE custom_fs_detele_user_cpz_lut_entry \/ ReadKey
  BY <1>5 DEF custom_fs_detele_user_cpz_lut_entry, ReadKey, WriteEntry, Deleted, Held,
     HasCard
<1>6. CASE \E c \in Cards : InsertCard(c) \/ EraseOther(c)
  BY <1>6 DEF InsertCard, EraseOther, Held, HasCard
<1>7. CASE RowWritten
  BY <1>7 DEF RowWritten, Held, HasCard, Table
<1>8. CASE \E c \in Cards : Login(c)
  BY <1>8 DEF Login, Held, HasCard, Route
<1>9. CASE \E c \in Cards : Create(c)
  BY <1>9 DEF Create, Held, HasCard, Route
<1>10. CASE WriteCpz
  <2>1. \A u : u # NoUser /\ HasCard(u) => HasCard(u)'
    BY <1>10 DEF WriteCpz, WriteCard, HasCard, SetUp, Route
  <2> QED BY <1>10, <2>1 DEF WriteCpz, Held
<1>11. CASE WriteKey
  BY <1>11 DEF WriteKey, WriteCard, WriteEntry, Idle, KeyWritten, Held, HasCard, Route,
     Creation
<1>12. CASE \E c \in Cards : Check(c)
  BY <1>12 DEF Check, Idle, Held, HasCard, Route
<1>13. CASE \E c \in Cards : AddUnknownCard(c) \/ ResetUnknownCard(c)
  BY <1>13 DEF AddUnknownCard, ResetUnknownCard, WriteEntry, Held, HasCard, Route
<1>14. CASE \E c \in Cards : EraseUser(c)
  BY <1>14 DEF EraseUser, Reauth, Held, HasCard, Route
<1>15. CASE EraseCpz
  <2>1. ASSUME NEW i \in Entries, i # cur \/ goal = "reset", lut[i] # NoUser,
               HasCard(lut[i])
        PROVE  HasCard(lut[i])'
    BY <1>15, <2>1 DEF EraseCpz, WriteCard, HasCard, Target
  <2>2. goal \in {"erase", "uncreate", "reset"}
    BY <1>15 DEF EraseCpz, Route
  <2> QED BY <1>15, <2>1, <2>2 DEF EraseCpz, Held
<1>16. CASE \E c \in Cards : Clone(c)
  BY <1>16 DEF Clone, Reauth, Held, HasCard, Route
<1>17. CASE \E c \in Cards : CloneTarget(c)
  BY <1>17 DEF CloneTarget, Idle, Held, HasCard, Route
<1> QED BY <1>1, <1>2, <1>3, <1>4, <1>5, <1>6, <1>7, <1>8, <1>9, <1>10, <1>11, <1>12,
     <1>13, <1>14, <1>15, <1>16, <1>17 DEF MainThread

LEMMA StepTarget ==
  ASSUME IInv, Reach, MainThread \/ RemoveCard \/ \E c \in Cards : InsertCard(c)
  PROVE  Target'
<1> USE ConstantsAssumption DEF IInv, Typed, Reach, flash, context, control
<1>1. CASE RemoveCard \/ EraseRow \/ WritePage \/ RowWritten
  BY <1>1 DEF RemoveCard, EraseRow, WritePage, RowWritten, Idle, Target
<1>2. CASE CardReleased \/ StoreCredential \/ WriteCpz \/ WriteKey
  BY <1>2 DEF CardReleased, StoreCredential, WriteCpz, WriteKey, WriteCard, WriteEntry,
     Idle, KeyWritten, Target
<1>3. CASE \/ WritePin \/ nodemgmt_delete_current_user_from_flash \/ EraseRefused
           \/ EraseCpz
  BY <1>3 DEF WritePin, nodemgmt_delete_current_user_from_flash, EraseRefused, EraseCpz,
     WriteCard, Idle, Target
<1>4. CASE EraseKey \/ ErasePin \/ NoOthers \/ custom_fs_detele_user_cpz_lut_entry
  BY <1>4 DEF EraseKey, ErasePin, NoOthers, custom_fs_detele_user_cpz_lut_entry,
     WriteEntry, Deleted, Idle, Target
<1>5. CASE ReadKey
  BY <1>5 DEF ReadKey, Target
<1>6. CASE \E c \in Cards : Login(c) \/ Create(c) \/ Check(c)
  BY <1>6 DEF Login, Create, Check, Idle, Target
<1>7. CASE \E c \in Cards : AddUnknownCard(c) \/ Clone(c) \/ CloneTarget(c)
  BY <1>7 DEF AddUnknownCard, Clone, CloneTarget, WriteEntry, Target
<1>8. CASE \E c \in Cards : InsertCard(c)
  BY <1>8 DEF InsertCard, Target, OneCard
<1>9. CASE CheckFails
  <2> SUFFICES ASSUME authed', NEW d \in slot, NEW i \in Entries, lut[i] # NoUser,
                      lut[i] = card[d].cpz
               PROVE  i = cur
    BY <1>9 DEF CheckFails, Target
  <2>1. card[d].pin = user
    BY <1>9 DEF CheckFails, OneCard
  <2>2. goal = "create" /\ pc = "check" /\ user # NoUser
    BY <1>9 DEF CheckFails, Route, Creation
  <2>3. lut[i] = user
    BY <2>1, <2>2 DEF Pins
  <2> QED BY <2>2, <2>3 DEF New
<1>10. CASE \E c \in Cards : EraseUser(c)
  <2>1. PICK c \in Cards : EraseUser(c)
    BY <1>10
  <2>2. \A i \in Entries : lut[i] # NoUser /\ lut[i] = card[c].cpz => i = cur
    BY <2>1, OnlyEntry DEF EraseUser, Reauth
  <2> QED BY <2>1, <2>2 DEF EraseUser, Reauth, Target
<1>11. CASE \E c \in Cards : EraseOther(c)
  <2>1. PICK c \in Cards : EraseOther(c)
    BY <1>11
  <2>2. pc' = "erase_cpz"
          => \A i \in Entries : lut[i] # NoUser /\ lut[i] = card[c].cpz => i = cur
    BY <2>1, OnlyEntry DEF EraseOther
  <2>3. goal = "erase"
    BY <2>1 DEF EraseOther, Route
  <2> QED BY <2>1, <2>2, <2>3 DEF EraseOther, Target
<1>12. CASE \E c \in Cards : ResetUnknownCard(c)
  BY <1>12 DEF ResetUnknownCard, Unknown, Known, Target
<1> QED BY <1>1, <1>2, <1>3, <1>4, <1>5, <1>6, <1>7, <1>8, <1>9, <1>10, <1>11, <1>12
     DEF MainThread

LEMMA StepSetUp ==
  ASSUME IInv, Reach, MainThread \/ RemoveCard \/ \E c \in Cards : InsertCard(c)
  PROVE  SetUp'
<1> USE ConstantsAssumption DEF IInv, Typed, Reach, flash, context, control
<1>1. CASE RemoveCard \/ EraseRow \/ WritePage \/ RowWritten
  BY <1>1 DEF RemoveCard, EraseRow, WritePage, RowWritten, Idle, SetUp
<1>2. CASE CardReleased \/ StoreCredential \/ WriteCpz \/ WritePin
  BY <1>2 DEF CardReleased, StoreCredential, WriteCpz, WritePin, WriteCard, Idle, SetUp
<1>3. CASE \/ CheckFails \/ nodemgmt_delete_current_user_from_flash \/ EraseRefused
           \/ EraseKey
  BY <1>3 DEF CheckFails, nodemgmt_delete_current_user_from_flash, EraseRefused,
     EraseKey, WriteCard, SetUp
<1>4. CASE ErasePin \/ NoOthers \/ ReadKey
  BY <1>4 DEF ErasePin, NoOthers, ReadKey, Idle, SetUp
<1>5. CASE \E c \in Cards : Login(c) \/ Create(c) \/ Check(c) \/ AddUnknownCard(c)
                              \/ ResetUnknownCard(c)
  BY <1>5 DEF Login, Create, Check, AddUnknownCard, ResetUnknownCard, IsBlankCard, Idle,
     SetUp
<1>6. CASE \E c \in Cards : EraseUser(c) \/ EraseOther(c) \/ Clone(c) \/ CloneTarget(c)
  BY <1>6 DEF EraseUser, EraseOther, Clone, CloneTarget, Idle, IsBlankCard, SetUp
<1>7. CASE \E c \in Cards : InsertCard(c)
  BY <1>7 DEF InsertCard, SetUp, OneCard
<1>8. CASE WriteKey
  BY <1>8 DEF WriteKey, WriteCard, WriteEntry, KeyWritten, SetUp, Cloning, Creation
<1>9. CASE EraseCpz
  BY <1>9 DEF EraseCpz, SetUp, Cloning, Creation
<1>10. CASE custom_fs_detele_user_cpz_lut_entry
  BY <1>10 DEF custom_fs_detele_user_cpz_lut_entry, SetUp, Cloning, Creation
<1> QED BY <1>1, <1>2, <1>3, <1>4, <1>5, <1>6, <1>7, <1>8, <1>9, <1>10 DEF MainThread

LEMMA StepPins ==
  ASSUME IInv, Reach, MainThread \/ RemoveCard \/ \E c \in Cards : InsertCard(c)
  PROVE  Pins'
<1> USE ConstantsAssumption DEF IInv, Typed, Reach, flash, context, control
<1>1. CASE RemoveCard \/ EraseRow \/ WritePage
  BY <1>1 DEF RemoveCard, EraseRow, WritePage, Pins
<1>2. CASE RowWritten \/ CardReleased \/ StoreCredential
  BY <1>2 DEF RowWritten, CardReleased, StoreCredential, Pins
<1>3. CASE CheckFails \/ nodemgmt_delete_current_user_from_flash \/ EraseRefused
  BY <1>3 DEF CheckFails, nodemgmt_delete_current_user_from_flash, EraseRefused, Pins
<1>4. CASE EraseCpz \/ EraseKey \/ ErasePin
  BY <1>4 DEF EraseCpz, EraseKey, ErasePin, WriteCard, Pins
<1>5. CASE NoOthers \/ custom_fs_detele_user_cpz_lut_entry \/ ReadKey
  BY <1>5 DEF NoOthers, custom_fs_detele_user_cpz_lut_entry, ReadKey, Pins
<1>6. CASE \E c \in Cards : InsertCard(c) \/ Login(c) \/ Create(c)
  BY <1>6 DEF InsertCard, Login, Create, Pins
<1>7. CASE \E c \in Cards : Check(c) \/ AddUnknownCard(c) \/ ResetUnknownCard(c)
                              \/ EraseUser(c)
  BY <1>7 DEF Check, AddUnknownCard, ResetUnknownCard, EraseUser, Pins
<1>8. CASE \E c \in Cards : EraseOther(c) \/ Clone(c) \/ CloneTarget(c)
  BY <1>8 DEF EraseOther, Clone, CloneTarget, Pins
<1>9. CASE WriteCpz
  BY <1>9 DEF WriteCpz, WriteCard, Pins, SetUp, Route
<1>10. CASE WriteKey
  BY <1>10 DEF WriteKey, WriteCard, WriteEntry, Idle, KeyWritten, Pins
<1>11. CASE WritePin
  BY <1>11 DEF WritePin, WriteCard, Pins, SetUp, Route
<1> QED BY <1>1, <1>2, <1>3, <1>4, <1>5, <1>6, <1>7, <1>8, <1>9, <1>10, <1>11
     DEF MainThread

LEMMA StepNew ==
  ASSUME IInv, Reach, MainThread \/ RemoveCard \/ \E c \in Cards : InsertCard(c)
  PROVE  New'
<1> USE ConstantsAssumption DEF IInv, Typed, Reach, flash, context, control
<1>1. CASE RemoveCard \/ RowWritten \/ CardReleased \/ StoreCredential
  BY <1>1 DEF RemoveCard, RowWritten, CardReleased, StoreCredential, Idle, New
<1>2. CASE WriteCpz \/ WritePin \/ CheckFails \/ nodemgmt_delete_current_user_from_flash
  BY <1>2 DEF WriteCpz, WritePin, CheckFails, nodemgmt_delete_current_user_from_flash,
     WriteCard, Idle, New
<1>3. CASE EraseRefused \/ EraseCpz \/ EraseKey \/ ErasePin
  BY <1>3 DEF EraseRefused, EraseCpz, EraseKey, ErasePin, Idle, New
<1>4. CASE NoOthers \/ ReadKey
  BY <1>4 DEF NoOthers, ReadKey, New
<1>5. CASE \E c \in Cards : InsertCard(c) \/ Login(c) \/ Create(c)
  BY <1>5 DEF InsertCard, Login, Create, New
<1>6. CASE \E c \in Cards : Check(c) \/ AddUnknownCard(c) \/ ResetUnknownCard(c)
                              \/ EraseUser(c)
  BY <1>6 DEF Check, AddUnknownCard, ResetUnknownCard, EraseUser, Idle, New
<1>7. CASE \E c \in Cards : EraseOther(c) \/ Clone(c) \/ CloneTarget(c)
  BY <1>7 DEF EraseOther, Clone, CloneTarget, Idle, IsBlankCard, New
<1>8. CASE EraseRow
  BY <1>8 DEF EraseRow, New, Creation
<1>9. CASE WritePage
  BY <1>9 DEF WritePage, New, Table
<1>10. CASE WriteKey
  BY <1>10 DEF WriteKey, New, Route, Creation
<1>11. CASE custom_fs_detele_user_cpz_lut_entry
  BY <1>11 DEF custom_fs_detele_user_cpz_lut_entry, New, Creation
<1> QED BY <1>1, <1>2, <1>3, <1>4, <1>5, <1>6, <1>7, <1>8, <1>9, <1>10, <1>11
     DEF MainThread

LEMMA InitReachable == Init => Reachable
<1> SUFFICES ASSUME Init PROVE Reachable
  OBVIOUS
<1>1. Held /\ Target /\ SetUp /\ New
  BY DEF Init, Held, Target, SetUp, New
<1>2. Pins
  BY DEF Init, Pins, Blank
<1> QED BY <1>1, <1>2 DEF Init, Reachable, Reach

LEMMA StepReachable ==
  ASSUME IInv, Reachable, [Next]_vars
  PROVE  Reachable'
<1>1. CASE PowerCut
  BY <1>1 DEF PowerCut, Reachable
<1>2. CASE UNCHANGED vars
  BY <1>2 DEF vars, flash, context, control, Reachable, Reach, Held, HasCard, Target,
     SetUp, Pins, New
<1>3. CASE MainThread \/ RemoveCard \/ \E c \in Cards : InsertCard(c)
  <2>1. UNCHANGED cuts
    BY <1>3 DEF MainThread, RemoveCard, InsertCard, EraseRow, WritePage, RowWritten, Login,
       Create, AddUnknownCard, ResetUnknownCard, EraseUser, Clone, CardReleased,
       StoreCredential, nodemgmt_delete_current_user_from_flash, WriteCpz, WriteKey,
       WritePin, ReadKey,
       Check, EraseOther, CloneTarget, CheckFails, EraseRefused, EraseCpz, EraseKey,
       ErasePin, NoOthers, custom_fs_detele_user_cpz_lut_entry
  <2>2. cuts = 0 => Reach'
    BY <1>3, StepHeld, StepTarget, StepSetUp, StepPins, StepNew DEF Reachable, Reach
  <2> QED BY <2>1, <2>2 DEF Reachable
<1> QED BY <1>1, <1>2, <1>3 DEF Next

\* Without power cuts, and wherever the cards are pulled, each entry of the look-up table
\* has a card between operations: an interrupted creation, erasure or addition leaves no
\* entry that can neither be logged in to nor taken again.
THEOREM SpecEntriesReachable ==
  ASSUME ~PullAtRead
  PROVE  Spec => []EntriesReachable
<1>1. Init => IInv /\ Reachable
  BY InitIInv, InitReachable
<1>2. IInv /\ Reachable /\ [Next]_vars => IInv' /\ Reachable'
  BY StepIInv, StepReachable
<1>3. IInv /\ Reachable => EntriesReachable
  BY DEF IInv, Route, Reachable, Reach, Held, HasCard, EntriesReachable, PlacesReturn
<1> QED BY <1>1, <1>2, <1>3, PTL DEF Spec
=============================================================================
