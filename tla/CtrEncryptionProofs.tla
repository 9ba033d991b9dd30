--------------------------- MODULE CtrEncryptionProofs ---------------------------
(***************************************************************************)
(* For every number of users, every size of the counter space and every    *)
(* reservation step that covers the largest plaintext: no keystream block  *)
(* is given out twice and a session never wastes more than one             *)
(* reservation.                                                            *)
(***************************************************************************)
EXTENDS CtrEncryption, TLAPS

\* Which operation may be under way in which session.
SessionInv ==
  /\ op # "idle" => curUser # NoUser
  /\ mmm => curUser # NoUser /\ op # "formatted"
  /\ op \in {"idle", "formatted"} => blocks = 0
  /\ op \in {"reserved", "encrypted"} => blocks \in Sizes

\* A user whose profile counter neither wrapped nor was left behind.
Sound(u) == ~wrapped[u] /\ ~lowered[u]

\* Every consumed block is behind the profile counter, the value that the next
\* login starts from.
FlashAhead ==
  \A u \in Users : Sound(u) => \A b \in used[u] : b < profileCtr[u]

\* The session in which the RAM counter means something.
Counting == curUser # NoUser /\ op # "formatted" /\ ~wrapped[curUser]

\* The blocks of the encryption under way are reserved in the profile: in every
\* session the host left alone, and, if it did not, unless it left the counter
\* behind.
RamBehind ==
  Counting /\ (~hostMoved \/ ~lowered[curUser])
    => nextCtr + blocks <= profileCtr[curUser]

\* Blocks of the operation under way that are already consumed.
Consumed == IF op = "encrypted" THEN blocks ELSE 0

\* The RAM counter is past every consumed block.
RamFresh ==
  Counting /\ ~lowered[curUser] /\ ~hostMoved
    => \A b \in used[curUser] : b < nextCtr + Consumed

\* What the profile reserves beyond the operation under way.
LossInv ==
  Counting /\ ~hostMoved => profileCtr[curUser] - (nextCtr + blocks) <= MinIncr

IInv == TypeOK /\ SessionInv /\ FlashAhead /\ RamBehind /\ RamFresh /\ LossInv


\* The byte-wise addition of Advance stays in the counter space.
LEMMA AdvanceRange ==
  ASSUME NEW c \in Ctrs, NEW n \in 0..MinIncr
  PROVE  Advance(c, n) \in Ctrs
BY CtrSpaceAssumption, MinIncrAssumption DEF Advance, Ctrs

\* A blank profile holds a counter value.
LEMMA ZeroCtr == 0 \in Ctrs
BY CtrSpaceAssumption, MinIncrAssumption DEF Ctrs

\* What nodemgmt_format_user_profile leaves of user u.
Formatted(u, left) ==
  /\ profileCtr' \in [Users -> Ctrs] /\ profileCtr'[u] = 0
  /\ used' \in [Users -> SUBSET Nat] /\ used'[u] = left
  /\ wrapped' \in [Users -> BOOLEAN]
  /\ lowered' \in [Users -> BOOLEAN] /\ (~lowered'[u] => left = {})
  /\ \A w \in Users : w # u => /\ profileCtr'[w] = profileCtr[w] /\ used'[w] = used[w]
                              /\ wrapped'[w] = wrapped[w] /\ lowered'[w] = lowered[w]

\* nodemgmt_format_user_profile, when it finds "left" in the flash.
LEMMA FormatStep ==
  ASSUME TypeOK, NEW u \in Users, NEW left \in {{}, used[u]}, FormatProfile(u, left)
  PROVE  Formatted(u, left)
<1> USE DEF TypeOK
<1>1. /\ profileCtr' = [profileCtr EXCEPT ![u] = 0]
      /\ used' = [used EXCEPT ![u] = left]
      /\ wrapped' = [wrapped EXCEPT ![u] = FALSE]
      /\ lowered' = [lowered EXCEPT ![u] = (left # {})]
  BY DEF FormatProfile
<1>2. /\ profileCtr' \in [Users -> Ctrs] /\ profileCtr'[u] = 0
      /\ \A w \in Users : w # u => profileCtr'[w] = profileCtr[w]
  BY <1>1, ZeroCtr
<1>3. /\ used' \in [Users -> SUBSET Nat] /\ used'[u] = left
      /\ \A w \in Users : w # u => used'[w] = used[w]
  BY <1>1
<1>4. wrapped' \in [Users -> BOOLEAN]
  BY <1>1, Zenon
<1>5. \A w \in Users : w # u => wrapped'[w] = wrapped[w] /\ lowered'[w] = lowered[w]
  BY <1>1, Zenon
<1>6. lowered' \in [Users -> BOOLEAN]
  BY <1>1, Zenon
<1>7. lowered'[u] = (left # {})
  BY <1>1, Zenon
<1> QED BY <1>2, <1>3, <1>4, <1>5, <1>6, <1>7 DEF Formatted

\* A function with Boolean values, changed at one place.
LEMMA Moved ==
  ASSUME NEW f \in [Users -> BOOLEAN], NEW u \in Users, NEW b \in BOOLEAN, NEW g,
         g = [f EXCEPT ![u] = b]
  PROVE  /\ g \in [Users -> BOOLEAN] /\ g[u] = b
         /\ \A w \in Users : w # u => g[w] = f[w]
  BY Zenon

\* The initial state satisfies the invariant.
LEMMA InitInv == Init => IInv
<1> SUFFICES ASSUME Init PROVE IInv
  OBVIOUS
<1>1. TypeOK /\ SessionInv
  BY ZeroCtr DEF Init, TypeOK, SessionInv
<1>2. FlashAhead /\ RamBehind /\ RamFresh /\ LossInv
  BY DEF Init, FlashAhead, RamBehind, RamFresh, LossInv, Counting
<1> QED BY <1>1, <1>2 DEF IInv

\* Every step keeps the invariant, operation by operation.
LEMMA StepInv == IInv /\ [Next]_vars => IInv'
<1> SUFFICES ASSUME IInv, [Next]_vars PROVE IInv'
  OBVIOUS
<1> USE NoUserAssumption, CtrSpaceAssumption, MinIncrAssumption, SizesAssumption
<1> USE DEF IInv, TypeOK, SessionInv, Counting, Consumed, Sound
<1> DEFINE CountInv == FlashAhead /\ RamBehind /\ RamFresh /\ LossInv
<1>1. ASSUME NEW u \in Users, Login(u) PROVE IInv'
  <2>1. TypeOK' /\ SessionInv'
    BY <1>1 DEF Login, InitContext
  <2>2. CountInv'
    BY <1>1 DEF Login, InitContext, FlashAhead, RamBehind, RamFresh, LossInv, Ctrs
  <2> QED BY <2>1, <2>2
<1>2. CASE Logout
  <2>1. TypeOK' /\ SessionInv'
    BY <1>2 DEF Logout
  <2>2. CountInv'
    BY <1>2 DEF Logout, FlashAhead, RamBehind, RamFresh, LossInv
  <2> QED BY <2>1, <2>2
<1>3. CASE PowerCut
  <2>1. TypeOK' /\ SessionInv'
    BY <1>3, ZeroCtr DEF PowerCut
  <2>2. CountInv'
    BY <1>3 DEF PowerCut, FlashAhead, RamBehind, RamFresh, LossInv
  <2> QED BY <2>1, <2>2
<1>4. ASSUME NEW n \in Sizes, PreCtrTasks(n) PROVE IInv'
  <2>1. curUser \in Users /\ n \in 1..MinIncr /\ profileCtr[curUser] \in Ctrs
    BY <1>4 DEF PreCtrTasks
  <2>2. CASE ReservationNeeded(curUser, n)
    <3>1. Advance(profileCtr[curUser], MinIncr) \in Ctrs
      BY <2>1, AdvanceRange
    <3>2. TypeOK' /\ SessionInv'
      <4>1. wrapped' \in [Users -> BOOLEAN]
        BY <1>4, <2>2, Zenon DEF PreCtrTasks
      <4>2. profileCtr' \in [Users -> Ctrs]
        BY <1>4, <2>2, <3>1 DEF PreCtrTasks
      <4> QED BY <1>4, <2>1, <4>1, <4>2 DEF PreCtrTasks
    <3>3. ~wrapped'[curUser] =>
            /\ ~wrapped[curUser]
            /\ profileCtr'[curUser] = profileCtr[curUser] + MinIncr
      <4>1. /\ wrapped'[curUser] =
                 (wrapped[curUser] \/ profileCtr[curUser] + MinIncr >= CtrSpace)
            /\ profileCtr'[curUser] = Advance(profileCtr[curUser], MinIncr)
        BY <1>4, <2>1, <2>2, Zenon DEF PreCtrTasks
      <4>2. /\ profileCtr[curUser] + MinIncr \in Nat
            /\ ~(profileCtr[curUser] + MinIncr >= CtrSpace) =>
                 Advance(profileCtr[curUser], MinIncr) = profileCtr[curUser] + MinIncr
        BY <2>1 DEF Advance, Ctrs
      <4> QED BY <4>1, <4>2
    <3>4. \A u \in Users : u # curUser =>
            profileCtr'[u] = profileCtr[u] /\ wrapped'[u] = wrapped[u]
      BY <1>4, <2>2 DEF PreCtrTasks
    <3>5. FlashAhead'
      BY <1>4, <2>1, <3>3, <3>4 DEF PreCtrTasks, FlashAhead, Ctrs
    <3>6. RamBehind' /\ LossInv'
      BY <1>4, <2>1, <2>2, <3>3 DEF PreCtrTasks, RamBehind, LossInv, ReservationNeeded, Ctrs
    <3>7. RamFresh'
      BY <1>4, <2>1, <3>3 DEF PreCtrTasks, RamFresh, Ctrs
    <3> QED BY <3>2, <3>5, <3>6, <3>7
  <2>3. CASE ~ReservationNeeded(curUser, n)
    <3>1. TypeOK' /\ SessionInv'
      BY <1>4, <2>1, <2>3 DEF PreCtrTasks
    <3>2. FlashAhead' /\ RamFresh'
      BY <1>4, <2>3 DEF PreCtrTasks, FlashAhead, RamFresh
    <3>3. RamBehind' /\ LossInv'
      BY <1>4, <2>1, <2>3 DEF PreCtrTasks, RamBehind, LossInv, ReservationNeeded, Ctrs
    <3> QED BY <3>1, <3>2, <3>3
  <2> QED BY <2>2, <2>3
<1>5. CASE CtrEncrypt
  <2>1. curUser \in Users /\ blocks \in 1..MinIncr /\ nextCtr \in Nat
    BY <1>5 DEF CtrEncrypt, Ctrs
  <2>2. Blocks(nextCtr, blocks) \in SUBSET Nat
    BY <2>1 DEF Blocks
  <2>3. TypeOK' /\ SessionInv'
    BY <1>5, <2>1, <2>2 DEF CtrEncrypt
  <2>4. /\ used'[curUser] = used[curUser] \cup Blocks(nextCtr, blocks)
        /\ \A u \in Users : u # curUser => used'[u] = used[u]
    BY <1>5, <2>1 DEF CtrEncrypt
  <2>5. \A b \in Blocks(nextCtr, blocks) : b \in Nat /\ b < nextCtr + blocks
    BY <2>1 DEF Blocks
  <2>6. FlashAhead'
    BY <1>5, <2>1, <2>4, <2>5 DEF CtrEncrypt, FlashAhead, RamBehind, Ctrs
  <2>7. RamFresh'
    <3>1. CASE Counting' /\ ~lowered'[curUser'] /\ ~hostMoved'
      <4>1. \A b \in used[curUser] : b \in Nat /\ b < nextCtr
        BY <1>5, <2>1, <3>1 DEF CtrEncrypt, RamFresh
      <4> QED BY <1>5, <2>1, <2>4, <2>5, <4>1 DEF CtrEncrypt, RamFresh
    <3> QED BY <3>1 DEF RamFresh
  <2>8. RamBehind' /\ LossInv'
    BY <1>5 DEF CtrEncrypt, RamBehind, LossInv
  <2> QED BY <2>3, <2>6, <2>7, <2>8
<1>6. CASE PostCtrTasks
  <2>1. curUser \in Users /\ blocks \in 1..MinIncr
    BY <1>6 DEF PostCtrTasks
  <2>2. nextCtr' \in Ctrs
    BY <1>6, <2>1, AdvanceRange DEF PostCtrTasks
  <2>3. TypeOK' /\ SessionInv'
    BY <1>6, <2>1, <2>2 DEF PostCtrTasks
  <2>4. ~wrapped[curUser] /\ (~hostMoved \/ ~lowered[curUser])
          => nextCtr' = nextCtr + blocks
    BY <1>6, <2>1 DEF PostCtrTasks, RamBehind, Advance, Ctrs
  <2>5. FlashAhead'
    BY <1>6 DEF PostCtrTasks, FlashAhead
  <2>6. RamBehind' /\ LossInv'
    BY <1>6, <2>1, <2>4 DEF PostCtrTasks, RamBehind, LossInv, Ctrs
  <2>7. RamFresh'
    BY <1>6, <2>1, <2>4 DEF PostCtrTasks, RamFresh, Ctrs
  <2> QED BY <2>3, <2>5, <2>6, <2>7
<1>7. ASSUME NEW u \in Users, NEW e \in BOOLEAN, CreateUser(u, e) PROVE IInv'
  <2>1. PICK left : FormatProfile(u, left) /\ left \in {{}, used[u]}
    BY <1>7 DEF CreateUser
  <2>2. /\ nextCtr' = 0 /\ curUser' = u /\ hostMoved' = FALSE /\ mmm' \in BOOLEAN
        /\ lut' \in SUBSET Users /\ UNCHANGED <<op, blocks>>
    BY <1>7 DEF CreateUser, InitContext
  <2>3. Formatted(u, left)
    <3>1. TypeOK
      OBVIOUS
    <3>2. FormatProfile(u, left) /\ left \in {{}, used[u]} /\ u \in Users
      BY <2>1
    <3> HIDE DEF IInv, TypeOK, SessionInv, Counting, Consumed, Sound
    <3> QED BY <3>1, <3>2, FormatStep
  <2>4. op = "idle" /\ blocks = 0
    BY <1>7, <2>2 DEF CreateUser
  <2>5. TypeOK' /\ SessionInv'
    <3>1. TypeOK'
      <4>1. /\ profileCtr' \in [Users -> Ctrs] /\ used' \in [Users -> SUBSET Nat]
            /\ wrapped' \in [Users -> BOOLEAN] /\ lowered' \in [Users -> BOOLEAN]
        BY <2>3 DEF Formatted
      <4>2. /\ nextCtr' \in Ctrs /\ curUser' \in Users /\ blocks' \in Sizes \cup {0}
            /\ op' = "idle" /\ hostMoved' = FALSE
        BY <2>2, <2>4, ZeroCtr
      <4> QED BY <2>2, <4>1, <4>2
    <3>2. SessionInv'
      BY <2>2, <2>4
    <3> QED BY <3>1, <3>2
  <2>6. FlashAhead'
    BY <2>3 DEF Formatted, FlashAhead
  <2>7. RamBehind' /\ RamFresh' /\ LossInv'
    BY <2>2, <2>3, <2>4 DEF Formatted, RamBehind, RamFresh, LossInv
  <2> QED BY <2>5, <2>6, <2>7
<1>8. CASE DeleteProfile
  <2>1. /\ curUser \in Users /\ op' = "formatted" /\ ~mmm
        /\ UNCHANGED <<lut, nextCtr, curUser, mmm, blocks, hostMoved>>
        /\ op = "idle" /\ FormatProfile(curUser, used[curUser])
    BY <1>8 DEF DeleteProfile
  <2>2. Formatted(curUser, used[curUser])
    <3>1. TypeOK
      OBVIOUS
    <3>2. used[curUser] \in {{}, used[curUser]}
      OBVIOUS
    <3> HIDE DEF IInv, TypeOK, SessionInv, Counting, Consumed, Sound
    <3> QED BY <2>1, <3>1, <3>2, FormatStep
  <2>3. TypeOK' /\ SessionInv'
    BY <2>1, <2>2 DEF Formatted
  <2>4. FlashAhead'
    BY <2>2 DEF Formatted, FlashAhead
  <2>5. RamBehind' /\ RamFresh' /\ LossInv'
    BY <2>1 DEF RamBehind, RamFresh, LossInv
  <2> QED BY <2>3, <2>4, <2>5
<1>9. CASE DeleteLutEntry
  <2>1. TypeOK' /\ SessionInv'
    BY <1>9 DEF DeleteLutEntry
  <2>2. CountInv'
    BY <1>9 DEF DeleteLutEntry, FlashAhead, RamBehind, RamFresh, LossInv
  <2> QED BY <2>1, <2>2
<1>10. CASE StartMMM \/ EndMMM
  <2>1. TypeOK' /\ SessionInv'
    BY <1>10 DEF StartMMM, EndMMM
  <2>2. CountInv'
    BY <1>10 DEF StartMMM, EndMMM, FlashAhead, RamBehind, RamFresh, LossInv
  <2> QED BY <2>1, <2>2
<1>11. ASSUME NEW v \in Ctrs, HostSetCtr(v) PROVE IInv'
  <2>1. /\ curUser \in Users /\ op = "idle" /\ blocks = 0 /\ hostMoved' = TRUE
        /\ UNCHANGED <<lut, nextCtr, curUser, mmm, op, blocks, used, wrapped>>
    BY <1>11 DEF HostSetCtr
  <2>2. /\ profileCtr' \in [Users -> Ctrs] /\ profileCtr'[curUser] = v
        /\ \A u \in Users : u # curUser => profileCtr'[u] = profileCtr[u]
    BY <1>11, <2>1 DEF HostSetCtr
  <2>3. /\ lowered' \in [Users -> BOOLEAN]
        /\ lowered'[curUser] = Behind(v, used[curUser])
        /\ \A u \in Users : u # curUser => lowered'[u] = lowered[u]
    <3> DEFINE b == Behind(v, used[curUser])
    <3>1. b \in BOOLEAN
      BY DEF Behind
    <3>2. lowered' = [lowered EXCEPT ![curUser] = b]
      BY <1>11 DEF HostSetCtr
    <3>3. lowered \in [Users -> BOOLEAN]
      OBVIOUS
    <3> HIDE DEF b
    <3>4. /\ lowered' \in [Users -> BOOLEAN] /\ lowered'[curUser] = b
          /\ \A u \in Users : u # curUser => lowered'[u] = lowered[u]
      BY <2>1, <3>1, <3>2, <3>3, Moved
    <3> QED BY <3>4 DEF b
  <2>4. TypeOK' /\ SessionInv'
    BY <2>1, <2>2, <2>3
  <2>5. /\ v \in Nat /\ nextCtr \in Nat /\ used[curUser] \subseteq Nat
        /\ ~lowered'[curUser] => nextCtr <= v /\ \A b \in used[curUser] : b < v
    BY <2>1, <2>3 DEF Behind, Ctrs
  <2>6. FlashAhead'
    BY <2>1, <2>2, <2>3, <2>5 DEF FlashAhead
  <2>7. RamBehind' /\ RamFresh' /\ LossInv'
    BY <2>1, <2>2, <2>5 DEF RamBehind, RamFresh, LossInv
  <2> QED BY <2>4, <2>6, <2>7
<1>12. ASSUME NEW c \in Ctrs, NEW n \in Sizes, HostImport(c, n) PROVE IInv'
  <2>1. /\ curUser \in Users /\ op = "idle" /\ blocks = 0 /\ hostMoved' = TRUE
        /\ UNCHANGED <<lut, profileCtr, nextCtr, curUser, mmm, op, blocks, wrapped>>
    BY <1>12 DEF HostImport
  <2>2. Blocks(c, n) \in SUBSET Nat
    <3>1. c \in Nat /\ n \in Nat
      BY DEF Ctrs
    <3> QED BY <3>1 DEF Blocks
  <2>3. /\ used' \in [Users -> SUBSET Nat]
        /\ used'[curUser] = used[curUser] \cup Blocks(c, n)
        /\ \A u \in Users : u # curUser => used'[u] = used[u]
    BY <1>12, <2>1, <2>2 DEF HostImport
  <2>4. /\ lowered' \in [Users -> BOOLEAN]
        /\ lowered'[curUser] = Behind(profileCtr[curUser], used'[curUser])
        /\ \A u \in Users : u # curUser => lowered'[u] = lowered[u]
    <3> DEFINE b == Behind(profileCtr[curUser], used[curUser] \cup Blocks(c, n))
    <3>1. b \in BOOLEAN
      BY DEF Behind
    <3>2. lowered' = [lowered EXCEPT ![curUser] = b]
      BY <1>12 DEF HostImport
    <3>3. lowered \in [Users -> BOOLEAN]
      OBVIOUS
    <3> HIDE DEF b
    <3>4. /\ lowered' \in [Users -> BOOLEAN] /\ lowered'[curUser] = b
          /\ \A u \in Users : u # curUser => lowered'[u] = lowered[u]
      BY <2>1, <3>1, <3>2, <3>3, Moved
    <3>5. b = Behind(profileCtr[curUser], used'[curUser])
      BY <2>3 DEF b
    <3> QED BY <3>4, <3>5
  <2>5. TypeOK' /\ SessionInv'
    BY <2>1, <2>3, <2>4
  <2>6. /\ profileCtr[curUser] \in Nat /\ nextCtr \in Nat /\ used'[curUser] \subseteq Nat
        /\ ~lowered'[curUser] => /\ nextCtr <= profileCtr[curUser]
                                 /\ \A b \in used'[curUser] : b < profileCtr[curUser]
    BY <2>1, <2>3, <2>4 DEF Behind, Ctrs
  <2>7. FlashAhead'
    BY <2>1, <2>3, <2>4, <2>6 DEF FlashAhead
  <2>8. RamBehind' /\ RamFresh' /\ LossInv'
    BY <2>1, <2>6 DEF RamBehind, RamFresh, LossInv
  <2> QED BY <2>5, <2>7, <2>8
<1>13. CASE UNCHANGED vars
  BY <1>13 DEF vars, FlashAhead, RamBehind, RamFresh, LossInv
<1> QED
  BY <1>1, <1>2, <1>3, <1>4, <1>5, <1>6, <1>7, <1>8, <1>9, <1>10, <1>11, <1>12, <1>13
     DEF Next

\* The invariant holds in every reachable state.
LEMMA Invariance == Spec => []IInv
BY InitInv, StepInv, PTL DEF Spec

\* Every variable keeps its type: in particular both copies of the counter stay
\* in 24 bits, whatever the byte-wise additions carry.
THEOREM TypeCorrect == Spec => []TypeOK
<1>1. IInv => TypeOK
  BY DEF IInv
<1> QED BY <1>1, Invariance, PTL

\* No encryption consumes a keystream block twice (logic_encryption_pre_ctr_tasks
\* reserves enough, early enough), while the counter has not wrapped, in a session
\* in which the host moved nothing, and unless the host or a deletion cut short
\* left the profile counter behind a ciphertext: FreshBlocks is an invariant.
THEOREM NoBlockReuse == Spec => []FreshBlocks
<1>1. IInv => FreshBlocks
  <2> SUFFICES ASSUME IInv, op = "reserved", ~wrapped[curUser], ~lowered[curUser],
                      ~hostMoved
               PROVE  Blocks(nextCtr, blocks) \cap used[curUser] = {}
    BY DEF FreshBlocks
  <2>1. curUser \in Users /\ nextCtr \in Nat /\ blocks \in Nat /\ used[curUser] \subseteq Nat
    BY SizesAssumption, MinIncrAssumption, CtrSpaceAssumption
       DEF IInv, TypeOK, SessionInv, Ctrs
  <2>2. \A b \in used[curUser] : b < nextCtr
    BY <2>1 DEF IInv, SessionInv, RamFresh, Counting, Consumed
  <2> QED BY <2>1, <2>2 DEF Blocks
<1> QED BY <1>1, Invariance, PTL

\* A login or a power cut costs at most CTR_FLASH_MIN_INCR counter values.
THEOREM LossIsBounded == Spec => []BoundedLoss
<1>1. IInv => BoundedLoss
  BY MinIncrAssumption, CtrSpaceAssumption
     DEF IInv, TypeOK, SessionInv, RamBehind, LossInv, Counting, BoundedLoss, Ctrs
<1> QED BY <1>1, Invariance, PTL
=============================================================================
