----------------------------- MODULE CtapHidProofs -----------------------------
(***************************************************************************)
(* What CtapHid promises, for any number of applications and channels and  *)
(* messages of any length.                                                 *)
(*                                                                         *)
(* The argument: no two applications have one channel (OwnChannels), so    *)
(* that the channel of the buffer tells whose packets are in it (Message). *)
(* An application without an answer has all it has sent in the buffer, or  *)
(* its message was removed by another's INIT (Progress).                   *)
(***************************************************************************)
EXTENDS CtapHid, WellFoundedInduction, TLAPS

Tables == [1 .. Slots -> [cid : Cids \cup {NoCid}, busy : BOOLEAN]]
States == [phase : Phases, cid : Cids \cup {NoCid}, size : Sizes,
           next : 0 .. MaxPackets + 1, tag : Tags, answered : BOOLEAN]

\* No two applications have one channel.
OwnChannels ==
  /\ \A a \in Apps : app[a].cid <= lastCid
  /\ \A a \in Apps : app[a].phase = "closed" <=> app[a].cid = NoCid
  /\ \A a, b \in Apps : app[a].cid = app[b].cid /\ app[a].cid # NoCid => a = b

\* New channels are new everywhere.
OldChannels ==
  /\ \A i \in 1 .. Slots : table[i].cid <= lastCid
  /\ owner <= lastCid
  /\ \A c \in left : c <= lastCid

\* The packets that application a has sent of its message, up to the n-th.
SentBy(a, cid, tag, pieces) ==
  /\ pieces # << >>
  /\ \A i \in 1 .. Len(pieces) :
       pieces[i] = [app |-> a, cid |-> cid, tag |-> tag, place |-> i - 1]

\* Whose message is in the buffer.
Message ==
  ~Empty =>
    /\ Buffering /\ owner # NoCid /\ owner \notin left
    /\ \E a \in Apps, tag \in Tags : SentBy(a, owner, tag, got)
    /\ \A a \in Apps : app[a].cid = owner /\ app[a].phase # "idle"
                       => SentBy(a, owner, app[a].tag, got)
    /\ cid_exists(owner, table)

\* An application that waits for an answer has its message in the buffer.
Waits(x) == x.phase \in {"sending", "sent"} /\ ~x.answered /\ ~Cancelled(x)
Waiting(a) ==
  Waits(app[a]) =>
    \/ app[a].cid \in left
    \/ /\ app[a].phase = "sending" /\ ~Empty /\ owner = app[a].cid
       /\ Len(got) = app[a].next /\ length = app[a].size
Progress == \A a \in Apps : Waiting(a)

IInv ==
  TypeOK /\ WholeMessages /\ OwnChannels /\ OldChannels /\ Message /\ Progress
  /\ ChannelsFreed

-----------------------------------------------------------------------------
(* The table.                                                               *)

LEMMA MinIn ==
  ASSUME NEW S, S \subseteq Nat, S # {}
  PROVE  Min(S) \in S
<1> DEFINE R == OpToRel(<, Nat)
<1>1. IsWellFoundedOn(R, Nat)
  BY NatLessThanWellFounded
<1>2. \A x, y \in Nat : x < y => <<x, y>> \in R
  BY DEF OpToRel
<1> HIDE DEF R
<1>3. PICK x \in S : \A y \in S : ~(<<y, x>> \in R)
  BY <1>1, WFMin
<1>4. ASSUME NEW y \in S PROVE x <= y
  <2>1. x \in Nat /\ y \in Nat /\ ~(y < x)
    BY <1>2, <1>3
  <2> QED BY <2>1
<1> QED BY <1>4 DEF Min

LEMMA MaxSize ==
  ASSUME NEW size \in Nat
  PROVE  Max({1, size}) = IF size = 0 THEN 1 ELSE size
<1> DEFINE m == IF size = 0 THEN 1 ELSE size
<1>1. m \in {1, size} /\ \A y \in {1, size} : m >= y
  OBVIOUS
<1>2. \A x \in {1, size} : (\A y \in {1, size} : x >= y) => x = m
  BY <1>1
<1> QED BY <1>1, <1>2 DEF Max

LEMMA Added ==
  ASSUME NEW t \in Tables, NEW cid \in Cids
  PROVE  /\ add_cid(cid, t) \in Tables
         /\ \A i \in 1 .. Slots : add_cid(cid, t)[i].cid = cid \/ add_cid(cid, t)[i] = t[i]
<1>1. CASE FreeSlots(t) = {}
  BY <1>1 DEF add_cid
<1>2. CASE FreeSlots(t) # {}
  <2>1. Min(FreeSlots(t)) \in 1 .. Slots
    BY <1>2, MinIn, ConstantsAssumption DEF FreeSlots
  <2> QED BY <1>2, <2>1 DEF add_cid, Tables
<1> QED BY <1>1, <1>2

LEMMA Refreshed ==
  ASSUME NEW t \in Tables, NEW cid \in Cids, cid_exists(cid, t)
  PROVE  /\ cid_refresh(cid, t) \in Tables
         /\ \A i \in 1 .. Slots : /\ cid_refresh(cid, t)[i].cid = t[i].cid
                                  /\ t[i].cid # cid => cid_refresh(cid, t)[i] = t[i]
<1>1. Min(SlotsOf(cid, t)) \in SlotsOf(cid, t)
  BY MinIn, ConstantsAssumption DEF SlotsOf, cid_exists
<1>2. Min(SlotsOf(cid, t)) \in 1 .. Slots /\ t[Min(SlotsOf(cid, t))].cid = cid
  BY <1>1 DEF SlotsOf
<1> QED BY <1>2 DEF cid_refresh, Tables

LEMMA Deleted ==
  ASSUME NEW t \in Tables, NEW cid
  PROVE  /\ cid_del(cid, t) \in Tables
         /\ \A i \in 1 .. Slots : /\ cid_del(cid, t)[i].cid = t[i].cid
                                  /\ t[i].cid # cid => cid_del(cid, t)[i] = t[i]
                                  /\ t[i].cid = cid => ~cid_del(cid, t)[i].busy
  BY DEF cid_del, Tables

-----------------------------------------------------------------------------
(* What the handlers do.                                                    *)

\* Application a sends a packet on its channel, and does so.
Sends(a, packet, doing) ==
  /\ a \in Apps /\ packet \in Packets /\ packet.app = a
  /\ packet.cid = app[a].cid /\ app[a].cid \in Cids
  /\ doing \in States /\ doing.cid = app[a].cid /\ doing.phase # "closed"

\* The table, or one that a new channel was added to while the buffer is empty.
TableFor(cid, t) ==
  /\ t \in Tables
  /\ t = table \/ (Empty /\ \A i \in 1 .. Slots : t[i].cid = cid \/ t[i] = table[i])

LEMMA AppStep ==
  ASSUME TypeOK, OwnChannels, NEW a \in Apps, NEW x \in States, app[a].cid # NoCid,
         x.cid = app[a].cid, x.phase # "closed", app' = [app EXCEPT ![a] = x],
         UNCHANGED lastCid
  PROVE  /\ app' \in [Apps -> States] /\ OwnChannels'
         /\ app'[a] = x /\ \A b \in Apps : b # a => app'[b] = app[b]
         /\ \A b \in Apps : app'[b].cid = app[b].cid
         /\ \A b \in Apps : b # a /\ app[b].phase # "closed" => app[b].cid # app[a].cid
<1>1. app \in [Apps -> States]
  BY DEF TypeOK, States
<1>2. app'[a] = x /\ \A b \in Apps : b # a => app'[b] = app[b]
  BY <1>1
<1>3. app' \in [Apps -> States]
  BY <1>1
<1> QED BY <1>2, <1>3 DEF OwnChannels

LEMMA Gets ==
  ASSUME NEW a, NEW packet, NEW doing, Sends(a, packet, doing), Answer(a, doing)
  PROVE  \E x \in States :
           /\ app' = [app EXCEPT ![a] = x]
           /\ x.cid = app[a].cid /\ x.phase = doing.phase /\ x.tag = doing.tag
           /\ x.phase \in {"sending", "sent"} => x.answered
<1> DEFINE x == [doing EXCEPT !.answered = doing.phase # "idle"]
<1>1. doing \in States
  BY DEF Sends
<1>2. x \in States
  BY <1>1 DEF States
<1>3. x.cid = doing.cid /\ x.phase = doing.phase /\ x.tag = doing.tag
      /\ x.answered = (doing.phase # "idle")
  BY <1>1 DEF States
<1>4. x.phase \in {"sending", "sent"} => x.answered
  BY <1>3
<1>5. x.cid = app[a].cid /\ app' = [app EXCEPT ![a] = x]
  BY <1>3 DEF Sends, Answer
<1> QED BY <1>2, <1>3, <1>4, <1>5

LEMMA ErrorStep ==
  ASSUME IInv, NEW a, NEW packet, NEW doing, NEW error, NEW t, NEW cid,
         Sends(a, packet, doing), TableFor(cid, t), cid = packet.cid,
         error = "INVALID_SEQ" => cid = owner,
         \/ doing.phase = "idle"
         \/ doing.tag = app[a].tag /\ app[a].phase # "idle"
         \/ cid # owner \/ Empty \/ error = "INVALID_SEQ",
         Error(packet, doing, error, t), UNCHANGED lastCid
  PROVE  IInv'
<1>0. cid \in Cids /\ cid = app[a].cid /\ a \in Apps /\ cid # NoCid /\ packet.app = a
  BY DEF Sends, Cids, NoCid
<1>1. PICK x \in States :
        /\ app' = [app EXCEPT ![a] = x]
        /\ x.cid = app[a].cid /\ x.phase = doing.phase /\ x.tag = doing.tag
        /\ x.phase # "closed"
        /\ x.phase \in {"sending", "sent"} => x.answered
  BY <1>0, Gets DEF Error, Sends
<1>2. /\ app' \in [Apps -> States] /\ OwnChannels'
      /\ app'[a] = x /\ \A b \in Apps : b # a => app'[b] = app[b]
      /\ \A b \in Apps : app'[b].cid = app[b].cid
      /\ \A b \in Apps : b # a /\ app[b].phase # "closed" => app[b].cid # cid
  <2>1. TypeOK /\ OwnChannels
    BY DEF IInv
  <2>2. app[a].cid # NoCid /\ a \in Apps
    BY <1>0
  <2>3. /\ app' \in [Apps -> States] /\ OwnChannels'
        /\ app'[a] = x /\ \A b \in Apps : b # a => app'[b] = app[b]
        /\ \A b \in Apps : app'[b].cid = app[b].cid
        /\ \A b \in Apps : b # a /\ app[b].phase # "closed" => app[b].cid # app[a].cid
    BY <1>1, <2>1, <2>2, AppStep
  <2> QED BY <1>0, <2>3
<1>3. /\ table' \in Tables
      /\ \A i \in 1 .. Slots : /\ table'[i].cid = t[i].cid
                               /\ t[i].cid # cid => table'[i] = t[i]
                               /\ t[i].cid = cid => ~table'[i].busy
  BY Deleted DEF Error, TableFor
<1>4. left' = left \ {cid} /\ UNCHANGED whole
  BY DEF Error
<1>5. \/ error # "INVALID_SEQ" /\ UNCHANGED <<owner, length, got>>
      \/ error = "INVALID_SEQ" /\ owner' = NoCid /\ length' = 0 /\ got' = << >>
  BY DEF Error, KeepsBuffer, buffer, buffer_reset
<1>6. TypeOK' /\ WholeMessages'
  <2>1. /\ owner' \in Cids \cup {NoCid} /\ length' \in 0 .. MaxPackets
        /\ got' \in Seq(Packets)
    <3>1. << >> \in Seq(Packets) /\ 0 \in 0 .. MaxPackets
      BY ConstantsAssumption
    <3> QED BY <1>5, <3>1 DEF IInv, TypeOK
  <2>2. table' \in [1 .. Slots -> [cid : Cids \cup {NoCid}, busy : BOOLEAN]]
    BY <1>3 DEF Tables
  <2>3. app' \in [Apps -> [phase : Phases, cid : Cids \cup {NoCid}, size : Sizes,
                          next : 0 .. MaxPackets + 1, tag : Tags, answered : BOOLEAN]]
    BY <1>2 DEF States
  <2> QED BY <1>4, <2>1, <2>2, <2>3 DEF IInv, TypeOK, WholeMessages
<1>7. OldChannels'
  <2>1. cid <= lastCid /\ 0 <= lastCid
    BY <1>0 DEF IInv, OwnChannels, TypeOK
  <2>2. \A i \in 1 .. Slots : t[i].cid = cid \/ t[i] = table[i]
    BY DEF TableFor
  <2>3. \A i \in 1 .. Slots : table'[i].cid <= lastCid
    BY <1>3, <2>1, <2>2 DEF IInv, OldChannels
  <2>4. owner' <= lastCid
    BY <1>5, <2>1 DEF IInv, OldChannels, NoCid
  <2> QED BY <1>4, <2>3, <2>4 DEF IInv, OldChannels
<1>8. Message'
  <2>1. CASE error # "INVALID_SEQ" /\ ~Empty
    <3>1. UNCHANGED <<owner, length, got>> /\ t = table
      BY <1>5, <2>1 DEF TableFor
    <3>2. cid_exists(owner, table')
      <4>1. PICK i \in 1 .. Slots : table[i].cid = owner
        BY <2>1 DEF IInv, Message, cid_exists, SlotsOf
      <4>2. table'[i].cid = owner
        BY <1>3, <3>1, <4>1
      <4> QED BY <4>2 DEF cid_exists, SlotsOf
    <3>3. \A b \in Apps : app'[b].cid = owner /\ app'[b].phase # "idle"
                           => SentBy(b, owner, app'[b].tag, got)
      BY <1>0, <1>1, <1>2, <2>1 DEF IInv, Message
    <3> QED BY <1>4, <2>1, <3>1, <3>2, <3>3 DEF IInv, Message, Empty, Buffering
  <2>2. CASE error = "INVALID_SEQ" \/ Empty
    BY <1>5, <2>2 DEF Message, Empty
  <2> QED BY <2>1, <2>2
<1>9. Progress'
  <2>1. Waiting(a)'
    BY <1>1, <1>2 DEF Waiting, Waits
  <2>2. ASSUME NEW b \in Apps, b # a PROVE Waiting(b)'
    BY <1>0, <1>2, <1>4, <1>5, <2>2 DEF IInv, Progress, Waiting, Waits, Cancelled, Empty
  <2> QED BY <2>1, <2>2 DEF Progress
<1>10. ChannelsFreed'
  <2> SUFFICES ASSUME NEW i \in 1 .. Slots, table'[i].busy
               PROVE  (Buffering' /\ table'[i].cid = owner') \/ table'[i].cid \in left'
    BY DEF ChannelsFreed
  <2>1. t[i].cid # cid /\ table'[i] = table[i]
    BY <1>3 DEF TableFor
  <2>2. table[i].cid # cid /\ table[i].busy
    BY <1>3, <2>1
  <2>3. CASE table[i].cid \in left
    BY <1>4, <2>1, <2>2, <2>3
  <2>4. CASE Buffering /\ table[i].cid = owner
    BY <1>5, <2>1, <2>2, <2>4 DEF Buffering
  <2> QED BY <2>2, <2>3, <2>4 DEF IInv, ChannelsFreed
<1> QED BY <1>2, <1>6, <1>7, <1>8, <1>9, <1>10 DEF IInv

LEMMA IncompleteStep ==
  ASSUME IInv, NEW a, NEW packet, NEW doing, NEW pieces, NEW size, NEW t,
         NEW cid, Sends(a, packet, doing), TableFor(cid, t), cid = packet.cid,
         cid_exists(cid, t), Empty \/ owner = cid,
         pieces \in Seq(Packets), SentBy(a, cid, doing.tag, pieces),
         size \in 0 .. MaxPackets, Len(pieces) < size,
         Waits(doing) => doing.phase = "sending" /\ Len(pieces) = doing.next /\ size = doing.size,
         Store(packet, doing, pieces, size, t), UNCHANGED lastCid
  PROVE  IInv'
<1>1. /\ a \in Apps /\ packet.app = a /\ cid \in Cids /\ cid = app[a].cid /\ cid # NoCid
      /\ doing \in States /\ doing.cid = cid /\ doing.phase # "closed"
  BY DEF Sends, Cids, NoCid
<1>2. /\ table' = cid_refresh(cid, t)
      /\ owner' = cid /\ length' = size /\ got' = pieces
      /\ left' = left \ {cid} /\ whole' = whole
      /\ app' = [app EXCEPT ![a] = doing]
  <2>1. Len(pieces) \in Nat /\ ~(Len(pieces) >= size)
    OBVIOUS
  <2> QED BY <1>1, <2>1 DEF Store, Silent
<1>3. /\ app' \in [Apps -> States] /\ OwnChannels'
      /\ app'[a] = doing /\ \A b \in Apps : b # a => app'[b] = app[b]
      /\ \A b \in Apps : app'[b].cid = app[b].cid
      /\ \A b \in Apps : b # a /\ app[b].phase # "closed" => app[b].cid # cid
  <2>1. TypeOK /\ OwnChannels
    BY DEF IInv
  <2>2. app[a].cid # NoCid /\ a \in Apps /\ doing.cid = app[a].cid
    BY <1>1
  <2>3. /\ app' \in [Apps -> States] /\ OwnChannels'
        /\ app'[a] = doing /\ \A b \in Apps : b # a => app'[b] = app[b]
        /\ \A b \in Apps : app'[b].cid = app[b].cid
        /\ \A b \in Apps : b # a /\ app[b].phase # "closed" => app[b].cid # app[a].cid
    BY <1>1, <1>2, <2>1, <2>2, AppStep
  <2> QED BY <1>1, <2>3
<1>4. /\ table' \in Tables
      /\ \A i \in 1 .. Slots : /\ table'[i].cid = t[i].cid
                               /\ t[i].cid # cid => table'[i] = t[i]
  <2>1. t \in Tables
    BY DEF TableFor
  <2> QED BY <1>1, <1>2, <2>1, Refreshed
<1>5. \A i \in 1 .. Slots : t[i].cid # cid => t[i] = table[i]
  BY DEF TableFor
<1>6. TypeOK' /\ WholeMessages'
  <2>1. table' \in [1 .. Slots -> [cid : Cids \cup {NoCid}, busy : BOOLEAN]]
    BY <1>4 DEF Tables
  <2>2. app' \in [Apps -> [phase : Phases, cid : Cids \cup {NoCid}, size : Sizes,
                          next : 0 .. MaxPackets + 1, tag : Tags, answered : BOOLEAN]]
    BY <1>3 DEF States
  <2> QED BY <1>1, <1>2, <2>1, <2>2 DEF IInv, TypeOK, WholeMessages
<1>7. OldChannels'
  <2>1. cid <= lastCid
    BY <1>1 DEF IInv, OwnChannels
  <2>2. \A i \in 1 .. Slots : table'[i].cid <= lastCid
    BY <1>4, <1>5, <2>1 DEF IInv, OldChannels
  <2> QED BY <1>2, <2>1, <2>2 DEF IInv, OldChannels
<1>8. Message'
  <2>1. \E i \in 1 .. Slots : table'[i].cid = cid
    BY <1>4 DEF cid_exists, SlotsOf
  <2>2. cid_exists(cid, table')
    BY <2>1 DEF cid_exists, SlotsOf
  <2>3. \A b \in Apps : app'[b].cid = cid => b = a
    BY <1>1, <1>3 DEF IInv, OwnChannels
  <2>4. \A b \in Apps : app'[b].cid = cid => SentBy(b, cid, app'[b].tag, pieces)
    BY <1>3, <2>3
  <2>5. doing.tag \in Tags
    BY <1>1 DEF States
  <2>6. \E b \in Apps, tag \in Tags : SentBy(b, cid, tag, pieces)
    BY <1>1, <2>5
  <2>7. Buffering'
    BY <1>2 DEF Buffering
  <2> QED BY <1>1, <1>2, <2>2, <2>4, <2>6, <2>7 DEF Message
<1>9. Progress'
  <2>1. Waiting(a)'
    <3> SUFFICES ASSUME Waits(doing)
                 PROVE  doing.phase = "sending" /\ ~Empty' /\ owner' = doing.cid
                        /\ Len(got') = doing.next /\ length' = doing.size
      BY <1>3 DEF Waiting
    <3>1. ~Empty'
      BY <1>2 DEF Empty
    <3> QED BY <1>1, <1>2, <3>1
  <2>2. ASSUME NEW b \in Apps, b # a PROVE Waiting(b)'
    <3> SUFFICES ASSUME Waits(app[b])
                 PROVE  app[b].cid \in left'
      BY <1>3, <2>2 DEF Waiting
    <3>1. app[b].cid # cid
      BY <1>3, <2>2 DEF Waits
    <3>2. app[b].cid \in left
      BY <3>1 DEF IInv, Progress, Waiting
    <3> QED BY <1>2, <3>1, <3>2
  <2> QED BY <2>1, <2>2 DEF Progress
<1>10. ChannelsFreed'
  <2> SUFFICES ASSUME NEW i \in 1 .. Slots, table'[i].busy
               PROVE  (Buffering' /\ table'[i].cid = owner') \/ table'[i].cid \in left'
    BY DEF ChannelsFreed
  <2>1. CASE t[i].cid = cid
    <3>1. Buffering'
      BY <1>2 DEF Buffering
    <3> QED BY <1>2, <1>4, <2>1, <3>1
  <2>2. CASE t[i].cid # cid
    <3>1. table'[i] = table[i] /\ table[i].busy /\ table[i].cid # cid
      BY <1>4, <1>5, <2>2
    <3>2. ~(Buffering /\ table[i].cid = owner)
      BY <3>1 DEF Buffering, Empty, IInv, TypeOK
    <3>3. table[i].cid \in left
      BY <3>1, <3>2 DEF IInv, ChannelsFreed
    <3> QED BY <1>2, <3>1, <3>3
  <2> QED BY <2>1, <2>2
<1> QED BY <1>3, <1>6, <1>7, <1>8, <1>9, <1>10 DEF IInv

LEMMA CompleteStep ==
  ASSUME IInv, NEW a, NEW packet, NEW doing, NEW pieces, NEW size, NEW t,
         NEW cid, Sends(a, packet, doing), TableFor(cid, t), cid = packet.cid,
         cid_exists(cid, t), Empty \/ owner = cid,
         pieces \in Seq(Packets), SentBy(a, cid, doing.tag, pieces),
         size \in 0 .. MaxPackets, Len(pieces) >= size, Len(pieces) <= Max({1, size}),
         doing.phase = "sent" \/ doing.answered,
         Store(packet, doing, pieces, size, t), UNCHANGED lastCid
  PROVE  IInv'
<1>1. a \in Apps /\ packet.app = a /\ cid \in Cids /\ cid = app[a].cid /\ cid # NoCid
  BY DEF Sends, Cids, NoCid
<1> DEFINE command == pieces[1].tag.command
<1>2. /\ whole' = (whole /\ Whole(pieces, size))
      /\ IF IsCancel(command) THEN Silent(a, doing) ELSE Answer(a, doing)
      /\ IF EmptyCbor(command, size)
         THEN /\ owner' = cid /\ length' = 0 /\ got' = pieces
              /\ left' = left \cup {cid} /\ table' = cid_refresh(cid, t)
         ELSE /\ owner' = NoCid /\ length' = 0 /\ got' = << >>
              /\ left' = left \ {cid} /\ table' = cid_del(cid, t)
  BY <1>1 DEF Store, Execute, buffer_reset
<1>3. PICK x \in States :
        /\ app' = [app EXCEPT ![a] = x]
        /\ x.cid = app[a].cid /\ x.phase # "closed" /\ ~Waits(x)
  <2>1. doing.phase # "closed" /\ doing.cid = app[a].cid /\ doing \in States
    BY DEF Sends
  <2>2. CASE ~IsCancel(command)
    <3>1. PICK x \in States :
            /\ app' = [app EXCEPT ![a] = x]
            /\ x.cid = app[a].cid /\ x.phase = doing.phase /\ x.tag = doing.tag
            /\ x.phase \in {"sending", "sent"} => x.answered
      BY <1>2, <2>2, Gets
    <3> QED BY <2>1, <3>1 DEF Waits
  <2>3. CASE IsCancel(command)
    <3>1. app' = [app EXCEPT ![a] = doing]
      BY <1>2, <2>3 DEF Silent
    <3>2. Len(pieces) \in Nat /\ Len(pieces) # 0
      BY DEF SentBy
    <3>3. pieces[1] = [app |-> a, cid |-> cid, tag |-> doing.tag, place |-> 0]
      BY <3>2 DEF SentBy
    <3>4. ~Waits(doing)
      BY <2>3, <3>3 DEF Waits, Cancelled
    <3> QED BY <2>1, <3>1, <3>4
  <2> QED BY <2>2, <2>3
<1>4. /\ app' \in [Apps -> States] /\ OwnChannels'
      /\ app'[a] = x /\ \A b \in Apps : b # a => app'[b] = app[b]
      /\ \A b \in Apps : app'[b].cid = app[b].cid
      /\ \A b \in Apps : b # a /\ app[b].phase # "closed" => app[b].cid # cid
  <2>1. TypeOK /\ OwnChannels
    BY DEF IInv
  <2>2. app[a].cid # NoCid /\ a \in Apps
    BY <1>1
  <2>3. /\ app' \in [Apps -> States] /\ OwnChannels'
        /\ app'[a] = x /\ \A b \in Apps : b # a => app'[b] = app[b]
        /\ \A b \in Apps : app'[b].cid = app[b].cid
        /\ \A b \in Apps : b # a /\ app[b].phase # "closed" => app[b].cid # app[a].cid
    BY <1>3, <2>1, <2>2, AppStep
  <2> QED BY <1>1, <2>3
<1>5. /\ table' \in Tables
      /\ \A i \in 1 .. Slots : /\ table'[i].cid = t[i].cid
                               /\ t[i].cid # cid => table'[i] = t[i]
                               /\ t[i].cid = cid /\ cid \notin left' => ~table'[i].busy
  <2>1. t \in Tables
    BY DEF TableFor
  <2>2. CASE EmptyCbor(command, size)
    BY <1>1, <1>2, <2>1, <2>2, Refreshed
  <2>3. CASE ~EmptyCbor(command, size)
    BY <1>2, <2>1, <2>3, Deleted
  <2> QED BY <2>2, <2>3
<1>6. \A i \in 1 .. Slots : t[i].cid # cid => t[i] = table[i]
  BY DEF TableFor
<1>7. Whole(pieces, size)
  <2>1. Len(pieces) \in Nat /\ Len(pieces) # 0
    BY DEF SentBy
  <2>2. Max({1, size}) = IF size = 0 THEN 1 ELSE size
    BY MaxSize
  <2>3. Len(pieces) = Max({1, size})
    BY <2>1, <2>2
  <2>4. pieces[1] = [app |-> a, cid |-> cid, tag |-> doing.tag, place |-> 0]
    BY <2>1 DEF SentBy
  <2>5. \A i \in 1 .. Len(pieces) :
          pieces[i] = [app |-> a, cid |-> cid, tag |-> doing.tag, place |-> i - 1]
    BY DEF SentBy
  <2>6. \A n : [pieces[1] EXCEPT !.place = n]
                = [app |-> a, cid |-> cid, tag |-> doing.tag, place |-> n]
    BY <2>4
  <2> QED BY <2>3, <2>5, <2>6 DEF Whole
<1>8. /\ length' = 0 /\ owner' \in {cid, NoCid} /\ got' \in Seq(Packets)
      /\ left' \subseteq left \cup {cid} /\ left \ {cid} \subseteq left'
  <2>1. CASE EmptyCbor(command, size)
    BY <1>2, <2>1
  <2>2. CASE ~EmptyCbor(command, size)
    <3>1. got' = << >> /\ << >> \in Seq(Packets)
      BY <1>2, <2>2
    <3> QED BY <1>2, <2>2, <3>1
  <2> QED BY <2>1, <2>2
<1>9. TypeOK' /\ WholeMessages'
  <2>1. table' \in [1 .. Slots -> [cid : Cids \cup {NoCid}, busy : BOOLEAN]]
    BY <1>5 DEF Tables
  <2>2. app' \in [Apps -> [phase : Phases, cid : Cids \cup {NoCid}, size : Sizes,
                          next : 0 .. MaxPackets + 1, tag : Tags, answered : BOOLEAN]]
    BY <1>4 DEF States
  <2>3. whole' = TRUE
    BY <1>2, <1>7 DEF IInv, WholeMessages
  <2> QED BY <1>1, <1>8, <2>1, <2>2, <2>3, ConstantsAssumption
          DEF IInv, TypeOK, WholeMessages
<1>10. OldChannels'
  <2>1. cid <= lastCid /\ NoCid <= lastCid
    BY <1>1 DEF IInv, OwnChannels, TypeOK, NoCid
  <2>2. \A i \in 1 .. Slots : table'[i].cid <= lastCid
    BY <1>5, <1>6, <2>1 DEF IInv, OldChannels
  <2> QED BY <1>8, <2>1, <2>2 DEF IInv, OldChannels
<1>11. Message'
  BY <1>8 DEF Message, Empty
<1>12. Progress'
  <2>1. Waiting(a)'
    BY <1>3, <1>4 DEF Waiting
  <2>2. ASSUME NEW b \in Apps, b # a PROVE Waiting(b)'
    <3> SUFFICES ASSUME Waits(app[b])
                 PROVE  app[b].cid \in left'
      BY <1>4, <2>2 DEF Waiting
    <3>1. app[b].cid # cid
      BY <1>4, <2>2 DEF Waits
    <3>2. app[b].cid \in left
      BY <3>1 DEF IInv, Progress, Waiting
    <3> QED BY <1>8, <3>1, <3>2
  <2> QED BY <2>1, <2>2 DEF Progress
<1>13. ChannelsFreed'
  <2> SUFFICES ASSUME NEW i \in 1 .. Slots, table'[i].busy
               PROVE  table'[i].cid \in left'
    BY DEF ChannelsFreed
  <2>1. CASE t[i].cid = cid
    BY <1>5, <2>1
  <2>2. CASE t[i].cid # cid
    <3>1. table'[i] = table[i] /\ table[i].busy /\ table[i].cid # cid
      BY <1>5, <1>6, <2>2
    <3>2. ~(Buffering /\ table[i].cid = owner)
      BY <3>1 DEF Buffering, Empty, IInv, TypeOK
    <3>3. table[i].cid \in left
      BY <3>1, <3>2 DEF IInv, ChannelsFreed
    <3> QED BY <1>8, <3>1, <3>3
  <2> QED BY <2>1, <2>2
<1> QED BY <1>4, <1>9, <1>10, <1>11, <1>12, <1>13 DEF IInv

LEMMA InitStep ==
  ASSUME IInv, NEW cid \in Cids, HandleInit(cid), lastCid' \in 0 .. MaxCid,
         lastCid <= lastCid', cid <= lastCid', app' \in [Apps -> States], OwnChannels',
         \A b \in Apps : \/ app'[b].phase = "idle"
                         \/ app'[b] = app[b] /\ app[b].cid # cid
  PROVE  IInv'
<1> DEFINE t == IF cid_exists(cid, table) THEN table ELSE add_cid(cid, table)
<1>1. /\ t \in Tables
      /\ \A i \in 1 .. Slots : t[i].cid = cid \/ t[i] = table[i]
  <2>1. table \in Tables
    BY DEF IInv, TypeOK, Tables
  <2> QED BY <2>1, Added
<1>2. table' = cid_del(cid, t)
  BY DEF HandleInit
<1> HIDE DEF t
<1>3. /\ table' \in Tables
      /\ \A i \in 1 .. Slots : /\ table'[i].cid = t[i].cid
                               /\ t[i].cid # cid => table'[i] = t[i]
                               /\ t[i].cid = cid => ~table'[i].busy
  BY <1>1, <1>2, Deleted
<1>4. /\ owner' = NoCid /\ length' = 0 /\ got' = << >> /\ whole' = whole
      /\ left \ {cid} \subseteq left' /\ left' \subseteq left \cup {owner}
      /\ Buffering => left' \subseteq left \cup {owner} /\ {owner} \ {cid} \subseteq left'
      /\ ~Buffering => left' \subseteq left
  BY DEF HandleInit, buffer_reset
<1>5. Buffering => ~Empty
  BY DEF Buffering, Empty, IInv, TypeOK
<1>6. ~Empty => Buffering /\ owner # NoCid
  BY DEF IInv, Message
<1>7. TypeOK' /\ WholeMessages'
  <2>1. table' \in [1 .. Slots -> [cid : Cids \cup {NoCid}, busy : BOOLEAN]]
    BY <1>3 DEF Tables
  <2>2. app' \in [Apps -> [phase : Phases, cid : Cids \cup {NoCid}, size : Sizes,
                          next : 0 .. MaxPackets + 1, tag : Tags, answered : BOOLEAN]]
    BY DEF States
  <2>3. left' \subseteq Cids
    BY <1>4, <1>5, <1>6 DEF IInv, TypeOK
  <2> QED BY <1>4, <2>1, <2>2, <2>3, ConstantsAssumption DEF IInv, TypeOK, WholeMessages
<1>8. OldChannels'
  <2>1. \A i \in 1 .. Slots : table'[i].cid <= lastCid'
    <3> TAKE i \in 1 .. Slots
    <3>1. CASE t[i].cid = cid
      BY <1>3, <3>1
    <3>2. CASE t[i] = table[i]
      <4>1. table[i].cid <= lastCid /\ table[i].cid \in Int
        BY DEF IInv, OldChannels, TypeOK, Cids, NoCid
      <4> QED BY <1>3, <3>2, <4>1 DEF IInv, TypeOK
    <3> QED BY <1>1, <3>1, <3>2
  <2>2. owner' <= lastCid'
    BY <1>4 DEF NoCid
  <2>3. \A c \in left' : c <= lastCid /\ c \in Int
    BY <1>4 DEF IInv, OldChannels, TypeOK, Cids, NoCid
  <2>4. \A c \in left' : c <= lastCid'
    BY <2>3 DEF IInv, TypeOK
  <2> QED BY <2>1, <2>2, <2>4 DEF OldChannels
<1>9. Message'
  BY <1>4 DEF Message, Empty
<1>10. Progress'
  <2> SUFFICES ASSUME NEW b \in Apps, Waits(app'[b])
               PROVE  app'[b].cid \in left'
    BY DEF Progress, Waiting
  <2>1. app'[b] = app[b] /\ app[b].cid # cid
    BY DEF Waits
  <2>2. app[b].cid \in left \/ (~Empty /\ owner = app[b].cid)
    BY <2>1 DEF IInv, Progress, Waiting
  <2> QED BY <1>4, <1>6, <2>1, <2>2
<1>11. ChannelsFreed'
  <2> SUFFICES ASSUME NEW i \in 1 .. Slots, table'[i].busy
               PROVE  table'[i].cid \in left'
    BY DEF ChannelsFreed
  <2>1. table'[i] = table[i] /\ table[i].busy /\ table[i].cid # cid
    BY <1>1, <1>3
  <2>2. (Buffering /\ table[i].cid = owner) \/ table[i].cid \in left
    BY <2>1 DEF IInv, ChannelsFreed
  <2> QED BY <1>4, <2>1, <2>2
<1> QED BY <1>7, <1>8, <1>9, <1>10, <1>11 DEF IInv

LEMMA QuietStep ==
  ASSUME IInv, NEW a \in Apps, NEW x \in States, app' = [app EXCEPT ![a] = x],
         \/ /\ x.cid = app[a].cid /\ x.phase # "closed" /\ app[a].phase # "closed"
            /\ x.phase = "idle" \/ (app[a].phase # "idle" /\ x.tag = app[a].tag)
         \/ x.cid = NoCid /\ x.phase = "closed",
         Waiting(a)', UNCHANGED <<table, lastCid, owner, length, got, whole, left>>
  PROVE  IInv'
<1>1. app \in [Apps -> States]
  BY DEF IInv, TypeOK, States
<1>2. app' \in [Apps -> States] /\ app'[a] = x /\ \A b \in Apps : b # a => app'[b] = app[b]
  BY <1>1
<1>3. OwnChannels'
  <2>1. x.cid <= lastCid /\ (x.phase = "closed" <=> x.cid = NoCid)
    BY DEF IInv, OwnChannels, TypeOK, NoCid
  <2>2. \A b \in Apps : b # a /\ app[b].cid = x.cid => x.cid = NoCid
    BY DEF IInv, OwnChannels
  <2> QED BY <1>2, <2>1, <2>2 DEF IInv, OwnChannels
<1>4. TypeOK' /\ WholeMessages' /\ OldChannels'
  <2>1. app' \in [Apps -> [phase : Phases, cid : Cids \cup {NoCid}, size : Sizes,
                          next : 0 .. MaxPackets + 1, tag : Tags, answered : BOOLEAN]]
    BY <1>2 DEF States
  <2> QED BY <2>1 DEF IInv, TypeOK, WholeMessages, OldChannels
<1>5. Message'
  <2> SUFFICES ASSUME ~Empty PROVE Message'
    BY DEF Message, Empty
  <2>1. \A b \in Apps :
          app'[b].cid = owner /\ app'[b].phase # "idle"
            => app[b].cid = owner /\ app[b].phase # "idle" /\ app'[b].tag = app[b].tag
    BY <1>2 DEF IInv, Message
  <2> QED BY <2>1 DEF IInv, Message, Empty, Buffering
<1>6. Progress'
  <2>1. ASSUME NEW b \in Apps, b # a PROVE Waiting(b)'
    BY <1>2, <2>1 DEF IInv, Progress, Waiting, Empty
  <2> QED BY <2>1 DEF Progress
<1>7. ChannelsFreed'
  BY DEF IInv, ChannelsFreed, Buffering
<1> QED BY <1>3, <1>4, <1>5, <1>6, <1>7 DEF IInv

-----------------------------------------------------------------------------
(* The steps of the applications.                                           *)

LEMMA Buffers == IInv => (Empty <=> ~Buffering)
  BY DEF IInv, TypeOK, Message, Empty, Buffering

LEMMA BeginStep ==
  ASSUME IInv, NEW a \in Apps, NEW size \in Sizes, NEW command \in Commands,
         Begin(a, size, command)
  PROVE  IInv'
<1> DEFINE packet == Packet(a, 0, NextTag(a, command))
           doing == [app[a] EXCEPT !.phase = IF size <= 1 THEN "sent" ELSE "sending",
                                   !.size = size, !.next = 1,
                                   !.tag = NextTag(a, command), !.answered = FALSE]
           cid == app[a].cid
           t == KnownChannels(cid)
<1>1. /\ app[a] \in States /\ app[a].phase = "idle" /\ cid \in Cids /\ cid # NoCid
      /\ UNCHANGED lastCid
  BY DEF Begin, IInv, TypeOK, States, OwnChannels, NoCid, Cids
<1>2. /\ doing \in States /\ doing.cid = cid /\ doing.tag = NextTag(a, command)
      /\ doing.phase = (IF size <= 1 THEN "sent" ELSE "sending")
      /\ doing.size = size /\ doing.next = 1 /\ ~doing.answered
  <2>1. /\ (IF size <= 1 THEN "sent" ELSE "sending") \in Phases
        /\ 1 \in 0 .. MaxPackets + 1 /\ NextTag(a, command) \in Tags
    BY <1>1, ConstantsAssumption DEF Phases, States, NextTag, Tags
  <2>2. doing \in States
    BY <1>1, <2>1 DEF States
  <2> QED BY <1>1, <2>2 DEF States
<1>3. /\ packet \in Packets /\ packet.app = a /\ packet.cid = cid
      /\ packet = [app |-> a, cid |-> cid, tag |-> doing.tag, place |-> 0]
  <2>1. packet = [app |-> a, cid |-> cid, tag |-> doing.tag, place |-> 0]
    BY <1>2 DEF Packet
  <2>2. doing.tag \in Tags
    BY <1>2 DEF States
  <2> HIDE DEF doing
  <2> QED BY <1>1, <2>1, <2>2, ConstantsAssumption DEF Packets
<1>4. HandleFirst(packet, doing, size)
  BY DEF Begin
<1>5. t \in Tables /\ TableFor(cid, t)
  <2>1. table \in Tables
    BY DEF IInv, TypeOK, Tables
  <2> QED BY <1>1, <2>1, Added DEF KnownChannels, TableFor
<1> HIDE DEF doing, packet
<1>6. Sends(a, packet, doing)
  BY <1>1, <1>2, <1>3 DEF Sends
<1>7. t = KnownChannels(packet.cid)
  BY <1>3
<1> HIDE DEF t
<1>8. CASE Buffering /\ cid = owner
  <2>1. cid_exists(cid, t)
    <3>1. ~Empty
      BY <1>8, Buffers
    <3> QED BY <1>5, <1>8, <3>1 DEF IInv, Message, TableFor
  <2>2. Error(packet, doing, "INVALID_SEQ", t)
    BY <1>3, <1>4, <1>7, <1>8, <2>1 DEF HandleFirst
  <2> QED BY <1>1, <1>3, <1>5, <1>6, <1>8, <2>2, ErrorStep
<1>9. CASE (~cid_exists(cid, t) /\ ~(Buffering /\ cid = owner)) \/ (Buffering /\ cid # owner)
  <2>1. Error(packet, doing, "CHANNEL_BUSY", t)
    BY <1>3, <1>4, <1>7, <1>9 DEF HandleFirst
  <2>2. cid # owner \/ Empty
    BY <1>9, Buffers
  <2> QED BY <1>1, <1>3, <1>5, <1>6, <2>1, <2>2, ErrorStep
<1>10. CASE cid_exists(cid, t) /\ ~Buffering /\ TooLong(size)
  <2>1. Error(packet, doing, "INVALID_LENGTH", t)
    BY <1>3, <1>4, <1>7, <1>10 DEF HandleFirst
  <2>2. Empty
    BY <1>10, Buffers
  <2> QED BY <1>1, <1>3, <1>5, <1>6, <2>1, <2>2, ErrorStep
<1>11. CASE cid_exists(cid, t) /\ ~Buffering /\ ~TooLong(size)
  <2>1. Store(packet, doing, <<packet>>, size, t)
    BY <1>3, <1>4, <1>7, <1>11 DEF HandleFirst
  <2>2. size \in 0 .. MaxPackets
    BY <1>11, ConstantsAssumption DEF TooLong, Sizes
  <2>3. <<packet>> \in Seq(Packets) /\ Len(<<packet>>) = 1
    BY <1>3
  <2>4. SentBy(a, cid, doing.tag, <<packet>>)
    BY <1>3 DEF SentBy
  <2>5. Empty
    BY <1>11, Buffers
  <2>6. CASE size > 1
    <3>1. Len(<<packet>>) < size
      BY <2>2, <2>3, <2>6
    <3>2. doing.phase = "sending" /\ Len(<<packet>>) = doing.next /\ size = doing.size
      BY <1>2, <2>2, <2>3, <2>6
    <3> QED BY <1>1, <1>3, <1>5, <1>6, <1>11, <2>1, <2>2, <2>3, <2>4, <2>5, <3>1, <3>2,
               IncompleteStep
  <2>7. CASE ~(size > 1)
    <3>1. Len(<<packet>>) >= size /\ Len(<<packet>>) <= Max({1, size})
      BY <2>2, <2>3, <2>7, MaxSize
    <3>2. doing.phase = "sent"
      BY <1>2, <2>2, <2>7
    <3> QED BY <1>1, <1>3, <1>5, <1>6, <1>11, <2>1, <2>2, <2>3, <2>4, <2>5, <3>1, <3>2,
               CompleteStep
  <2> QED BY <2>6, <2>7
<1> QED BY <1>8, <1>9, <1>10, <1>11

LEMMA ContinueStep ==
  ASSUME IInv, NEW a \in Apps, NEW place \in 1 .. MaxPackets, Continue(a, place)
  PROVE  IInv'
<1> DEFINE packet == Packet(a, place, app[a].tag)
           doing == [app[a] EXCEPT !.phase = IF place + 1 = app[a].size THEN "sent"
                                             ELSE "sending",
                                   !.next = place + 1]
           cid == app[a].cid
<1>1. /\ app[a] \in States /\ app[a].phase = "sending" /\ cid \in Cids /\ cid # NoCid
      /\ place \in {app[a].next, app[a].next + 1} /\ place < app[a].size
      /\ UNCHANGED lastCid
  BY DEF Continue, IInv, TypeOK, States, OwnChannels, NoCid, Cids
<1>2. /\ doing \in States /\ doing.cid = cid /\ doing.tag = app[a].tag
      /\ doing.phase = (IF place + 1 = app[a].size THEN "sent" ELSE "sending")
      /\ doing.size = app[a].size /\ doing.next = place + 1
      /\ doing.answered = app[a].answered
  <2>1. /\ (IF place + 1 = app[a].size THEN "sent" ELSE "sending") \in Phases
        /\ place + 1 \in 0 .. MaxPackets + 1
    BY ConstantsAssumption DEF Phases
  <2>2. doing \in States
    BY <1>1, <2>1 DEF States
  <2> QED BY <1>1, <2>2 DEF States
<1>3. /\ packet \in Packets /\ packet.app = a /\ packet.cid = cid
      /\ packet.place = place
      /\ packet = [app |-> a, cid |-> cid, tag |-> doing.tag, place |-> place]
  BY <1>1, <1>2, ConstantsAssumption DEF Packet, Packets, States
<1>4. HandleCont(packet, doing)
  BY DEF Continue
<1>5. TableFor(cid, table)
  BY DEF IInv, TypeOK, Tables, TableFor
<1> HIDE DEF doing, packet
<1>6. Sends(a, packet, doing)
  BY <1>1, <1>2, <1>3 DEF Sends
<1>7. CASE ~Takes(cid)
  <2>1. Ignore(packet, doing)
    BY <1>3, <1>4, <1>7 DEF HandleCont
  <2>2. /\ app' = [app EXCEPT ![a] = doing]
        /\ UNCHANGED <<table, owner, length, got, whole, left>>
    BY <1>3, <2>1 DEF Ignore, Silent, buffer
  <2>3. ~app[a].answered => cid \in left
    BY <1>1, <1>7 DEF IInv, Progress, Waiting, Waits, Cancelled, Message, Takes
  <2>4. Waiting(a)'
    <3>1. app'[a] = doing
      BY <2>2 DEF IInv, TypeOK
    <3> QED BY <1>2, <2>2, <2>3, <3>1 DEF Waiting, Waits
  <2> QED BY <1>1, <1>2, <2>2, <2>4, QuietStep
<1>8. CASE Takes(cid) /\ place # Len(got)
  <2>1. Error(packet, doing, "INVALID_SEQ", table)
    BY <1>3, <1>4, <1>8 DEF HandleCont
  <2> QED BY <1>1, <1>3, <1>5, <1>6, <1>8, <2>1, ErrorStep DEF Takes
<1>9. CASE Takes(cid) /\ place = Len(got)
  <2>1. Store(packet, doing, Append(got, packet), length, table)
    BY <1>3, <1>4, <1>9 DEF HandleCont
  <2>2. cid = owner /\ cid_exists(cid, table) /\ ~Empty
    BY <1>9 DEF Takes
  <2>3. /\ got \in Seq(Packets) /\ length \in 0 .. MaxPackets /\ Len(got) < length
    BY <2>2, Buffers DEF IInv, TypeOK, Buffering
  <2>4. /\ Append(got, packet) \in Seq(Packets)
        /\ Len(Append(got, packet)) = place + 1
    BY <1>3, <1>9, <2>3
  <2>5. SentBy(a, cid, doing.tag, Append(got, packet))
    <3>1. SentBy(a, cid, doing.tag, got)
      BY <1>1, <1>2, <2>2 DEF IInv, Message
    <3> QED BY <1>3, <1>9, <2>3, <3>1 DEF SentBy
  <2>6. ~app[a].answered => Len(got) = app[a].next /\ length = app[a].size
    <3>1. cid \notin left
      BY <2>2 DEF IInv, Message
    <3> QED BY <1>1, <3>1 DEF IInv, Progress, Waiting, Waits, Cancelled
  <2>7. CASE place + 1 < length
    <3>1. Len(Append(got, packet)) < length
      BY <2>4, <2>7
    <3>2. Waits(doing) =>
            doing.phase = "sending" /\ Len(Append(got, packet)) = doing.next
            /\ length = doing.size
      BY <1>2, <2>4, <2>6, <2>7 DEF Waits
    <3> QED BY <1>1, <1>3, <1>5, <1>6, <2>1, <2>2, <2>3, <2>4, <2>5, <3>1, <3>2,
               IncompleteStep
  <2>8. CASE ~(place + 1 < length)
    <3>1. /\ Len(Append(got, packet)) >= length
          /\ Len(Append(got, packet)) <= Max({1, length})
      BY <1>9, <2>3, <2>4, <2>8, MaxSize
    <3>2. doing.phase = "sent" \/ doing.answered
      BY <1>1, <1>2, <1>9, <2>3, <2>6, <2>8
    <3> QED BY <1>1, <1>3, <1>5, <1>6, <2>1, <2>2, <2>3, <2>4, <2>5, <3>1, <3>2,
               CompleteStep
  <2> QED BY <2>7, <2>8
<1> QED BY <1>7, <1>8, <1>9

LEMMA ConnectStep ==
  ASSUME IInv, NEW a \in Apps, Connect(a)
  PROVE  IInv'
<1> DEFINE cid == lastCid + 1
           x == [app[a] EXCEPT !.phase = "idle", !.cid = cid]
<1>1. /\ lastCid \in 0 .. MaxCid /\ lastCid < MaxCid /\ lastCid' = cid
      /\ app \in [Apps -> States]
  BY DEF Connect, IInv, TypeOK, States
<1>2. cid \in Cids /\ HandleInit(cid) /\ lastCid' \in 0 .. MaxCid
      /\ lastCid <= lastCid' /\ cid <= lastCid'
  BY <1>1, ConstantsAssumption DEF Connect, Cids
<1>3. app' = [app EXCEPT ![a] = x] \/ app' = app
  BY <1>1 DEF Connect
<1>4. x \in States /\ x.phase = "idle" /\ x.cid = cid
  BY <1>1, <1>2 DEF States, Phases
<1> HIDE DEF x
<1>5. app' \in [Apps -> States]
  BY <1>1, <1>3, <1>4
<1>6. \A b \in Apps : app[b].cid \in Int /\ app[b].cid <= lastCid /\ app[b].cid # cid
  BY <1>1 DEF IInv, OwnChannels, States, Cids, NoCid
<1>7. \A b \in Apps : app'[b] = app[b] \/ (b = a /\ app'[b] = x)
  BY <1>1, <1>3
<1>8. OwnChannels'
  <2>1. cid # NoCid
    BY <1>1 DEF NoCid
  <2> QED BY <1>1, <1>2, <1>4, <1>6, <1>7, <2>1 DEF IInv, OwnChannels
<1> QED BY <1>2, <1>4, <1>5, <1>6, <1>7, <1>8, InitStep

LEMMA Idles ==
  ASSUME IInv, NEW a \in Apps, app[a].phase # "closed"
  PROVE  /\ Idle(a) \in States /\ Idle(a).phase = "idle" /\ Idle(a).cid = app[a].cid
         /\ app[a].cid \in Cids /\ app[a].cid # NoCid
<1>1. app[a] \in States /\ app[a].cid # NoCid
  BY DEF IInv, TypeOK, States, OwnChannels
<1>2. 0 \in Sizes /\ 0 \in 0 .. MaxPackets + 1 /\ "idle" \in Phases
  BY ConstantsAssumption DEF Sizes, Phases
<1>3. [app[a].tag EXCEPT !.command = "other"] \in Tags
  BY <1>1 DEF States, Tags, Commands
<1>4. Idle(a) \in States
  BY <1>1, <1>2, <1>3 DEF Idle, States
<1> QED BY <1>1, <1>4 DEF Idle, States

LEMMA ResyncStep ==
  ASSUME IInv, NEW a \in Apps, Resync(a)
  PROVE  IInv'
<1>1. /\ app[a].phase # "closed" /\ HandleInit(app[a].cid)
      /\ app' = [app EXCEPT ![a] = Idle(a)] /\ UNCHANGED lastCid
  BY DEF Resync, Silent
<1>2. /\ Idle(a) \in States /\ Idle(a).phase = "idle" /\ Idle(a).cid = app[a].cid
      /\ app[a].cid \in Cids /\ app[a].cid # NoCid
  BY <1>1, Idles
<1>3. TypeOK /\ OwnChannels
  BY DEF IInv
<1>4. /\ app' \in [Apps -> States] /\ OwnChannels'
      /\ app'[a] = Idle(a) /\ \A b \in Apps : b # a => app'[b] = app[b]
      /\ \A b \in Apps : b # a /\ app[b].phase # "closed" => app[b].cid # app[a].cid
  BY <1>1, <1>2, <1>3, AppStep
<1>5. \A b \in Apps : b # a => app[b].cid # app[a].cid
  BY <1>2, <1>4 DEF IInv, OwnChannels
<1>6. lastCid' \in 0 .. MaxCid /\ lastCid <= lastCid' /\ app[a].cid <= lastCid'
  BY <1>1 DEF IInv, TypeOK, OwnChannels
<1> QED BY <1>1, <1>2, <1>4, <1>5, <1>6, InitStep

LEMMA BadResyncStep ==
  ASSUME IInv, NEW a \in Apps, BadResync(a)
  PROVE  IInv'
<1> DEFINE packet == Packet(a, 0, NoTag)
<1>1. /\ app[a].phase # "closed" /\ UNCHANGED lastCid
      /\ Error(packet, Idle(a), "INVALID_LENGTH", table)
  BY DEF BadResync
<1>2. /\ Idle(a) \in States /\ Idle(a).phase = "idle" /\ Idle(a).cid = app[a].cid
      /\ app[a].cid \in Cids
  BY <1>1, Idles
<1>3. packet \in Packets /\ packet.app = a /\ packet.cid = app[a].cid
  BY <1>2, ConstantsAssumption DEF Packet, Packets, NoTag, Tags, Commands
<1>4. TableFor(app[a].cid, table)
  BY DEF IInv, TypeOK, Tables, TableFor
<1> HIDE DEF packet
<1>5. Sends(a, packet, Idle(a))
  BY <1>2, <1>3 DEF Sends
<1> QED BY <1>1, <1>2, <1>3, <1>4, <1>5, ErrorStep

LEMMA ReadStep ==
  ASSUME IInv, NEW a \in Apps, Read(a)
  PROVE  IInv'
<1>1. /\ app[a].phase # "closed" /\ app' = [app EXCEPT ![a] = Idle(a)]
      /\ UNCHANGED <<table, lastCid, owner, length, got, whole, left>>
  BY DEF Read, Silent, buffer
<1>2. /\ Idle(a) \in States /\ Idle(a).phase = "idle" /\ Idle(a).cid = app[a].cid
  BY <1>1, Idles
<1>3. app'[a] = Idle(a)
  BY <1>1 DEF IInv, TypeOK
<1>4. Waiting(a)'
  BY <1>2, <1>3 DEF Waiting, Waits
<1> QED BY <1>1, <1>2, <1>4, QuietStep

LEMMA ClosedState == Closed \in States /\ Closed.phase = "closed" /\ Closed.cid = NoCid
<1>1. 0 \in Sizes /\ 0 \in 0 .. MaxPackets + 1 /\ "closed" \in Phases
  BY ConstantsAssumption DEF Sizes, Phases
<1>2. NoTag \in Tags
  BY DEF NoTag, Tags, Commands
<1> QED BY <1>1, <1>2 DEF Closed, States

LEMMA StopStep ==
  ASSUME IInv, NEW a \in Apps, Stop(a)
  PROVE  IInv'
<1>1. /\ app' = [app EXCEPT ![a] = Closed]
      /\ UNCHANGED <<table, lastCid, owner, length, got, whole, left>>
  BY DEF Stop, Silent, buffer
<1>2. app'[a] = Closed
  BY <1>1 DEF IInv, TypeOK
<1>3. Waiting(a)'
  BY <1>2, ClosedState DEF Waiting, Waits
<1> QED BY <1>1, <1>3, ClosedState, QuietStep

LEMMA InitIInv == Init => IInv
<1> SUFFICES ASSUME Init PROVE IInv
  OBVIOUS
<1>1. TypeOK
  <2>1. Closed \in States
    BY ClosedState
  <2>2. << >> \in Seq(Packets)
    OBVIOUS
  <2> QED BY <2>1, <2>2, ConstantsAssumption DEF Init, TypeOK, States
<1>2. \A a \in Apps : app[a].cid = NoCid /\ app[a].phase = "closed"
  BY DEF Init, Closed
<1>3. OwnChannels /\ OldChannels
  BY <1>2 DEF Init, OwnChannels, OldChannels, NoCid
<1>4. WholeMessages /\ Message /\ ChannelsFreed
  BY DEF Init, WholeMessages, Message, Empty, ChannelsFreed
<1>5. Progress
  BY <1>2 DEF Progress, Waiting, Waits
<1> QED BY <1>1, <1>3, <1>4, <1>5 DEF IInv

LEMMA StepIInv == IInv /\ [Next]_vars => IInv'
<1> SUFFICES ASSUME IInv, [Next]_vars PROVE IInv'
  OBVIOUS
<1>1. CASE UNCHANGED vars
  <2>1. UNCHANGED <<table, lastCid, owner, length, got, whole, app, left>>
    BY <1>1 DEF vars, buffer
  <2>2. TypeOK' /\ WholeMessages' /\ OwnChannels' /\ OldChannels' /\ ChannelsFreed'
    BY <2>1 DEF IInv, TypeOK, WholeMessages, OwnChannels, OldChannels, ChannelsFreed,
                Buffering
  <2>3. Message' /\ Progress'
    BY <2>1 DEF IInv, Message, Progress, Waiting, Empty, Buffering
  <2> QED BY <2>2, <2>3 DEF IInv
<1>2. CASE Next
  <2> PICK a \in Apps :
        \/ Connect(a) \/ Resync(a) \/ BadResync(a) \/ Read(a) \/ Stop(a)
        \/ \E size \in Sizes, command \in Commands : Begin(a, size, command)
        \/ \E place \in 1 .. MaxPackets : Continue(a, place)
    BY <1>2 DEF Next
  <2> QED BY ConnectStep, ResyncStep, BadResyncStep, ReadStep, StopStep, BeginStep,
             ContinueStep
<1> QED BY <1>1, <1>2

\* The variables keep their types: the buffer never takes more packets than it has
\* room for, and the table no entry past its end.
THEOREM SpecTypeOK == Spec => []TypeOK
<1>1. IInv => TypeOK
  BY DEF IInv
<1> QED BY InitIInv, StepIInv, <1>1, PTL DEF Spec

\* Every message that is executed is all the packets of one message of one
\* application, in order, however many applications send at once, and wherever they
\* stop, lose a packet or resynchronize.
THEOREM SpecWholeMessages == Spec => []WholeMessages
<1>1. IInv => WholeMessages
  BY DEF IInv
<1> QED BY InitIInv, StepIInv, <1>1, PTL DEF Spec

\* No message is lost in silence: who has sent all of one has an answer or an error,
\* unless it was a CTAPHID_CANCEL, which gets none, or another's INIT removed it.
THEOREM SpecNoSilence == Spec => []NoSilence
<1>1. IInv => NoSilence
  BY DEF IInv, Progress, Waiting, Waits, Cancelled, NoSilence
<1> QED BY InitIInv, StepIInv, <1>1, PTL DEF Spec

\* The channel of the message in the buffer stays in the table: its packets are never
\* taken for those of an unknown channel.
THEOREM SpecOwnerKnown == Spec => []OwnerKnown
<1>1. IInv => OwnerKnown
  BY Buffers DEF IInv, Message, OwnerKnown
<1> QED BY InitIInv, StepIInv, <1>1, PTL DEF Spec

\* A channel is busy only for the message in the buffer, or after one that was left
\* without an error.
THEOREM SpecChannelsFreed == Spec => []ChannelsFreed
<1>1. IInv => ChannelsFreed
  BY DEF IInv
<1> QED BY InitIInv, StepIInv, <1>1, PTL DEF Spec
=============================================================================
