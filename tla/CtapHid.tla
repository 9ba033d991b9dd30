-------------------------------- MODULE CtapHid --------------------------------
(***************************************************************************)
(* CTAPHID in the aux MCU (fido2/ctaphid.c): the channels that             *)
(* applications on a computer share one FIDO2 interface with, and the one  *)
(* buffer in which the packets of a message are put together.  A packet is *)
(* handled, and its message executed, before the next one is received.     *)
(***************************************************************************)
EXTENDS Integers, Sequences, FiniteSetsExt

CONSTANTS
  Apps,        \* the applications on the computer
  Slots,       \* the entries of CIDS that are used: CID_MAX - 1
  MaxPackets,  \* of a message that fits into the buffer
  MaxCid       \* bound: the channels given out

ASSUME ConstantsAssumption ==
  Slots \in Nat \ {0} /\ MaxPackets \in Nat \ {0} /\ MaxCid \in Nat

VARIABLES
  table,     \* CIDS: the channel of each entry, and whether it is busy
  lastCid,   \* of get_new_cid
  owner,     \* ctap_buffer_cid
  length,    \* ctap_buffer_bcnt, in packets
  got,       \* the pieces in ctap_buffer
  whole,     \* history: each message executed was whole
  app,       \* what each application is doing
  left       \* history: the channels whose message was not executed and got no error
             \* that frees them: an INIT removed it, or it was an empty CBOR message

buffer == <<owner, length, got>>
vars == <<table, lastCid, buffer, whole, app, left>>

NoCid == 0
Cids == 1 .. MaxCid
Sizes == 0 .. MaxPackets + 1

\* CTAPHID_CBOR, CTAPHID_CANCEL, or another.  The tag of a packet says which message
\* it is of: its command, and a bit that differs from the last one's.
Commands == {"cbor", "cancel", "other"}
Tags == [command : Commands, odd : BOOLEAN]
Packets == [app : Apps, cid : Cids, tag : Tags, place : 0 .. MaxPackets]

\* An application has a channel or none.  It knows the number of packets of its
\* message, which one it sends next, and whether an answer or an error has come.
Phases == {"closed", "idle", "sending", "sent"}
NoTag == [command |-> "other", odd |-> FALSE]
Closed == [phase |-> "closed", cid |-> NoCid, size |-> 0, next |-> 0, tag |-> NoTag,
           answered |-> FALSE]

Init ==
  /\ table = [i \in 1 .. Slots |-> [cid |-> NoCid, busy |-> FALSE]]
  /\ lastCid = 0
  /\ owner = NoCid /\ length = 0 /\ got = << >>
  /\ whole = TRUE
  /\ app = [a \in Apps |-> Closed]
  /\ left = {}

-----------------------------------------------------------------------------
(* The table of channels.  An entry that is not busy keeps its channel      *)
(* until add_cid takes it.                                                  *)

SlotsOf(cid, t) == {i \in 1 .. Slots : t[i].cid = cid}
FreeSlots(t) == {i \in 1 .. Slots : ~t[i].busy}

cid_exists(cid, t) == SlotsOf(cid, t) # {}

add_cid(cid, t) ==
  IF FreeSlots(t) = {} THEN t
  ELSE [t EXCEPT ![Min(FreeSlots(t))] = [cid |-> cid, busy |-> TRUE]]

cid_refresh(cid, t) == [t EXCEPT ![Min(SlotsOf(cid, t))].busy = TRUE]

\* Mutant: the entry stays busy.
cid_delNone(cid, t) == t
cid_del(cid, t) ==
  [i \in 1 .. Slots |-> IF t[i].cid = cid THEN [t[i] EXCEPT !.busy = FALSE] ELSE t[i]]

-----------------------------------------------------------------------------
(* The buffer, and what becomes of a packet.  A message of length 0 leaves  *)
(* the buffer empty; a complete one is executed at once.                    *)

Empty == length = 0
Buffering == Len(got) < length
buffer_reset == owner' = NoCid /\ length' = 0 /\ got' = << >>

\* What application a has done, and whether it gets an answer for it.
Answer(a, doing) ==
  app' = [app EXCEPT ![a] = [doing EXCEPT !.answered = doing.phase # "idle"]]
Silent(a, doing) == app' = [app EXCEPT ![a] = doing]

Ignore(packet, doing) ==
  Silent(packet.app, doing) /\ UNCHANGED <<table, buffer, whole, left>>

\* Mutant: the buffer is reset whatever the error.
KeepsBufferNever(error) == FALSE
KeepsBuffer(error) == error # "INVALID_SEQ"

Error(packet, doing, error, t) ==
  /\ table' = cid_del(packet.cid, t)
  /\ IF KeepsBuffer(error) THEN UNCHANGED buffer ELSE buffer_reset
  /\ left' = left \ {packet.cid}
  /\ Answer(packet.app, doing)
  /\ UNCHANGED whole

\* All the packets of one message of one application, in order.
Whole(pieces, size) ==
  /\ Len(pieces) = Max({1, size})
  /\ \A i \in 1 .. Len(pieces) : pieces[i] = [pieces[1] EXCEPT !.place = i - 1]

\* A CBOR message without a payload is refused, and its channel stays busy.
EmptyCbor(command, size) == command = "cbor" /\ size = 0

\* A CTAPHID_CANCEL is executed without a word.
IsCancel(command) == command = "cancel"

Execute(packet, doing, pieces, size) ==
  LET command == pieces[1].tag.command
  IN /\ whole' = (whole /\ Whole(pieces, size))
     /\ IF IsCancel(command) THEN Silent(packet.app, doing) ELSE Answer(packet.app, doing)
     /\ IF EmptyCbor(command, size)
        THEN /\ owner' = packet.cid /\ length' = 0 /\ got' = pieces
             /\ left' = left \cup {packet.cid}
        ELSE /\ buffer_reset
             /\ left' = left \ {packet.cid}

\* buffer_packet and cid_refresh, and the execution of a complete message.
Store(packet, doing, pieces, size, t) ==
  IF Len(pieces) >= size
  THEN /\ Execute(packet, doing, pieces, size)
       /\ table' = IF EmptyCbor(pieces[1].tag.command, size) THEN cid_refresh(packet.cid, t)
                   ELSE cid_del(packet.cid, t)
  ELSE /\ table' = cid_refresh(packet.cid, t)
       /\ owner' = packet.cid /\ length' = size /\ got' = pieces
       /\ left' = left \ {packet.cid}
       /\ Silent(packet.app, doing)
       /\ UNCHANGED whole

InitAccepted(cid) == cid_exists(cid, table) \/ FreeSlots(table) # {}

\* CTAPHID_INIT of the right length; the broadcast one brings a new channel.
\* ctaphid_init resets the buffer, whoever has a message in it.
HandleInit(cid) ==
  /\ table' = cid_del(cid, IF cid_exists(cid, table) THEN table ELSE add_cid(cid, table))
  /\ buffer_reset
  /\ left' = (left \cup (IF Buffering THEN {owner} ELSE {})) \ {cid}
  /\ UNCHANGED whole

\* The first packet of a message.
\* Mutant: a message of any length is put together.
TooLongNever(size) == FALSE
TooLong(size) == size > MaxPackets

KnownChannels(cid) ==
  IF ~cid_exists(cid, table) /\ Empty THEN add_cid(cid, table) ELSE table

HandleFirst(packet, doing, size) ==
  LET t == KnownChannels(packet.cid)
      known == cid_exists(packet.cid, t)
  IN CASE known /\ Buffering /\ packet.cid = owner -> Error(packet, doing, "INVALID_SEQ", t)
       [] ~known \/ (Buffering /\ packet.cid # owner) ->
            Error(packet, doing, "CHANNEL_BUSY", t)
       [] known /\ ~Buffering /\ TooLong(size) -> Error(packet, doing, "INVALID_LENGTH", t)
       [] OTHER -> Store(packet, doing, <<packet>>, size, t)

\* Mutant: a packet of another channel is taken.
TakesAny(cid) == cid_exists(cid, table) /\ ~Empty
Takes(cid) == cid_exists(cid, table) /\ ~Empty /\ cid = owner

HandleCont(packet, doing) ==
  CASE ~Takes(packet.cid) -> Ignore(packet, doing)
    [] Takes(packet.cid) /\ packet.place # Len(got) ->
         Error(packet, doing, "INVALID_SEQ", table)
    [] OTHER -> Store(packet, doing, Append(got, packet), length, table)

-----------------------------------------------------------------------------
(* The applications.  Each packet is handled as it is sent.                 *)

Packet(a, place, tag) == [app |-> a, cid |-> app[a].cid, tag |-> tag, place |-> place]

\* A broadcast INIT gets a new channel, or an error, and the application tries again.
Connect(a) ==
  /\ app[a].phase = "closed" /\ lastCid < MaxCid
  /\ lastCid' = lastCid + 1
  /\ HandleInit(lastCid + 1)
  /\ app' = IF InitAccepted(lastCid + 1)
            THEN [app EXCEPT ![a].phase = "idle", ![a].cid = lastCid + 1]
            ELSE app

\* INIT on its own channel, in the midst of a message or not: it gives that up.
Idle(a) == [app[a] EXCEPT !.phase = "idle", !.size = 0, !.next = 0,
                         !.tag.command = "other", !.answered = FALSE]

Resync(a) ==
  /\ app[a].phase # "closed"
  /\ HandleInit(app[a].cid)
  /\ Silent(a, Idle(a))
  /\ UNCHANGED lastCid

\* The same with a wrong length, which is an error that leaves the buffer alone.
BadResync(a) ==
  /\ app[a].phase # "closed"
  /\ Error(Packet(a, 0, NoTag), Idle(a), "INVALID_LENGTH", table)
  /\ UNCHANGED lastCid

NextTag(a, command) == [command |-> command, odd |-> ~app[a].tag.odd]

Begin(a, size, command) ==
  /\ app[a].phase = "idle"
  /\ HandleFirst(Packet(a, 0, NextTag(a, command)),
                 [app[a] EXCEPT !.phase = IF size <= 1 THEN "sent" ELSE "sending",
                                !.size = size, !.next = 1,
                                !.tag = NextTag(a, command), !.answered = FALSE],
                 size)
  /\ UNCHANGED lastCid

\* The next packet, or the one after it if the application lost one.
Continue(a, place) ==
  /\ app[a].phase = "sending"
  /\ place \in {app[a].next, app[a].next + 1} /\ place < app[a].size
  /\ HandleCont(Packet(a, place, app[a].tag),
                [app[a] EXCEPT !.phase = IF place + 1 = app[a].size THEN "sent" ELSE "sending",
                               !.next = place + 1])
  /\ UNCHANGED lastCid

\* It has read the answer or the error, or waits for none.
Cancelled(doing) == doing.phase = "sent" /\ IsCancel(doing.tag.command)

Read(a) ==
  /\ app[a].phase \in {"sending", "sent"}
  /\ app[a].answered \/ Cancelled(app[a])
  /\ Silent(a, Idle(a))
  /\ UNCHANGED <<table, lastCid, buffer, whole, left>>

Stop(a) ==
  /\ app[a].phase # "closed"
  /\ Silent(a, Closed)
  /\ UNCHANGED <<table, lastCid, buffer, whole, left>>

Next ==
  \E a \in Apps :
    \/ Connect(a) \/ Resync(a) \/ BadResync(a) \/ Read(a) \/ Stop(a)
    \/ \E size \in Sizes, command \in Commands : Begin(a, size, command)
    \/ \E place \in 1 .. MaxPackets : Continue(a, place)

Spec == Init /\ [][Next]_vars

-----------------------------------------------------------------------------
TypeOK ==
  /\ table \in [1 .. Slots -> [cid : Cids \cup {NoCid}, busy : BOOLEAN]]
  /\ lastCid \in 0 .. MaxCid
  /\ owner \in Cids \cup {NoCid} /\ length \in 0 .. MaxPackets
  /\ got \in Seq(Packets) /\ whole \in BOOLEAN
  /\ app \in [Apps -> [phase : Phases, cid : Cids \cup {NoCid}, size : Sizes,
                       next : 0 .. MaxPackets + 1, tag : Tags, answered : BOOLEAN]]
  /\ left \subseteq Cids

\* However the packets of several applications follow each other, and wherever one is
\* stopped, resynchronizes or loses a packet, what is executed is all the packets of
\* one message of one of them, in order.
WholeMessages == whole

\* The channel whose message is put together is in the table: without it its packets
\* would be ignored, and those of the others refused.
OwnerKnown == Buffering => cid_exists(owner, table)

\* Who has sent a whole message gets an answer or an error, unless it was a
\* CTAPHID_CANCEL, which never gets one, or the INIT of another application removed
\* the message from the buffer.
NoSilence ==
  \A a \in Apps :
    app[a].phase = "sent" /\ ~app[a].answered /\ ~IsCancel(app[a].tag.command)
      => app[a].cid \in left

\* A channel is busy, and its entry taken, only while its message is put together or
\* after one that was left.
ChannelsFreed ==
  \A i \in 1 .. Slots :
    table[i].busy => (Buffering /\ table[i].cid = owner) \/ table[i].cid \in left

\* Some entry is free, or taken for a message that is being put together: channels do
\* not run out.
ChannelsRemain ==
  \E i \in 1 .. Slots : ~table[i].busy \/ (Buffering /\ table[i].cid = owner)
=============================================================================
