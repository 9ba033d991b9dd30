------------------------------ MODULE HidPackets ------------------------------
(***************************************************************************)
(* The messages of a host on their way to the main MCU: cut into packets   *)
(* by the host, received and put together again by the aux MCU             *)
(* (comms_raw_hid.c), and transferred to the main MCU out of the very      *)
(* buffer they are put together in.  The host is that of                   *)
(* scripts/python_framework/generic_hid_device.py: it may be stopped at    *)
(* any packet and started again.                                           *)
(***************************************************************************)
EXTENDS Sequences, Integers

CONSTANTS
  MaxPackets,   \* of one message
  MaxMessages,  \* bound: of all hosts
  Interface,    \* "USB", which receives one packet at a time, or "BLE"
  Waits,        \* the host waits for the answer before its next message
  LateResets    \* the bus may be reset again in the last instructions of the handling
                \* of an enumeration

ASSUME InterfaceAssumption ==
  /\ MaxPackets \in Nat \ {0} /\ MaxMessages \in Nat
  /\ Interface \in {"USB", "BLE"} /\ Waits \in BOOLEAN /\ LateResets \in BOOLEAN

VARIABLES
  host,      \* "closed", "opening" or "open"
  first,     \* the number of the first message of this host
  current,   \* the number, kind, last packet and flip bit of its current message
  next,      \* the packet it sends next
  answered,  \* the messages that were answered
  buf,       \* raw_hid_recv_buffer
  received,  \* comms_raw_hid_packet_received
  armed,     \* the endpoint receives into buf
  justEnum,  \* comms_usb_just_enumerated
  flip,      \* comms_raw_hid_expect_flip_bit_state_set
  expected,  \* comms_raw_hid_expected_packet_number
  total,     \* comms_raw_hid_total_expected_packets
  fill,      \* the pieces up to comms_raw_hid_temp_mcu_message_fill_index
  pc,        \* "idle", "forward" for a complete message that waits for the DMA, or
             \* "clear" between the two ends of the handling of an enumeration
  ready,     \* the pieces of the complete message
  sending,   \* the transfer to the main MCU: "no", "payload", or "rest" when the
             \* payload is out
  outgoing,  \* the pieces of the message transferred last
  torn,      \* the buffer changed before its payload was out
  taken,     \* the main MCU has the message
  stale,     \* history: a bus reset found a packet that was received and not handled,
             \* and no reset packet was handled since
  delivered  \* history: what the main MCU got

hostVars == <<host, first, current, next>>
assembly == <<flip, expected, total, fill>>
transfer == <<sending, outgoing, torn, taken, delivered>>
vars == <<hostVars, answered, buf, received, armed, justEnum, assembly, pc, ready,
          transfer, stale>>

Kinds == {"command", "status"}   \* "status" for HID_CMD_GET_DEVICE_STATUS
Pieces == [message : 1 .. MaxMessages, kind : Kinds, id : 0 .. MaxPackets - 1,
           last : 0 .. MaxPackets - 1, flip : BOOLEAN]
Reset == [reset |-> TRUE]
IsReset(packet) == "reset" \in DOMAIN packet

\* All the pieces of one message, in order.
Whole(pieces) ==
  /\ Len(pieces) = pieces[1].last + 1
  /\ \A i \in 1 .. Len(pieces) :
       pieces[i].id = i - 1 /\ pieces[i].message = pieces[1].message

\* What comms_raw_hid_connection_set_callback leaves, and the reset packet too.
\* Mutant: the flip bit is kept.
FreshFlipKept == flip
FreshFlip == FALSE

Init ==
  /\ host = "closed" /\ first = 1 /\ answered = {} /\ next = 1
  /\ current = [message |-> 0, kind |-> "status", last |-> 0, flip |-> TRUE]
  /\ buf = Reset /\ received = FALSE
  /\ armed = (Interface = "USB") /\ justEnum = FALSE
  /\ flip = FALSE /\ expected = 0 /\ total = 0 /\ fill = << >>
  /\ pc = "idle" /\ ready = << >> /\ sending = "no" /\ outgoing = << >>
  /\ torn = FALSE /\ taken = TRUE /\ delivered = << >> /\ stale = FALSE

-----------------------------------------------------------------------------
(* The host.                                                                *)

AllSent == next > current.last

\* connect: the packet that resets the flip bit, and then a ping
Open ==
  /\ host = "closed"
  /\ host' = "opening"
  /\ UNCHANGED <<first, current, next, answered, buf, received, armed, justEnum,
                 assembly, pc, ready, transfer, stale>>

Stop ==
  /\ host # "closed"
  /\ host' = "closed" /\ first' = current.message + 1
  /\ UNCHANGED <<current, next, answered, buf, received, armed, justEnum, assembly, pc,
                 ready, transfer, stale>>

\* get_packets_from_message; the request of the status is one packet.
Begin(kind, last) ==
  /\ host = "open" /\ AllSent /\ current.message < MaxMessages
  /\ kind = "status" => last = 0
  /\ Waits /\ current.message >= first => current.message \in answered
  /\ current' = [message |-> current.message + 1, kind |-> kind, last |-> last,
                 flip |-> ~current.flip]
  /\ next' = 0
  /\ UNCHANGED <<host, first, answered, buf, received, armed, justEnum, assembly,
                 pc, ready, transfer, stale>>

\* comms_raw_hid_recv_callback.  USB holds a packet back until the endpoint is armed;
\* Bluetooth copies it into the buffer at once.
Receive(packet) ==
  /\ Interface = "USB" => armed
  /\ buf' = packet /\ received' = TRUE /\ armed' = FALSE

SendReset ==
  /\ host = "opening"
  /\ Receive(Reset)
  /\ host' = "open" /\ current' = [current EXCEPT !.flip = TRUE]
  /\ next' = current.last + 1
  /\ UNCHANGED <<first, answered, justEnum, assembly, pc, ready, transfer, stale>>

Send ==
  /\ host = "open" /\ ~AllSent
  /\ Receive([message |-> current.message, kind |-> current.kind, id |-> next,
              last |-> current.last, flip |-> current.flip])
  /\ next' = next + 1
  /\ UNCHANGED <<host, first, current, answered, justEnum, assembly, pc, ready,
                 transfer, stale>>

\* The USB interrupt: a bus reset and a new configuration, with the host closed.  A
\* packet that was received and not handled yet stays.
SetConfiguration ==
  /\ Interface = "USB" /\ host = "closed"
  /\ ~justEnum \/ (LateResets /\ pc = "clear")
  /\ justEnum' = TRUE /\ armed' = FALSE
  /\ flip' = FALSE /\ expected' = 0 /\ fill' = << >>
  /\ stale' = (stale \/ received)
  /\ UNCHANGED <<hostVars, answered, buf, received, total, pc, ready, transfer>>

-----------------------------------------------------------------------------
(* The aux MCU: comms_usb_communication_routine.                            *)

\* The main MCU is told, the endpoint armed; only then is the flag cleared.
Enumerated ==
  /\ pc = "idle" /\ justEnum
  /\ pc' = "clear" /\ armed' = TRUE
  /\ UNCHANGED <<hostVars, answered, buf, received, justEnum, assembly, ready,
                 transfer, stale>>

EnumeratedDone ==
  /\ pc = "clear"
  /\ pc' = "idle" /\ justEnum' = FALSE
  /\ UNCHANGED <<hostVars, answered, buf, received, armed, assembly, ready,
                 transfer, stale>>

\* The routine handles an enumeration before a packet; a bus reset in the few
\* instructions from the one test to the other is left out.
TakePacket ==
  /\ pc = "idle" /\ received /\ ~justEnum
  /\ received' = FALSE

Rearm == armed' = (Interface = "USB")

HandleReset ==
  /\ TakePacket /\ IsReset(buf)
  /\ flip' = FreshFlip /\ expected' = 0 /\ fill' = << >>
  /\ stale' = FALSE
  /\ Rearm
  /\ UNCHANGED <<hostVars, answered, buf, justEnum, total, pc, ready, transfer>>

\* Any number will do for the first packet.
Unexpected(packet) ==
  \/ packet.flip # flip
  \/ expected # 0 /\ packet.id # expected
  \/ packet.id # 0 /\ Len(fill) >= MaxPackets

Drop ==
  /\ TakePacket /\ ~IsReset(buf) /\ Unexpected(buf)
  /\ expected' = 0 /\ fill' = << >>
  /\ Rearm
  /\ UNCHANGED <<hostVars, answered, buf, justEnum, flip, total, pc, ready,
                 transfer, stale>>

\* The packets of the message: stored with packet 0, kept from then on.
\* Mutant: only the first message stores it.
TotalAfterOnce(packet) == IF packet.id = 0 /\ total = 0 THEN packet.last ELSE total
TotalAfter(packet) == IF packet.id = 0 THEN packet.last ELSE total
FillAfter(packet) == Append(IF packet.id = 0 THEN << >> ELSE fill, packet)

Accept ==
  /\ TakePacket /\ ~IsReset(buf) /\ ~Unexpected(buf)
  /\ total' = TotalAfter(buf)
  /\ torn' = (torn \/ sending = "payload")

AcceptPiece ==
  /\ Accept /\ buf.id # TotalAfter(buf)
  /\ fill' = FillAfter(buf) /\ expected' = expected + 1
  /\ Rearm
  /\ UNCHANGED <<hostVars, answered, buf, justEnum, flip, pc, ready, sending,
                 outgoing, taken, delivered, stale>>

\* The status of the device is answered from a cache.
Local(pieces) == pieces[1].kind = "status" /\ pieces[1].id = 0

AcceptLast ==
  /\ Accept /\ buf.id = TotalAfter(buf)
  /\ flip' = ~flip
  /\ IF Local(FillAfter(buf))
     THEN /\ fill' = << >> /\ expected' = 0
          /\ answered' = answered \cup {FillAfter(buf)[1].message}
          /\ Rearm
          /\ UNCHANGED <<pc, ready>>
     ELSE /\ fill' = FillAfter(buf) /\ expected' = expected + 1
          /\ pc' = "forward" /\ ready' = FillAfter(buf)
          /\ UNCHANGED <<answered, armed>>
  /\ UNCHANGED <<hostVars, buf, justEnum, sending, outgoing, taken, delivered,
                 stale>>

\* comms_main_mcu_send_message waits for the transfer before, and for no_comms to fall
\* when the main MCU has read it; it does not wait for this one.
Forward ==
  /\ pc = "forward" /\ sending = "no" /\ taken
  /\ sending' = "payload" /\ outgoing' = ready /\ torn' = FALSE /\ taken' = FALSE
  /\ pc' = "idle" /\ fill' = << >> /\ expected' = 0
  /\ Rearm
  /\ UNCHANGED <<hostVars, answered, buf, received, justEnum, flip, total, ready,
                 delivered, stale>>

-----------------------------------------------------------------------------
(* The transfer and the main MCU.                                           *)

PayloadOut ==
  /\ sending = "payload"
  /\ sending' = "rest"
  /\ UNCHANGED <<hostVars, answered, buf, received, armed, justEnum, assembly, pc,
                 ready, outgoing, torn, taken, delivered, stale>>

TransferDone ==
  /\ sending = "rest"
  /\ sending' = "no"
  /\ UNCHANGED <<hostVars, answered, buf, received, armed, justEnum, assembly, pc,
                 ready, outgoing, torn, taken, delivered, stale>>

\* comms_aux_mcu_routine may handle a message once its payload is in.
\* Mutant: before that.
ReadableAlways == TRUE
Readable == sending \in {"rest", "no"}

MainTakes ==
  /\ ~taken /\ Readable
  /\ taken' = TRUE
  /\ delivered' = Append(delivered, [message |-> outgoing[1].message,
                                     whole |-> Whole(outgoing),
                                     torn |-> torn \/ sending = "payload"])
  /\ UNCHANGED <<hostVars, answered, buf, received, armed, justEnum, assembly, pc,
                 ready, sending, outgoing, torn, stale>>

MainAnswers(message) ==
  /\ message \notin answered
  /\ \E i \in 1 .. Len(delivered) :
       delivered[i] = [message |-> message, whole |-> TRUE, torn |-> FALSE]
  /\ answered' = answered \cup {message}
  /\ UNCHANGED <<hostVars, buf, received, armed, justEnum, assembly, pc, ready,
                 transfer, stale>>

-----------------------------------------------------------------------------
Host ==
  \/ Open \/ Stop \/ SendReset \/ Send
  \/ \E kind \in Kinds, last \in 0 .. MaxPackets - 1 : Begin(kind, last)

Handle == HandleReset \/ Drop \/ AcceptPiece \/ AcceptLast

Routine == Enumerated \/ EnumeratedDone \/ Handle \/ Forward

Main == MainTakes \/ \E message \in 1 .. MaxMessages : MainAnswers(message)

Next == Host \/ SetConfiguration \/ Routine \/ PayloadOut \/ TransferDone \/ Main

Spec == Init /\ [][Next]_vars

\* The aux MCU runs its main loop, the DMA runs, and the main MCU handles what it gets;
\* the bus offers a packet again until it is taken, and the host sends what it began.
FairSpec ==
  /\ Spec
  /\ WF_vars(Routine) /\ WF_vars(PayloadOut \/ TransferDone)
  /\ WF_vars(MainTakes) /\ \A m \in 1 .. MaxMessages : WF_vars(MainAnswers(m))
  /\ WF_vars(SendReset \/ Send)

-----------------------------------------------------------------------------
TypeOK ==
  /\ host \in {"closed", "opening", "open"} /\ first \in 1 .. MaxMessages + 1
  /\ current \in [message : 0 .. MaxMessages, kind : Kinds, last : 0 .. MaxPackets - 1,
                  flip : BOOLEAN]
  /\ next \in 0 .. MaxPackets /\ answered \subseteq 1 .. MaxMessages
  /\ buf \in Pieces \cup {Reset}
  /\ {received, armed, justEnum, flip, torn, taken} \subseteq BOOLEAN
  /\ expected \in 0 .. MaxPackets /\ total \in 0 .. MaxPackets - 1
  /\ {fill, ready, outgoing} \subseteq Seq(Pieces)
  /\ Len(fill) <= MaxPackets
  /\ delivered \in Seq([message : 1 .. MaxMessages, whole : BOOLEAN, torn : BOOLEAN])
  /\ pc \in {"idle", "forward", "clear"} /\ sending \in {"no", "payload", "rest"}

\* What reaches the main MCU was put together from all the packets of one message, in
\* their order, at whatever packet hosts are stopped and started again; all that can
\* be garbage is the last packet of a host that has gone, which the aux MCU received
\* before a bus reset and handles after it.
WholeMessages ==
  \A i \in 1 .. Len(delivered) : delivered[i].whole \/ delivered[i].message < first

\* The packets of the next message are put together in the buffer the last one is
\* transferred from: they do not change it before its payload is out, unless the host
\* that sent it has gone.
NothingTorn ==
  \A i \in 1 .. Len(delivered) : delivered[i].torn => delivered[i].message < first

\* "Check for expected packet number", of every packet: no host's garbage is passed on.
AlwaysWhole == \A i \in 1 .. Len(delivered) : delivered[i].whole

\* A host that connects gets through, and one that has begun a message gets its answer,
\* unless it is stopped or the packet of an earlier one came between (stale), which may
\* have armed the endpoint twice.
Served == host = "open" /\ (current.message >= first => current.message \in answered)
EveryHostServed == host # "closed" ~> Served \/ host = "closed" \/ stale
=============================================================================
