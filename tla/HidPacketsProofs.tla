--------------------------- MODULE HidPacketsProofs ---------------------------
(***************************************************************************)
(* Proofs about HidPackets over USB, for messages and hosts of any number  *)
(* and length, stopped and started at any packet, and whether the bus is   *)
(* reset late or not: what reaches the main MCU from a host that is there  *)
(* is all the packets of one message, in order; and, if hosts wait for     *)
(* their answers, none of it was overwritten while it was transferred.     *)
(***************************************************************************)
EXTENDS HidPackets, TLAPS

Empty == fill = << >> /\ expected = 0
Resetting == received /\ IsReset(buf)
Between == AllSent \/ next = 0

\* The packet the host sends next.
Coming == [message |-> current.message, kind |-> current.kind, id |-> next,
           last |-> current.last, flip |-> current.flip]

\* first is the number of the first message of this host, and no number is ahead.
Past ==
  /\ first <= current.message + 1 /\ next <= current.last + 1
  /\ host # "open" => first = current.message + 1
  /\ host = "open" /\ ~AllSent => current.message >= first
Begun(pieces) == \A i \in 1 .. Len(pieces) : pieces[i].message <= current.message
Known ==
  /\ IsReset(buf) \/ buf.message <= current.message
  /\ Begun(fill) /\ Begun(ready) /\ Begun(outgoing) /\ Begun(delivered)
  /\ \A m \in answered : m <= current.message

\* The endpoint is armed, or is going to be by the forwarding of a message or the
\* handling of an enumeration: once while a host is there, and not while one of its
\* packets waits.
Arming == justEnum /\ pc # "clear"
Endpoint ==
  /\ pc = "forward" /\ justEnum => ~armed
  /\ host = "open" =>
       /\ ~(armed /\ pc = "forward") /\ ~(armed /\ Arming) /\ ~(pc = "forward" /\ Arming)
       /\ received /\ ~IsReset(buf) => ~armed /\ pc # "forward" /\ ~Arming
  /\ justEnum => Empty

\* The pieces before a packet are there, or all of its message is dropped.
Aligned(packet) ==
  IF packet.id = 0 \/ packet.flip # flip
  THEN Empty
  ELSE /\ Len(fill) = packet.id /\ expected = packet.id /\ total = packet.last
       /\ \A i \in 1 .. Len(fill) :
            /\ fill[i].id = i - 1
            /\ fill[i].message = packet.message /\ fill[i].last = packet.last

\* No packet of a host that is there is lost or comes twice.
Stream ==
  host = "open" =>
    /\ Resetting => Between /\ (armed => Empty)
    /\ received /\ ~IsReset(buf) =>
         /\ Aligned(buf) /\ buf.message >= first
         /\ \/ /\ buf.message = current.message /\ buf.id = next - 1
               /\ buf.last = current.last /\ buf.flip = current.flip
            \/ next = 0 /\ buf.message = current.message - 1 /\ buf.id = buf.last
    /\ ~received /\ pc # "forward" => IF Between THEN Empty ELSE Aligned(Coming)
    /\ ~received /\ pc = "forward" => Between

\* A message that is complete is one message, or that of a host that has gone.
Sound(pieces) == Len(pieces) >= 1 /\ (Whole(pieces) \/ pieces[1].message < first)
Complete == (pc = "forward" => Sound(ready)) /\ (~taken => Sound(outgoing))

\* A host that waits for the answer to its message sends nothing until then.
Waiting(message) ==
  /\ message = current.message /\ AllSent /\ ~received
  /\ message \notin answered
  /\ \A i \in 1 .. Len(delivered) : delivered[i].message # message
Latest == host = "open" /\ received /\ ~IsReset(buf) => buf.message = current.message
Quiet ==
  /\ Latest
  /\ sending = "payload" => ~taken
  /\ ~taken /\ outgoing[1].message >= first =>
       /\ Waiting(outgoing[1].message) /\ ~torn
       /\ pc = "forward" => ready[1].message < first
  /\ pc = "forward" /\ ready[1].message >= first => Waiting(ready[1].message)
  /\ current.message >= first /\ (~AllSent \/ received) =>
       /\ current.message \notin answered
       /\ \A i \in 1 .. Len(delivered) : delivered[i].message # current.message

\* What the main MCU takes.
Delivery == [message |-> outgoing[1].message, whole |-> Whole(outgoing),
             torn |-> torn \/ sending = "payload"]
Deliveries == [message : 1 .. MaxMessages, whole : BOOLEAN, torn : BOOLEAN]

IInv == TypeOK /\ Past /\ Known /\ Endpoint /\ Stream /\ Complete /\ WholeMessages

-----------------------------------------------------------------------------
(* The packets, and the sequences of their pieces.                          *)

LEMMA PieceIsNoReset == \A p \in Pieces : ~IsReset(p)
BY DEF Pieces, IsReset

LEMMA ResetIsReset == IsReset(Reset)
BY DEF IsReset, Reset

LEMMA BufIsPiece ==
  ASSUME TypeOK, ~IsReset(buf)
  PROVE  buf \in Pieces
BY ResetIsReset DEF TypeOK

LEMMA Element ==
  \A S : \A s \in Seq(S) : Len(s) \in Nat /\ \A i \in 1 .. Len(s) : s[i] \in S
OBVIOUS

LEMMA Fields ==
  /\ \A p \in Pieces : /\ p.message \in Nat /\ p.id \in Nat /\ p.last \in Nat
                       /\ p.flip \in BOOLEAN
  /\ \A s \in Seq(Pieces) : Len(s) \in Nat /\ \A i \in 1 .. Len(s) : s[i] \in Pieces
<1>1. \A p \in Pieces :
        p.message \in Nat /\ p.id \in Nat /\ p.last \in Nat /\ p.flip \in BOOLEAN
  BY InterfaceAssumption DEF Pieces
<1> QED BY <1>1, Element

LEMMA Numbers ==
  ASSUME TypeOK
  PROVE  /\ first \in Nat /\ next \in Nat /\ expected \in Nat /\ total \in Nat
         /\ current.message \in Nat /\ current.last \in Nat /\ current.flip \in BOOLEAN
         /\ current.kind \in Kinds
<1>1. first \in Nat /\ next \in Nat /\ expected \in Nat /\ total \in Nat
  BY InterfaceAssumption DEF TypeOK
<1>2. /\ current.message \in Nat /\ current.last \in Nat /\ current.flip \in BOOLEAN
      /\ current.kind \in Kinds
  BY InterfaceAssumption DEF TypeOK
<1> QED BY <1>1, <1>2

LEMMA Typing ==
  ASSUME TypeOK
  PROVE  /\ fill \in Seq(Pieces) /\ ready \in Seq(Pieces) /\ outgoing \in Seq(Pieces)
         /\ first \in Nat /\ next \in Nat /\ expected \in Nat /\ total \in Nat
         /\ current.message \in Nat /\ current.last \in Nat /\ current.flip \in BOOLEAN
         /\ current.kind \in Kinds
         /\ Len(delivered) \in Nat
         /\ \A i \in 1 .. Len(delivered) :
              /\ delivered[i].message \in Nat
              /\ delivered[i].whole \in BOOLEAN /\ delivered[i].torn \in BOOLEAN
<1>1. fill \in Seq(Pieces) /\ ready \in Seq(Pieces) /\ outgoing \in Seq(Pieces)
  BY DEF TypeOK
<1>2. delivered \in Seq([message : 1 .. MaxMessages, whole : BOOLEAN, torn : BOOLEAN])
  BY DEF TypeOK
<1>3. Len(delivered) \in Nat
  BY <1>2
<1>4. ASSUME NEW i \in 1 .. Len(delivered)
      PROVE  delivered[i] \in [message : 1 .. MaxMessages, whole : BOOLEAN, torn : BOOLEAN]
  BY <1>2, Element
<1>5. \A m \in 1 .. MaxMessages : m \in Nat
  BY InterfaceAssumption
<1> QED BY <1>1, <1>3, <1>4, <1>5, Numbers

\* What a piece that is accepted makes of the pieces before it.
LEMMA FillGrows ==
  ASSUME TypeOK, NEW packet \in Pieces, ~Unexpected(packet)
  PROVE  /\ FillAfter(packet) \in Seq(Pieces)
         /\ Len(FillAfter(packet)) \in 1 .. MaxPackets
         /\ Len(FillAfter(packet)) = (IF packet.id = 0 THEN 0 ELSE Len(fill)) + 1
         /\ FillAfter(packet)[Len(FillAfter(packet))] = packet
         /\ packet.id # 0 =>
              \A i \in 1 .. Len(fill) : FillAfter(packet)[i] = fill[i]
<1>1. fill \in Seq(Pieces) /\ Len(fill) \in Nat /\ Len(fill) <= MaxPackets
  BY DEF TypeOK
<1>2. CASE packet.id = 0
  <2>1. FillAfter(packet) = Append(<< >>, packet)
    BY <1>2 DEF FillAfter
  <2>2. << >> \in Seq(Pieces) /\ Len(<< >>) = 0
    OBVIOUS
  <2> QED BY <1>2, <2>1, <2>2, InterfaceAssumption
<1>3. CASE packet.id # 0
  <2>1. FillAfter(packet) = Append(fill, packet)
    BY <1>3 DEF FillAfter
  <2>2. Len(fill) < MaxPackets
    BY <1>1, <1>3, InterfaceAssumption DEF Unexpected
  <2> QED BY <1>1, <1>3, <2>1, <2>2, InterfaceAssumption
<1> QED BY <1>2, <1>3

\* The messages in it are those that were there.
LEMMA FillKnown ==
  ASSUME TypeOK, Known, NEW packet \in Pieces, ~Unexpected(packet),
         packet.message <= current.message, NEW i \in 1 .. Len(FillAfter(packet))
  PROVE  FillAfter(packet)[i].message <= current.message
<1>1. CASE i = Len(FillAfter(packet))
  BY <1>1, FillGrows
<1>2. CASE i # Len(FillAfter(packet))
  <2>1. packet.id # 0 /\ i \in 1 .. Len(fill)
    <3>1. fill \in Seq(Pieces) /\ Len(fill) \in Nat
      BY DEF TypeOK
    <3> QED BY <1>2, <3>1, FillGrows
  <2>2. FillAfter(packet)[i] = fill[i]
    BY <2>1, FillGrows
  <2> QED BY <2>1, <2>2 DEF Known, Begun
<1> QED BY <1>1, <1>2

\* What the assembly is reset to.
LEMMA NoPieces ==
  << >> \in Seq(Pieces) /\ Len(<< >>) <= MaxPackets /\ 0 \in 0 .. MaxPackets
BY InterfaceAssumption

\* No packet is expected after the last a message may have.
LEMMA Expecting ==
  ASSUME TypeOK, NEW packet \in Pieces, ~Unexpected(packet)
  PROVE  expected + 1 \in 0 .. MaxPackets /\ TotalAfter(packet) \in 0 .. MaxPackets - 1
<1>1. packet.id \in 0 .. MaxPackets - 1 /\ packet.last \in 0 .. MaxPackets - 1
  BY DEF Pieces
<1>2. expected = 0 \/ packet.id = expected
  BY DEF Unexpected
<1> QED BY <1>1, <1>2, InterfaceAssumption DEF TotalAfter, TypeOK

\* The elements of a sequence that grows.
LEMMA Appended ==
  ASSUME NEW S, NEW s \in Seq(S), NEW e \in S, NEW i \in 1 .. Len(Append(s, e))
  PROVE  (i \in 1 .. Len(s) /\ Append(s, e)[i] = s[i]) \/ Append(s, e)[i] = e
<1>1. Len(s) \in Nat /\ Len(Append(s, e)) = Len(s) + 1
  OBVIOUS
<1>2. CASE i <= Len(s)
  <2>1. i \in 1 .. Len(s)
    BY <1>1, <1>2
  <2> QED BY <2>1
<1>3. CASE ~(i <= Len(s))
  <2>1. i = Len(s) + 1
    BY <1>1, <1>3
  <2>2. Append(s, e)[Len(s) + 1] = e
    OBVIOUS
  <2> QED BY <2>1, <2>2
<1> QED BY <1>2, <1>3

\* One delivery is added to those that were made.
LEMMA Taking ==
  ASSUME TypeOK, Complete, MainTakes
  PROVE  /\ Delivery \in Deliveries
         /\ delivered' \in Seq(Deliveries)
         /\ \A i \in 1 .. Len(delivered') :
              \/ i \in 1 .. Len(delivered) /\ delivered'[i] = delivered[i]
              \/ delivered'[i] = Delivery
<1>1. outgoing \in Seq(Pieces) /\ Len(outgoing) >= 1
  BY DEF MainTakes, Complete, Sound, TypeOK
<1>2. outgoing[1].message \in 1 .. MaxMessages
  <2>1. outgoing[1] \in Pieces
    BY <1>1, Element, InterfaceAssumption
  <2> QED BY <2>1 DEF Pieces
<1>3. Whole(outgoing) \in BOOLEAN
  BY DEF Whole
<1>4. Delivery \in Deliveries
  BY <1>2, <1>3 DEF Delivery, Deliveries
<1>5. delivered \in Seq(Deliveries) /\ delivered' = Append(delivered, Delivery)
  BY DEF MainTakes, Delivery, Deliveries, TypeOK
<1> QED BY <1>4, <1>5, Appended

-----------------------------------------------------------------------------
(* The stream of the packets, one action at a time.                         *)

USE DEF hostVars, assembly, transfer

LEMMA StopTyped ==
  ASSUME TypeOK, Stop
  PROVE  TypeOK'
BY InterfaceAssumption DEF TypeOK, Stop, assembly, transfer

LEMMA BeginTyped ==
  ASSUME TypeOK, NEW kind \in Kinds, NEW last \in 0 .. MaxPackets - 1, Begin(kind, last)
  PROVE  TypeOK'
<1>1. current' \in [message : 0 .. MaxMessages, kind : Kinds, last : 0 .. MaxPackets - 1,
                    flip : BOOLEAN]
  BY Numbers, InterfaceAssumption DEF TypeOK, Begin
<1> QED BY <1>1, InterfaceAssumption DEF TypeOK, Begin, assembly, transfer

\* What was sound stays so: the number of the first message only grows.
LEMMA StopComplete ==
  ASSUME TypeOK, Past, Complete, Stop
  PROVE  Complete'
<1>1. first <= first'
  BY Numbers DEF Past, Stop
<1>2. ASSUME NEW s \in Seq(Pieces), Sound(s) PROVE Sound(s)'
  <2>1. Len(s) >= 1 /\ s[1].message \in Nat
    BY <1>2, Fields DEF Sound
  <2>2. first' \in Nat /\ first \in Nat
    BY Numbers DEF Stop
  <2> QED BY <1>1, <1>2, <2>1, <2>2 DEF Sound, Whole
<1> QED BY <1>2, Typing DEF Complete, Stop, transfer

LEMMA StopWhole ==
  ASSUME TypeOK, Past, Known, WholeMessages, Stop
  PROVE  WholeMessages'
<1>1. UNCHANGED delivered /\ first' = current.message + 1 /\ current.message \in Nat
  BY Numbers DEF Stop
<1>2. \A i \in 1 .. Len(delivered) :
        delivered[i].message \in Nat /\ delivered[i].message <= current.message
  BY Typing DEF Known, Begun
<1> QED BY <1>1, <1>2 DEF WholeMessages

LEMMA BeginKnown ==
  ASSUME TypeOK, Known, NEW kind \in Kinds, NEW last \in 0 .. MaxPackets - 1,
         Begin(kind,last)
  PROVE  Known'
<1>1. current.message \in Nat /\ current'.message = current.message + 1
  BY Numbers DEF Begin
<1>2. IsReset(buf) \/ buf.message \in Nat
  BY BufIsPiece, Fields
<1>4. answered' = answered /\ \A m \in answered : m \in Nat
  BY InterfaceAssumption DEF TypeOK, Begin
<1>3. ASSUME NEW s \in Seq(Pieces), Begun(s) PROVE Begun(s)'
  BY <1>1, <1>3, Fields DEF Begun
<1>5. Begun(delivered)'
  <2>1. \A i \in 1 .. Len(delivered) :
          delivered[i].message \in Nat /\ delivered[i].message <= current.message
    BY Typing DEF Known, Begun
  <2> QED BY <1>1, <2>1 DEF Begun, Begin
<1>6. Begun(fill)' /\ Begun(ready)' /\ Begun(outgoing)'
  BY <1>3, Typing DEF Known, Begin, assembly, transfer
<1> QED
BY <1>1, <1>2, <1>4, <1>5, <1>6 DEF Known, Begin

\* A host begins when its last packet is sent; one that waits is the last of its message.
LEMMA BeginStream ==
  ASSUME IInv, NEW kind \in Kinds, NEW last \in 0 .. MaxPackets - 1,
         Begin(kind,last)
  PROVE  Stream'
<1>1. /\ current.message \in Nat /\ current'.message = current.message + 1
      /\ next' = 0 /\ AllSent
  BY Numbers DEF IInv, Begin
<1>2. received /\ ~IsReset(buf) =>
        buf.message = current.message /\ buf.id = buf.last /\ buf.message >= first
  <2>1. SUFFICES ASSUME received, ~IsReset(buf)
                 PROVE  /\ buf.message = current.message /\ buf.id = buf.last
                        /\ buf.message >= first
    OBVIOUS
  <2>2. buf.id \in Nat /\ buf.last \in Nat
    BY <2>1, BufIsPiece, Fields DEF IInv
  <2> QED BY <1>1, <2>1, <2>2, Numbers DEF IInv, Past, Stream, Begin, AllSent
<1> QED BY <1>1, <1>2, Numbers DEF IInv, Stream, Begin, AllSent, Between, Aligned, Empty,
   Resetting, assembly, transfer

LEMMA SendResetTyped ==
  ASSUME TypeOK, SendReset
  PROVE  TypeOK'
<1>1. current' \in [message : 0 .. MaxMessages, kind : Kinds, last : 0 .. MaxPackets - 1,
                  flip : BOOLEAN]
  BY InterfaceAssumption DEF TypeOK, SendReset
<1>2.  next' \in 0 .. MaxPackets
  <2>1. current.last \in 0 .. MaxPackets - 1
    BY  InterfaceAssumption DEF TypeOK
  <2> QED 
  BY <2>1,InterfaceAssumption DEF SendReset
<1> QED
BY InterfaceAssumption, <1>1, <1>2 DEF TypeOK, SendReset, Receive, assembly, transfer

LEMMA SendTyped ==
  ASSUME IInv, Interface="USB", Send
  PROVE  TypeOK'
<1>1. Coming \in Pieces
  <2>1. current.message \in 1 .. MaxMessages
    BY Typing, InterfaceAssumption DEF Send, IInv, Past, TypeOK
  <2>2. next \in 0 .. MaxPackets - 1
    BY Numbers, InterfaceAssumption DEF Send, IInv, AllSent, TypeOK
  <2> QED BY <2>1, <2>2, InterfaceAssumption DEF IInv, TypeOK, Coming, Pieces
<1>2.  next' \in 0 .. MaxPackets
    BY Numbers, InterfaceAssumption DEF Send, IInv, AllSent, TypeOK
<1>3. buf' = Coming
  BY DEF Send, Receive, Coming
<1> QED
BY InterfaceAssumption, <1>1, <1>2, <1>3 DEF IInv, TypeOK, Send, Receive, assembly, transfer

\* The endpoint is armed, so that nothing waits and the pieces before are there.
LEMMA SendStream ==
  ASSUME IInv, Interface="USB", Send
  PROVE  Stream'
<1>1. buf' = Coming /\ next' = next + 1 /\ armed /\ received' /\ host = "open" /\ ~AllSent
  BY DEF Send, Receive, Coming
<1>2. ~IsReset(Coming)
  BY DEF IsReset, Coming
<1>3. pc # "forward"
  BY <1>1 DEF IInv, Endpoint
<1>4. Aligned(Coming)
  <2>1. CASE received
    <3>1. Empty /\ next = 0
      BY <1>1, <2>1, <1>3 DEF IInv, Stream, Between, Endpoint, Resetting
    <3> QED BY <3>1 DEF Aligned, Coming
  <2>2. CASE ~received
    BY <1>1, <1>3, <2>2 DEF IInv, Stream, Between, Aligned, Coming
  <2> QED BY <2>1, <2>2
<1>5. Aligned(buf)'
  BY <1>1, <1>4, Numbers DEF Aligned, Coming, Empty, Send, assembly
<1>6. current.message >= first
  BY <1>1 DEF IInv, Past
<1>7. current' = current /\ first' = first /\ pc' = pc
  BY DEF Send
<1>8. /\ buf'.message = current'.message /\ buf'.id = next' - 1
      /\ buf'.last = current'.last /\ buf'.flip = current'.flip
  BY <1>1, <1>7, Numbers DEF IInv, Coming
<1>9. ~IsReset(buf')
  BY <1>1, <1>2
<1> QED BY <1>1, <1>5, <1>6, <1>7, <1>8, <1>9 DEF Stream, Resetting

LEMMA SetConfigurationTyped ==
  ASSUME TypeOK, SetConfiguration
  PROVE  TypeOK'
BY NoPieces DEF TypeOK, SetConfiguration, hostVars, transfer

LEMMA HandleResetTyped ==
  ASSUME TypeOK, HandleReset
  PROVE  TypeOK'
BY NoPieces DEF TypeOK, HandleReset, TakePacket, Rearm, FreshFlip, hostVars, transfer

LEMMA DropTyped ==
  ASSUME TypeOK, Drop
  PROVE  TypeOK'
BY NoPieces DEF TypeOK, Drop, TakePacket, Rearm, hostVars, transfer

\* A packet of a host that is there is only dropped for its flip bit, with all of its
\* message: nothing was put together before it.
LEMMA DropStream ==
  ASSUME IInv, Interface="USB", Drop
  PROVE  Stream'
<1>1. SUFFICES ASSUME host = "open" PROVE Stream'
  BY DEF Stream, Drop, hostVars
<1>2. buf \in Pieces /\ Aligned(buf) /\ Unexpected(buf) /\ pc # "forward"
  BY <1>1, BufIsPiece DEF Drop, TakePacket, IInv, Stream
<1>3. buf.flip # flip
  <2>1. buf.id \in Nat /\ buf.id < MaxPackets /\ Len(<< >>) = 0
    BY <1>2, InterfaceAssumption DEF Pieces
  <2> QED BY <1>2, <2>1, InterfaceAssumption DEF Aligned, Unexpected, Empty
<1>4. Empty /\ Empty' /\ ~received' /\ pc' = pc /\ UNCHANGED <<hostVars, flip>>
  BY <1>2, <1>3 DEF Aligned, Drop, TakePacket, Empty
<1>5. Between \/ (current.flip = buf.flip)
  BY <1>1, <1>2 DEF IInv, Stream, Drop, TakePacket, Between
<1>6. Between' \/ Aligned(Coming)'
  BY <1>3, <1>4, <1>5 DEF Between, AllSent, hostVars, Aligned, Coming
<1> QED BY <1>2, <1>4, <1>6, Numbers DEF Stream, hostVars, Resetting

\* A packet of a host that is there follows the pieces that were put together.
LEMMA Progress ==
  ASSUME IInv, Interface = "USB", host = "open", Accept
  PROVE  /\ buf \in Pieces /\ buf.flip = flip /\ buf.message >= first
         /\ Len(FillAfter(buf)) = buf.id + 1
         /\ TotalAfter(buf) = buf.last
         /\ expected = buf.id
         /\ \A i \in 1 .. Len(FillAfter(buf)) :
              /\ FillAfter(buf)[i].id = i - 1 /\ FillAfter(buf)[i].message = buf.message
              /\ FillAfter(buf)[i].last = buf.last
<1>1. /\ buf \in Pieces /\ Aligned(buf) /\ ~Unexpected(buf) /\ buf.message >= first
      /\ buf.id \in Nat
  BY BufIsPiece, Fields DEF Accept, TakePacket, IInv, Stream
<1>2. buf.flip = flip
  BY <1>1 DEF Unexpected
<1>3. /\ Len(FillAfter(buf)) = (IF buf.id = 0 THEN 0 ELSE Len(fill)) + 1
      /\ FillAfter(buf)[Len(FillAfter(buf))] = buf
      /\ buf.id # 0 => \A i \in 1 .. Len(fill) : FillAfter(buf)[i] = fill[i]
  BY <1>1, FillGrows DEF IInv
<1>4. CASE buf.id = 0
  BY <1>1, <1>2, <1>3, <1>4 DEF Aligned, Empty, TotalAfter
<1>5. CASE buf.id # 0
  <2>1. /\ Len(fill) = buf.id /\ expected = buf.id /\ total = buf.last
        /\ \A i \in 1 .. Len(fill) :
            fill[i].id = i - 1 /\ fill[i].message = buf.message /\ fill[i].last = buf.last
    BY <1>1, <1>2, <1>5 DEF Aligned
  <2>2. ASSUME NEW i \in 1 .. Len(FillAfter(buf))
        PROVE  /\ FillAfter(buf)[i].id = i - 1 /\ FillAfter(buf)[i].message = buf.message
               /\ FillAfter(buf)[i].last = buf.last
    <3>1. CASE i = Len(FillAfter(buf))
      BY <1>1, <1>3, <1>5, <2>1, <3>1
    <3>2. CASE i # Len(FillAfter(buf))
      <4>1. i \in 1 .. Len(fill)
        BY <1>1, <1>3, <1>5, <2>1, <3>2
      <4> QED BY <1>3, <1>5, <2>1, <4>1
    <3> QED BY <3>1, <3>2
  <2> QED BY <1>1, <1>2, <1>3, <1>5, <2>1, <2>2 DEF TotalAfter
<1> QED BY <1>4, <1>5

LEMMA AcceptPieceTyped ==
  ASSUME TypeOK, AcceptPiece
  PROVE  TypeOK'
<1>1. buf \in Pieces /\ ~Unexpected(buf)
  BY BufIsPiece DEF AcceptPiece, Accept
<1>2. /\ fill' \in Seq(Pieces) /\ Len(fill') <= MaxPackets
      /\ expected' \in 0 .. MaxPackets /\ total' \in 0 .. MaxPackets - 1
  BY <1>1, FillGrows, Expecting, InterfaceAssumption DEF AcceptPiece, Accept
<1> QED BY <1>2 DEF TypeOK, AcceptPiece, Accept, TakePacket, Rearm, hostVars

LEMMA AcceptPieceKnown ==
  ASSUME TypeOK, Known, AcceptPiece
  PROVE  Known'
<1>1. buf \in Pieces /\ ~Unexpected(buf) /\ buf.message <= current.message
  BY BufIsPiece DEF AcceptPiece, Accept, Known
<1>2. Begun(fill)'
  BY <1>1, FillKnown DEF Begun, AcceptPiece, hostVars
<1> QED BY <1>2 DEF Known, Begun, AcceptPiece, Accept, TakePacket, hostVars

LEMMA AcceptPieceStream ==
  ASSUME IInv, Interface="USB", AcceptPiece
  PROVE  Stream'
<1>1. SUFFICES ASSUME host = "open" PROVE Stream'
  BY DEF Stream, AcceptPiece, hostVars
<1>2. Accept /\ buf.id # buf.last /\ ~IsReset(buf) /\ received /\ pc = "idle"
  BY <1>1, Progress DEF AcceptPiece, Accept, TakePacket
<1>3. /\ buf.id \in Nat /\ buf.last \in Nat /\ buf.message \in Nat
      /\ current.message \in Nat /\ next \in Nat
  BY <1>1, <1>2, Progress, Fields, Numbers DEF IInv
<1>4. /\ buf.message = current.message /\ buf.id = next - 1 /\ buf.last = current.last
      /\ buf.flip = current.flip
  BY <1>1, <1>2, <1>3, Progress DEF IInv, Stream
<1>5. /\ fill' = FillAfter(buf) /\ expected' = buf.id + 1 /\ total' = buf.last
      /\ UNCHANGED <<hostVars, flip, buf, pc>> /\ ~received'
  BY <1>1, <1>2, Progress DEF AcceptPiece, Accept, TakePacket
<1>6. ~Between /\ Between' = Between
  BY <1>2, <1>3, <1>4, <1>5, Numbers DEF IInv, Past, Between, AllSent, hostVars
<1>7. /\ Coming.id = buf.id + 1 /\ Coming.flip = flip
      /\ Coming.last = buf.last /\ Coming.message = buf.message
  BY <1>1, <1>2, <1>3, <1>4, Progress DEF Coming
<1>8. Coming' = Coming 
  BY <1>5 DEF Coming, hostVars
<1>9. Aligned(Coming)'
  <2>1. Coming'.id # 0 /\ Coming'.flip = flip'
    BY <1>3, <1>5, <1>7, <1>8
  <2>2. Len(fill') = Coming'.id /\ expected' = Coming'.id /\ total' = Coming'.last
    BY <1>1, <1>2, <1>5, <1>7, <1>8, Progress
  <2>3. \A i \in 1 .. Len(fill') :
            /\ fill'[i].id = i - 1
            /\ fill'[i].message = Coming'.message /\ fill'[i].last = Coming'.last
    BY <1>1, <1>2, <1>5, <1>7, <1>8, Progress
  <2> QED BY <2>1, <2>2, <2>3 DEF Aligned
<1> QED BY <1>5, <1>6, <1>9, <1>2 DEF Stream, Resetting

LEMMA AcceptLastTyped ==
  ASSUME TypeOK, AcceptLast
  PROVE  TypeOK'
<1>1. buf \in Pieces /\ ~Unexpected(buf)
  BY BufIsPiece DEF AcceptLast, Accept
<1>2. /\ FillAfter(buf) \in Seq(Pieces) /\ Len(FillAfter(buf)) \in 1 .. MaxPackets
      /\ expected + 1 \in 0 .. MaxPackets /\ total' \in 0 .. MaxPackets - 1
      /\ 0 \in 0 .. MaxPackets /\ << >> \in Seq(Pieces) /\ Len(<< >>) = 0
      /\ Len(FillAfter(buf)) <= MaxPackets /\ 0 <= MaxPackets
  BY <1>1, FillGrows, Expecting, InterfaceAssumption DEF AcceptLast, Accept
<1>3. FillAfter(buf)[1].message \in 1 .. MaxMessages
  <2>1. FillAfter(buf)[1] \in Pieces
    BY <1>2, Element, InterfaceAssumption
  <2> QED BY <2>1 DEF Pieces
<1>4. fill' \in Seq(Pieces) /\ Len(fill') <= MaxPackets /\ expected' \in 0 .. MaxPackets
  BY <1>2 DEF AcceptLast
<1>5. ready' \in Seq(Pieces) /\ pc' \in {"idle", "forward", "clear"}
  BY <1>2 DEF AcceptLast, TypeOK
<1>6. answered' \subseteq 1 .. MaxMessages /\ armed' \in BOOLEAN
  BY <1>3 DEF AcceptLast, TypeOK, Rearm
<1> QED BY <1>2, <1>4, <1>5, <1>6 DEF TypeOK, AcceptLast, Accept, TakePacket, hostVars

LEMMA AcceptLastKnown ==
  ASSUME TypeOK, Known, AcceptLast
  PROVE  Known'
<1>1. buf \in Pieces /\ ~Unexpected(buf) /\ buf.message <= current.message
  BY BufIsPiece DEF AcceptLast, Accept, Known
<1>2. Begun(FillAfter(buf)) /\ Begun(<< >>)
  BY <1>1, FillKnown DEF Begun
<1>3. Len(FillAfter(buf)) \in 1 .. MaxPackets
  BY <1>1, FillGrows
<1>4. FillAfter(buf)[1].message <= current.message
  BY <1>1, <1>3, FillKnown, InterfaceAssumption
<1>5. current' = current /\ buf' = buf /\ outgoing' = outgoing /\ delivered' = delivered
  BY DEF AcceptLast, hostVars
<1>6. Begun(fill)' /\ Begun(ready)'
  BY <1>2, <1>5 DEF Begun, AcceptLast, Known
<1>7. \A m \in answered' : m <= current.message
  BY <1>4 DEF AcceptLast, Known
<1> QED BY <1>5, <1>6, <1>7 DEF Known, Begun

LEMMA AcceptLastStream ==
  ASSUME IInv, Interface="USB", AcceptLast
  PROVE  Stream'
<1>1. SUFFICES ASSUME host = "open" PROVE Stream'
  BY DEF Stream, AcceptLast, hostVars
<1>2. Accept /\ buf.id = buf.last /\ ~IsReset(buf) /\ received /\ pc = "idle"
  BY <1>1, Progress DEF AcceptLast, Accept, TakePacket
<1>3. buf.id \in Nat /\ next \in Nat /\ UNCHANGED hostVars /\ ~received'
  BY <1>1, <1>2, Progress, Fields, Numbers DEF IInv, AcceptLast, Accept, TakePacket
<1>4. Between /\ Between'
  BY <1>1, <1>2, <1>3 DEF IInv, Stream, Between, AllSent, hostVars
<1>5. pc' = "forward" \/ Empty'
  BY <1>2 DEF AcceptLast, Empty
<1> QED BY <1>3, <1>4, <1>5 DEF Stream, Resetting

\* A complete message of a host that is there has all its pieces; any other is one of a
\* host that has gone.
LEMMA AcceptLastComplete ==
  ASSUME IInv, Interface="USB", AcceptLast
  PROVE  Complete'
<1>1. /\ Accept /\ buf \in Pieces /\ ~Unexpected(buf)
      /\ buf.id = TotalAfter(buf) /\ pc = "idle"
  BY BufIsPiece DEF AcceptLast, Accept, TakePacket, IInv
<1>2. Len(FillAfter(buf)) >= 1 /\ Len(FillAfter(buf)) \in Nat
  BY <1>1, FillGrows, InterfaceAssumption DEF IInv
<1>3. CASE host = "open"
  <2>1. /\ FillAfter(buf)[1].last = buf.last
        /\ Len(FillAfter(buf)) = buf.last + 1
        /\ \A i \in 1 .. Len(FillAfter(buf)) :
              /\ FillAfter(buf)[i].id = i - 1
              /\ FillAfter(buf)[i].message = FillAfter(buf)[1].message
    BY <1>1, <1>2, <1>3, Progress
  <2>2. FillAfter(buf)[1].last = buf.last /\ Sound(FillAfter(buf))
    BY <1>2, <2>1 DEF Sound, Whole
  <2> QED BY <1>1, <2>2 DEF IInv, Complete, Sound, AcceptLast
<1>4. CASE host # "open"
  <2>1. buf.message <= current.message
    BY <1>1, PieceIsNoReset DEF IInv, Known
  <2>2. FillAfter(buf)[1].message <= current.message
    BY <1>1, <1>2, <2>1, FillKnown DEF IInv
  <2>3. FillAfter(buf)[1].message \in Nat
    BY <1>1, <1>2, FillGrows, Fields DEF IInv
  <2>4. FillAfter(buf)[1].message < first
    BY <1>4, <2>2, <2>3, Numbers DEF IInv, Past
  <2> QED BY <1>2, <2>4 DEF IInv, Complete, Sound, AcceptLast, hostVars
<1> QED BY <1>3, <1>4

LEMMA ForwardTyped ==
  ASSUME TypeOK, Forward
  PROVE  TypeOK'
BY NoPieces DEF TypeOK, Forward, Rearm, hostVars, transfer

LEMMA MainTakesTyped ==
  ASSUME TypeOK, Complete, MainTakes
  PROVE  TypeOK'
BY Taking DEF TypeOK, Deliveries, MainTakes, hostVars, assembly

LEMMA MainTakesKnown ==
  ASSUME TypeOK, Known, Complete, MainTakes
  PROVE  Known'
<1>1. Delivery.message <= current.message
  BY Numbers DEF MainTakes, Complete, Sound, Known, Begun, Delivery
<1>2. \A i \in 1 .. Len(delivered') : delivered'[i].message <= current.message
  BY <1>1, Taking DEF Known, Begun
<1> QED BY <1>2 DEF Known, Begun, MainTakes, hostVars, assembly

LEMMA MainTakesWhole ==
  ASSUME IInv, MainTakes
  PROVE  WholeMessages'
<1>1. Delivery.whole \/ Delivery.message < first
  BY DEF MainTakes, IInv, Complete, Sound, Delivery
<1>2. first' = first
  BY DEF MainTakes, hostVars
<1> QED BY <1>1, <1>2, Taking DEF IInv, WholeMessages

LEMMA MainAnswersKnown ==
  ASSUME TypeOK, Known, NEW message \in 1 .. MaxMessages, MainAnswers(message)
  PROVE  Known'
<1>1. message <= current.message
  BY DEF MainAnswers, Known, Begun
<1> QED BY <1>1 DEF Known, Begun, MainAnswers, hostVars, assembly, transfer

-----------------------------------------------------------------------------

LEMMA OpenStep ==
  ASSUME IInv, Interface = "USB", Open
  PROVE  IInv'
<1>1. TypeOK' /\ Past' /\ Known' /\ Endpoint' /\ Stream' /\ Complete' /\ WholeMessages'
  BY DEF IInv, Open, TypeOK, Past, Known, Endpoint, Stream, Complete, WholeMessages,
    Reset, AllSent, IsReset, Begun, Arming, Empty, Resetting, Between, Aligned, Sound
<1> QED BY <1>1 DEF IInv

LEMMA StopStep ==
  ASSUME IInv, Interface = "USB", Stop
  PROVE  IInv'
<1>1. TypeOK'
  BY StopTyped DEF IInv
<1>2. Complete'
  BY StopComplete DEF IInv
<1>3. WholeMessages'
  BY StopWhole DEF IInv
<1>4. Past' /\ Known' /\ Endpoint' /\ Stream'
  BY DEF IInv, Stop, Past, Known, Endpoint, Stream, AllSent, IsReset, Begun, Arming,
    Empty, Resetting, Between, Aligned
<1> QED BY <1>1, <1>2, <1>3, <1>4 DEF IInv

LEMMA BeginStep ==
  ASSUME IInv, Interface = "USB", NEW kind \in Kinds, NEW last \in 0 ..
         MaxPackets - 1, Begin(kind, last)
  PROVE  IInv'
<1>1. TypeOK'
  BY BeginTyped DEF IInv
<1>2. Past'
  BY Numbers DEF IInv, Begin, Past, AllSent
<1>3. Known'
  BY BeginKnown DEF IInv
<1>4. Stream'
  BY BeginStream DEF IInv
<1>5. Endpoint' /\ Complete' /\ WholeMessages'
  BY DEF IInv, Begin, Endpoint, Complete, WholeMessages, AllSent, Arming, IsReset,
    Empty, Sound
<1> QED BY <1>1, <1>2, <1>3, <1>4, <1>5 DEF IInv

LEMMA SendResetStep ==
  ASSUME IInv, Interface = "USB", SendReset
  PROVE  IInv'
<1>1. TypeOK'
  BY SendResetTyped DEF IInv
<1>2. Past'
  BY Numbers DEF IInv, SendReset, Past, Receive, Reset, AllSent
<1>3. Stream'
  BY Numbers DEF IInv, SendReset, Stream, Receive, Reset, Resetting, Between, Empty,
    IsReset, Aligned, AllSent
<1>4. Known' /\ Endpoint' /\ Complete' /\ WholeMessages'
  BY DEF IInv, SendReset, Known, Endpoint, Complete, WholeMessages, Receive, Reset,
    IsReset, Begun, Arming, Empty, Sound
<1> QED BY <1>1, <1>2, <1>3, <1>4 DEF IInv

LEMMA SendStep ==
  ASSUME IInv, Interface = "USB", Send
  PROVE  IInv'
<1>1. TypeOK'
  BY SendTyped DEF IInv
<1>2. Past'
  BY Numbers DEF IInv, Send, Past, AllSent, Receive
<1>3. Known'
  BY Numbers DEF IInv, Send, Known, AllSent, Receive, IsReset, Begun
<1>4. Stream'
  BY SendStream DEF IInv
<1>5. Endpoint' /\ Complete' /\ WholeMessages'
  BY DEF IInv, Send, Endpoint, Complete, WholeMessages, AllSent, Receive, Arming,
    IsReset, Empty, Sound
<1> QED BY <1>1, <1>2, <1>3, <1>4, <1>5 DEF IInv

LEMMA SetConfigurationStep ==
  ASSUME IInv, Interface = "USB", SetConfiguration
  PROVE  IInv'
<1>1. TypeOK'
  BY SetConfigurationTyped DEF IInv
<1>2. Past' /\ Known' /\ Endpoint' /\ Stream' /\ Complete' /\ WholeMessages'
  BY DEF IInv, SetConfiguration, Past, Known, Endpoint, Stream, Complete, WholeMessages,
    AllSent, IsReset, Begun, Arming, Empty, Resetting, Between, Aligned, Sound
<1> QED BY <1>1, <1>2 DEF IInv

LEMMA EnumeratedStep ==
  ASSUME IInv, Interface = "USB", Enumerated
  PROVE  IInv'
<1>1. Stream'
  BY DEF IInv, Enumerated, Stream, Endpoint, Resetting, Between, Empty, IsReset,
    Aligned, Coming, Arming, AllSent
<1>2. TypeOK' /\ Past' /\ Known' /\ Endpoint' /\ Complete' /\ WholeMessages'
  BY DEF IInv, Enumerated, TypeOK, Past, Known, Endpoint, Complete, WholeMessages,
    Reset, AllSent, IsReset, Begun, Arming, Empty, Sound
<1> QED BY <1>1, <1>2 DEF IInv

LEMMA EnumeratedDoneStep ==
  ASSUME IInv, Interface = "USB", EnumeratedDone
  PROVE  IInv'
<1>1. Stream'
  BY DEF IInv, EnumeratedDone, Stream, Resetting, Between, Empty, IsReset, Aligned,
    Coming, AllSent
<1>2. TypeOK' /\ Past' /\ Known'
  BY DEF IInv, EnumeratedDone, TypeOK, Past, Known, Reset, AllSent, IsReset, Begun
<1>3. Endpoint' /\ Complete' /\ WholeMessages'
  BY DEF IInv, EnumeratedDone, Endpoint, Complete, WholeMessages, IsReset, Arming, Empty,
    Sound
<1> QED BY <1>1, <1>2, <1>3 DEF IInv

LEMMA HandleResetStep ==
  ASSUME IInv, Interface = "USB", HandleReset
  PROVE  IInv'
<1>1. TypeOK'
  BY HandleResetTyped DEF IInv
<1>2. Past' /\ Known' /\ Endpoint' /\ Stream' /\ Complete' /\ WholeMessages'
  BY DEF IInv, HandleReset, Past, Known, Endpoint, Stream, Complete, WholeMessages,
    TakePacket, IsReset, Rearm, AllSent, Begun, Arming, Empty, Resetting, Between,
    Aligned, Sound
<1> QED BY <1>1, <1>2 DEF IInv

LEMMA DropStep ==
  ASSUME IInv, Interface = "USB", Drop
  PROVE  IInv'
<1>1. TypeOK'
  BY DropTyped DEF IInv
<1>2. Stream'
  BY DropStream DEF IInv
<1>3. Past' /\ Known' /\ Endpoint' /\ Complete' /\ WholeMessages'
  BY DEF IInv, Drop, Past, Known, Endpoint, Complete, WholeMessages, TakePacket,
    IsReset, Rearm, AllSent, Begun, Arming, Empty, Sound
<1> QED BY <1>1, <1>2, <1>3 DEF IInv

LEMMA AcceptPieceStep ==
  ASSUME IInv, Interface = "USB", AcceptPiece
  PROVE  IInv'
<1>1. TypeOK'
  BY AcceptPieceTyped DEF IInv
<1>2. Known'
  BY AcceptPieceKnown DEF IInv
<1>3. Stream'
  BY AcceptPieceStream DEF IInv
<1>4. Past' /\ Endpoint' /\ Complete' /\ WholeMessages'
  BY DEF IInv, AcceptPiece, Past, Endpoint, Complete, WholeMessages, Accept, TotalAfter,
    Rearm, AllSent, Arming, IsReset, Empty, Sound, TakePacket
<1> QED BY <1>1, <1>2, <1>3, <1>4 DEF IInv

LEMMA AcceptLastStep ==
  ASSUME IInv, Interface = "USB", AcceptLast
  PROVE  IInv'
<1>1. TypeOK'
  BY AcceptLastTyped DEF IInv
<1>2. Known'
  BY AcceptLastKnown DEF IInv
<1>3. Stream'
  BY AcceptLastStream DEF IInv
<1>4. Complete'
  BY AcceptLastComplete DEF IInv
<1>5. Past' /\ Endpoint' /\ WholeMessages'
  BY DEF IInv, AcceptLast, Past, Endpoint, WholeMessages, Accept, TotalAfter, Local,
    Rearm, AllSent, Arming, IsReset, Empty, TakePacket
<1> QED BY <1>1, <1>2, <1>3, <1>4, <1>5 DEF IInv

LEMMA ForwardStep ==
  ASSUME IInv, Interface = "USB", Forward
  PROVE  IInv'
<1>1. TypeOK'
  BY ForwardTyped DEF IInv
<1>2. Stream'
  BY DEF IInv, Forward, Stream, Endpoint, Rearm, Resetting, Between, Empty, IsReset,
    Aligned, Arming, AllSent
<1>3. Past' /\ Known' /\ Endpoint' /\ Complete' /\ WholeMessages'
  BY DEF IInv, Forward, Past, Known, Endpoint, Complete, WholeMessages, Rearm, AllSent,
    IsReset, Begun, Arming, Empty, Sound
<1> QED BY <1>1, <1>2, <1>3 DEF IInv

LEMMA PayloadOutStep ==
  ASSUME IInv, Interface = "USB", PayloadOut
  PROVE  IInv'
<1>1. Stream'
  BY DEF IInv, PayloadOut, Stream, Resetting, Between, Empty, IsReset, Aligned, Coming,
    AllSent
<1>2. TypeOK' /\ Past' /\ Known' /\ Endpoint' /\ Complete' /\ WholeMessages'
  BY DEF IInv, PayloadOut, TypeOK, Past, Known, Endpoint, Complete, WholeMessages,
    Reset, AllSent, IsReset, Begun, Arming, Empty, Sound
<1> QED BY <1>1, <1>2 DEF IInv

LEMMA TransferDoneStep ==
  ASSUME IInv, Interface = "USB", TransferDone
  PROVE  IInv'
<1>1. Stream'
  BY DEF IInv, TransferDone, Stream, Resetting, Between, Empty, IsReset, Aligned,
    Coming, AllSent
<1>2. TypeOK' /\ Past' /\ Known' /\ Endpoint' /\ Complete' /\ WholeMessages'
  BY DEF IInv, TransferDone, TypeOK, Past, Known, Endpoint, Complete, WholeMessages,
    Reset, AllSent, IsReset, Begun, Arming, Empty, Sound
<1> QED BY <1>1, <1>2 DEF IInv

LEMMA MainTakesStep ==
  ASSUME IInv, Interface = "USB", MainTakes
  PROVE  IInv'
<1>1. TypeOK'
  BY MainTakesTyped DEF IInv
<1>2. Known'
  BY MainTakesKnown DEF IInv
<1>3. Stream'
  BY DEF IInv, MainTakes, Stream, Readable, Resetting, Between, Empty, IsReset, Aligned,
    Coming, AllSent
<1>4. WholeMessages'
  BY MainTakesWhole DEF IInv
<1>5. Past' /\ Endpoint' /\ Complete'
  BY DEF IInv, MainTakes, Past, Endpoint, Complete, Readable, AllSent, Arming, IsReset,
    Empty, Sound
<1> QED BY <1>1, <1>2, <1>3, <1>4, <1>5 DEF IInv

LEMMA MainAnswersStep ==
  ASSUME IInv, Interface = "USB", NEW message \in 1 .. MaxMessages, MainAnswers(message)
  PROVE  IInv'
<1>1. TypeOK'
  BY InterfaceAssumption DEF IInv, MainAnswers, TypeOK, Reset
<1>2. Known'
  BY MainAnswersKnown DEF IInv
<1>3. Stream'
  BY DEF IInv, MainAnswers, Stream, Resetting, Between, Empty, IsReset, Aligned, Coming,
    AllSent
<1>4. Past' /\ Endpoint' /\ Complete' /\ WholeMessages'
  BY DEF IInv, MainAnswers, Past, Endpoint, Complete, WholeMessages, AllSent, Arming,
    IsReset, Empty, Sound
<1> QED BY <1>1, <1>2, <1>3, <1>4 DEF IInv

-----------------------------------------------------------------------------
(* Hosts that wait for their answers.                                       *)

\* The numbers of the messages that are on their way.
LEMMA Heads ==
  ASSUME IInv
  PROVE  /\ ~taken => outgoing[1].message \in Nat /\ outgoing[1].message <= current.message
         /\ pc = "forward" => ready[1].message \in Nat /\ ready[1].message <= current.message
         /\ \A i \in 1 .. Len(delivered) : delivered[i].message <= current.message
<1>1. ASSUME NEW s \in Seq(Pieces), Begun(s), Len(s) >= 1
      PROVE  s[1].message \in Nat /\ s[1].message <= current.message
  BY <1>1, Fields DEF Begun
<1> QED BY <1>1, Typing DEF IInv, Known, Begun, Complete, Sound

LEMMA StopQuiet ==
  ASSUME IInv, Quiet, Stop
  PROVE  Quiet'
<1>1. /\ first' = current.message + 1
      /\ UNCHANGED <<current, taken, sending, outgoing, ready, pc>>
  BY DEF Stop, transfer
<1>2. sending = "payload" => ~taken
  BY DEF Quiet
<1>3. /\ ~taken => ~(outgoing[1].message >= first')
      /\ pc = "forward" => ~(ready[1].message >= first')
      /\ ~(current.message >= first')
  <2>1. current.message \in Nat /\ first' = current.message + 1
    BY <1>1, Numbers DEF IInv
  <2>2. /\ ~taken => outgoing[1].message \in Nat /\ outgoing[1].message <= current.message
        /\ pc = "forward" => ready[1].message \in Nat /\ ready[1].message <= current.message
    BY Heads
  <2> QED BY <2>1, <2>2
<1>4. Latest'
  BY DEF Latest, Stop
<1> QED BY <1>1, <1>2, <1>3, <1>4 DEF Quiet

LEMMA BeginQuiet ==
  ASSUME IInv, Quiet, Waits = TRUE, Interface = "USB", NEW kind \in Kinds, NEW
         last \in 0 .. MaxPackets - 1, Begin(kind, last)
  PROVE  Quiet'
<1>1. /\ AllSent /\ current'.message = current.message + 1
      /\ current.message >= first => current.message \in answered
      /\ UNCHANGED <<first, answered, taken, sending, outgoing, ready, pc, delivered>>
  BY DEF Begin, transfer
<1>2. sending = "payload" => ~taken
  BY DEF Quiet
<1>3. ~taken => outgoing[1].message < first
  BY <1>1, Heads, Numbers DEF Quiet, Waiting, IInv
<1>4. pc = "forward" => ready[1].message < first
  BY <1>1, Heads, Numbers DEF Quiet, Waiting, IInv
<1>5. /\ current'.message \notin answered
      /\ \A i \in 1 .. Len(delivered) : delivered[i].message # current'.message
  BY <1>1, Heads, Numbers DEF IInv, Known
<1>6. /\ ~taken => outgoing[1].message \in Nat
      /\ pc = "forward" => ready[1].message \in Nat
      /\ first \in Nat
  BY Heads, Numbers DEF IInv
<1>7. Latest'
  <2>1. received /\ ~IsReset(buf) /\ host = "open" => current.message >= first
    BY <1>1, Numbers, BufIsPiece, Fields DEF IInv, Stream, Quiet, Latest, Begin
  <2>2. received /\ current.message >= first => FALSE
    BY <1>1 DEF Quiet
  <2> QED BY <2>1, <2>2 DEF Begin, Latest
<1> QED BY <1>1, <1>2, <1>3, <1>4, <1>5, <1>6, <1>7 DEF Quiet

LEMMA SendResetQuiet ==
  ASSUME IInv, Quiet, SendReset
  PROVE  Quiet'
<1>1. /\ first = current.message + 1 /\ current'.message = current.message
      /\ UNCHANGED <<first, answered, taken, sending, outgoing, ready, pc, delivered>>
  BY Numbers DEF SendReset, IInv, Past, transfer
<1>2. sending = "payload" => ~taken
  BY DEF Quiet
<1>3. /\ ~taken => ~(outgoing[1].message >= first)
      /\ pc = "forward" => ~(ready[1].message >= first)
      /\ ~(current.message >= first)
  BY <1>1, Heads, Numbers DEF IInv
<1>4. Latest'
  BY ResetIsReset DEF Latest, SendReset, Receive
<1> QED BY <1>1, <1>2, <1>3, <1>4 DEF Quiet

\* The host waits for the answer to the message that is complete now.
LEMMA AcceptLastQuiet ==
  ASSUME IInv, Quiet, Waits = TRUE, Interface = "USB", AcceptLast
  PROVE  Quiet'
<1>1. /\ received /\ ~received' /\ pc = "idle" /\ ~IsReset(buf)
      /\ UNCHANGED <<hostVars, sending, outgoing, taken, delivered>>
      /\ torn' = (torn \/ sending = "payload")
  BY DEF AcceptLast, Accept, TakePacket
<1>2. sending = "payload" => ~taken
  BY DEF Quiet
<1>3. ~taken => ~(outgoing[1].message >= first)
  BY <1>1, Heads, Numbers DEF Quiet, Waiting, IInv
<1>6. Latest'
  BY <1>1 DEF Latest
<1>4. CASE current.message >= first
  <2>1. /\ current.message \notin answered
        /\ \A i \in 1 .. Len(delivered) : delivered[i].message # current.message
    BY <1>1, <1>4 DEF Quiet
  <2>2. host = "open"
    BY <1>4, Numbers DEF IInv, Past
  <2>3. /\ FillAfter(buf)[1].message = buf.message /\ buf.message \in Nat
    BY <1>1, <2>2, Progress, Fields DEF AcceptLast
  <2>4. buf.message = current.message /\ AllSent
    <3>1. buf.id = buf.last /\ buf.id \in Nat
      BY <1>1, <2>2, Progress, Fields DEF AcceptLast
    <3>2. next \in Nat /\ current.last \in Nat /\ current.message \in Nat
      BY Numbers DEF IInv
    <3>3. buf.message = current.message
      BY <1>1, <2>2 DEF Quiet, Latest
    <3>4. buf.id = next - 1 /\ buf.last = current.last
      BY <1>1, <2>2, <3>2, <3>3 DEF IInv, Stream
    <3>5. next - 1 = current.last
      BY <3>1, <3>4
    <3> QED BY <3>2, <3>3, <3>5 DEF AllSent
  <2>5. pc' = "forward" => ready'[1].message = current.message /\ answered' = answered
    BY <1>1, <2>3, <2>4 DEF AcceptLast
  <2>6. pc' = "forward" => Waiting(current.message)'
    BY <1>1, <2>1, <2>4, <2>5 DEF Waiting, AllSent, hostVars
  <2> QED BY <1>1, <1>2, <1>3, <1>6, <2>4, <2>5, <2>6 DEF Quiet, AllSent, hostVars
<1>5. CASE ~(current.message >= first)
  <2>1. pc' = "forward" => ~(ready'[1].message >= first)
    <3>1. buf \in Pieces /\ ~Unexpected(buf) /\ buf.message <= current.message
      BY BufIsPiece DEF AcceptLast, Accept, Known, IInv
    <3>2. Len(FillAfter(buf)) \in 1 .. MaxPackets /\ FillAfter(buf) \in Seq(Pieces)
      BY <3>1, FillGrows DEF IInv
    <3>3. FillAfter(buf)[1].message <= current.message /\ FillAfter(buf)[1].message \in Nat
      BY <3>1, <3>2, FillKnown, Fields, InterfaceAssumption DEF IInv
    <3> QED BY <1>1, <1>5, <3>3, Numbers DEF AcceptLast, IInv
  <2> QED BY <1>1, <1>2, <1>3, <1>5, <1>6, <2>1 DEF Quiet, hostVars
<1> QED BY <1>4, <1>5

\* What is delivered is not the message the host is still sending.
LEMMA MainTakesQuiet ==
  ASSUME IInv, Quiet, MainTakes
  PROVE  Quiet'
<1>1. /\ ~taken /\ sending # "payload" /\ taken' /\ Delivery.message = outgoing[1].message
      /\ UNCHANGED <<hostVars, answered, received, sending, outgoing, pc, ready>>
  BY DEF MainTakes, Readable, Delivery
<1>2. \A i \in 1 .. Len(delivered') :
        \/ i \in 1 .. Len(delivered) /\ delivered'[i] = delivered[i]
        \/ delivered'[i] = Delivery
  BY Taking DEF IInv
<1>3. pc = "forward" /\ ready[1].message >= first => outgoing[1].message < first
  BY <1>1, Heads, Numbers DEF Quiet, IInv
<1>4. current.message >= first /\ (~AllSent \/ received) => outgoing[1].message < first
  BY <1>1, Heads, Numbers DEF Quiet, Waiting, IInv
<1>5. pc = "forward" /\ ready[1].message >= first => Waiting(ready[1].message)'
  <2> SUFFICES ASSUME pc = "forward", ready[1].message >= first
               PROVE  Waiting(ready[1].message)'
    OBVIOUS
  <2>1. Waiting(ready[1].message)
    BY DEF Quiet
  <2>2. outgoing[1].message # ready[1].message
    BY <1>1, <1>3, Heads, Numbers DEF IInv
  <2> QED BY <1>1, <1>2, <2>1, <2>2 DEF Waiting, AllSent, hostVars
<1>6. current.message >= first /\ (~AllSent \/ received) =>
       /\ current.message \notin answered'
       /\ \A i \in 1 .. Len(delivered') : delivered'[i].message # current.message
  <2> SUFFICES ASSUME current.message >= first, ~AllSent \/ received
               PROVE  /\ current.message \notin answered
                      /\ \A i \in 1 .. Len(delivered') : delivered'[i].message # current.message
    BY <1>1
  <2>1. outgoing[1].message # current.message
    BY <1>1, <1>4, Heads, Numbers DEF IInv
  <2> QED BY <1>1, <1>2, <2>1 DEF Quiet
<1>7. Latest'
  BY DEF Latest, Quiet, MainTakes, hostVars
<1> QED BY <1>1, <1>5, <1>6, <1>7 DEF Quiet, hostVars, AllSent

LEMMA MainAnswersQuiet ==
  ASSUME IInv, Quiet, NEW message \in 1 .. MaxMessages, MainAnswers(message)
  PROVE  Quiet'
<1>1. /\ answered' = answered \cup {message}
      /\ \E i \in 1 .. Len(delivered) : delivered[i].message = message
      /\ UNCHANGED <<hostVars, received, sending, outgoing, taken, torn, pc, ready, delivered>>
  BY DEF MainAnswers, transfer
<1>2. ASSUME NEW m, Waiting(m) PROVE Waiting(m)'
  BY <1>1, <1>2 DEF Waiting, AllSent, hostVars
<1>3. ~taken /\ outgoing[1].message >= first => Waiting(outgoing[1].message)'
  BY <1>1, <1>2 DEF Quiet
<1>4. pc = "forward" /\ ready[1].message >= first => Waiting(ready[1].message)'
  BY <1>1, <1>2 DEF Quiet
<1>5. Latest'
  BY DEF Latest, Quiet, MainAnswers, hostVars
<1>6. current.message >= first /\ (~AllSent \/ received) => current.message \notin answered'
  BY <1>1 DEF Quiet
<1> QED BY <1>1, <1>3, <1>4, <1>5, <1>6 DEF Quiet, hostVars, AllSent

LEMMA OpenQuiet ==
  ASSUME IInv, Quiet, Open
  PROVE  Quiet'
BY DEF Open, Quiet, Latest, Waiting, AllSent, IsReset

LEMMA SendQuiet ==
  ASSUME IInv, Quiet, Send
  PROVE  Quiet'
BY DEF Send, Quiet, AllSent, Receive, Latest, Waiting, IsReset

LEMMA SetConfigurationQuiet ==
  ASSUME IInv, Quiet, SetConfiguration
  PROVE  Quiet'
BY DEF SetConfiguration, Quiet, Latest, Waiting, AllSent, IsReset

LEMMA EnumeratedQuiet ==
  ASSUME IInv, Quiet, Enumerated
  PROVE  Quiet'
BY DEF Enumerated, Quiet, Latest, Waiting, AllSent, IsReset

LEMMA EnumeratedDoneQuiet ==
  ASSUME IInv, Quiet, EnumeratedDone
  PROVE  Quiet'
BY DEF EnumeratedDone, Quiet, Latest, Waiting, AllSent, IsReset

LEMMA HandleResetQuiet ==
  ASSUME IInv, Quiet, HandleReset
  PROVE  Quiet'
BY DEF HandleReset, Quiet, TakePacket, IsReset, Rearm, Latest, Waiting, AllSent

LEMMA DropQuiet ==
  ASSUME IInv, Quiet, Drop
  PROVE  Quiet'
BY DEF Drop, Quiet, TakePacket, IsReset, Rearm, Latest, Waiting, AllSent

LEMMA AcceptPieceQuiet ==
  ASSUME IInv, Quiet, AcceptPiece
  PROVE  Quiet'
BY DEF AcceptPiece, Quiet, Accept, TotalAfter, Rearm, Latest, Waiting, AllSent,
  TakePacket, IsReset

LEMMA ForwardQuiet ==
  ASSUME IInv, Quiet, Forward
  PROVE  Quiet'
BY DEF Forward, Quiet, Rearm, Latest, Waiting, AllSent, IsReset

LEMMA PayloadOutQuiet ==
  ASSUME IInv, Quiet, PayloadOut
  PROVE  Quiet'
BY DEF PayloadOut, Quiet, Latest, Waiting, AllSent, IsReset

LEMMA TransferDoneQuiet ==
  ASSUME IInv, Quiet, TransferDone
  PROVE  Quiet'
BY DEF TransferDone, Quiet, Latest, Waiting, AllSent, IsReset

-----------------------------------------------------------------------------
(* The theorems.                                                            *)

LEMMA InitIInv ==
  ASSUME Init
  PROVE  IInv
<1>1. TypeOK
  <2>1. << >> \in Seq(Deliveries) /\ Len(<< >>) = 0
    OBVIOUS
  <2>2. current \in [message : 0 .. MaxMessages, kind : Kinds, last : 0 .. MaxPackets - 1,
                    flip : BOOLEAN]
    BY InterfaceAssumption DEF Init, Kinds
  <2>3. /\ first \in 1 .. MaxMessages + 1 /\ next \in 0 .. MaxPackets
        /\ expected \in 0 .. MaxPackets /\ total \in 0 .. MaxPackets - 1
    BY InterfaceAssumption DEF Init
  <2> QED BY <2>1, <2>2, <2>3, NoPieces DEF Init, TypeOK, Deliveries
<1>2. Past
  BY InterfaceAssumption DEF Init, Past, AllSent
<1>3. Known /\ Complete /\ WholeMessages /\ Endpoint /\ Stream
  BY ResetIsReset DEF Init, Known, Begun, Complete, WholeMessages, Endpoint, Arming, Stream
<1> QED BY <1>1, <1>2, <1>3 DEF IInv

LEMMA NextIInv ==
  ASSUME IInv, Interface = "USB", [Next]_vars
  PROVE  IInv'
<1>1. CASE Host
  BY <1>1, OpenStep, StopStep, BeginStep, SendResetStep, SendStep DEF Host
<1>2. CASE SetConfiguration
  BY <1>2, SetConfigurationStep
<1>3. CASE Routine
  BY <1>3, EnumeratedStep, EnumeratedDoneStep, HandleResetStep, DropStep, AcceptPieceStep,
     AcceptLastStep, ForwardStep DEF Routine, Handle
<1>4. CASE PayloadOut \/ TransferDone
  BY <1>4, PayloadOutStep, TransferDoneStep
<1>5. CASE Main
  BY <1>5, MainTakesStep, MainAnswersStep DEF Main
<1>6. CASE UNCHANGED vars
  <2>1. TypeOK' /\ Past' /\ Known'
    BY <1>6 DEF IInv, vars, TypeOK, Past, AllSent, Known, Begun
  <2>2. Endpoint' /\ Complete' /\ WholeMessages'
    BY <1>6 DEF IInv, vars, Endpoint, Arming, Empty, Complete, Sound, WholeMessages
  <2>3. Stream'
    BY <1>6 DEF IInv, vars, Stream, Resetting, Between, AllSent, Empty, Aligned, Coming
  <2> QED BY <2>1, <2>2, <2>3 DEF IInv
<1> QED BY <1>1, <1>2, <1>3, <1>4, <1>5, <1>6 DEF Next

\* Over USB, every state is one of IInv.
THEOREM SpecIInv == Interface = "USB" => (Spec => []IInv)
<1> SUFFICES ASSUME Interface = "USB"
             PROVE  Spec => []IInv
  OBVIOUS
<1> QED BY InitIInv, NextIInv, PTL DEF Spec

\* Over USB the messages, packets and counters keep their types: no more pieces are
\* put together than the buffer has room for, and no packet is expected after the last.
THEOREM SpecTypeOK == Interface = "USB" => (Spec => []TypeOK)
<1>1. IInv => TypeOK
  BY DEF IInv
<1> QED BY <1>1, SpecIInv, PTL

\* Over USB only whole messages reach the main MCU from a host that is there, whether
\* it waits for its answers or not.
THEOREM SpecWholeMessages == Interface = "USB" => (Spec => []WholeMessages)
<1>1. IInv => WholeMessages
  BY DEF IInv
<1> QED BY <1>1, SpecIInv, PTL

LEMMA InitQuiet ==
  ASSUME Init
  PROVE  Quiet /\ NothingTorn
BY InterfaceAssumption DEF Init, Quiet, Latest, NothingTorn

LEMMA NextQuiet ==
  ASSUME IInv, Quiet, Interface = "USB", Waits = TRUE, [Next]_vars
  PROVE  Quiet'
<1>1. CASE Host
  BY <1>1, OpenQuiet, StopQuiet, BeginQuiet, SendResetQuiet, SendQuiet DEF Host
<1>2. CASE SetConfiguration
  BY <1>2, SetConfigurationQuiet
<1>3. CASE Routine
  BY <1>3, EnumeratedQuiet, EnumeratedDoneQuiet, HandleResetQuiet, DropQuiet,
     AcceptPieceQuiet, AcceptLastQuiet, ForwardQuiet DEF Routine, Handle
<1>4. CASE PayloadOut \/ TransferDone
  BY <1>4, PayloadOutQuiet, TransferDoneQuiet
<1>5. CASE Main
  BY <1>5, MainTakesQuiet, MainAnswersQuiet DEF Main
<1>6. CASE UNCHANGED vars
  BY <1>6 DEF vars, Quiet, Latest, Waiting, AllSent
<1> QED BY <1>1, <1>2, <1>3, <1>4, <1>5, <1>6 DEF Next

\* Only the main MCU adds to what it got, and only a host that goes away moves first.
LEMMA NextNothingTorn ==
  ASSUME IInv, Quiet, NothingTorn, [Next]_vars
  PROVE  NothingTorn'
<1>1. CASE MainTakes
  <2>1. Delivery.torn => Delivery.message < first
    <3>1. ~taken /\ sending # "payload"
      BY <1>1 DEF MainTakes, Readable
    <3>2. torn => ~(outgoing[1].message >= first)
      BY <3>1 DEF Quiet
    <3>3. outgoing[1].message \in Nat /\ first \in Nat
      BY <3>1, Heads, Numbers DEF IInv
    <3>4. Delivery.message = outgoing[1].message
      BY DEF Delivery
    <3>5. Delivery.torn = (torn \/ sending = "payload")
      BY DEF Delivery
    <3>6. torn => Delivery.message < first
      BY <3>2, <3>3, <3>4
    <3> QED BY <3>1, <3>5, <3>6, Zenon
  <2>2. first' = first
    BY <1>1 DEF MainTakes
  <2> QED BY <1>1, <2>1, <2>2, Taking DEF NothingTorn, IInv
<1>2. CASE Stop
  <2>1. UNCHANGED delivered /\ first' = current.message + 1 /\ current.message \in Nat
    BY <1>2, Numbers DEF Stop, IInv
  <2>2. \A i \in 1 .. Len(delivered) :
          delivered[i].message \in Nat /\ delivered[i].message <= current.message
    BY Typing DEF IInv, Known, Begun
  <2> QED BY <2>1, <2>2 DEF NothingTorn
<1>3. CASE ~MainTakes /\ ~Stop
  <2>1. UNCHANGED <<first, delivered>>
    BY <1>3 DEF Next, Host, Routine, Handle, Main, Open, SendReset, Send, Begin,
       SetConfiguration, Enumerated, EnumeratedDone, HandleReset, Drop, AcceptPiece,
       AcceptLast, Forward, PayloadOut, TransferDone, MainAnswers, vars
  <2> QED BY <2>1 DEF NothingTorn
<1> QED BY <1>1, <1>2, <1>3

\* If hosts wait for their answers, no packet changes the message that is transferred
\* out of the same buffer: USB holds a packet back until the buffer is free, and the
\* answer to a message is not sent before it was taken.
THEOREM SpecNothingTorn ==
  Interface = "USB" /\ Waits = TRUE => (Spec => []NothingTorn)
<1> SUFFICES ASSUME Interface = "USB", Waits = TRUE
             PROVE  Spec => []NothingTorn
  OBVIOUS
<1>1. Init => IInv /\ Quiet /\ NothingTorn
  BY InitIInv, InitQuiet
<1>2. IInv /\ Quiet /\ NothingTorn /\ [Next]_vars => (IInv /\ Quiet /\ NothingTorn)'
  BY NextIInv, NextQuiet, NextNothingTorn
<1> QED BY <1>1, <1>2, PTL DEF Spec
===============================================================================
