--------------------------- MODULE PowerSourceProofs ---------------------------
(***************************************************************************)
(* The two MCUs agree on the USB and on the charge, and the last host that *)
(* leaves locks the device, for any number of messages on their way.       *)
(*                                                                         *)
(* The argument: a DETACH_USB is the last word to the aux MCU on the USB   *)
(* and the charge, its answer the last word of the aux MCU on a charge,    *)
(* and the main MCU orders nothing until it has the answer.  So what one   *)
(* MCU believes and the messages on their way tell what the other does.    *)
(***************************************************************************)
EXTENDS PowerSource, TLAPS

\* Where a message stands in a queue.
NoneAfter(first, message, queue) ==
  \A k, i \in 1 .. Len(queue) : queue[k] = first /\ k < i => queue[i] # message
AllAfter(first, message, queue) ==
  \A i \in 1 .. Len(queue) :
    queue[i] = message => \E k \in 1 .. Len(queue) : k < i /\ queue[k] = first

\* The ends of a charge that the main MCU has not heard of.
NoEnd == No("CHARGE_DONE", toMain) /\ No("CHARGE_FAIL", toMain)
OneEnd == \/ One("CHARGE_DONE", toMain) /\ No("CHARGE_FAIL", toMain)
          \/ No("CHARGE_DONE", toMain) /\ One("CHARGE_FAIL", toMain)

\* Who is attached, or about to be.
Attachment ==
  /\ source = "usb" => attached \/ ~No("ATTACH_USB", toAux)
  /\ source = "battery" => ~attached /\ No("ATTACH_USB", toAux)
  /\ source = "transitioning" /\ No("DETACH_USB", toAux)
       => ~attached /\ No("ATTACH_USB", toAux)

\* Who charges the battery, or is about to.
Charge ==
  /\ charging => source = "usb"
  /\ charging =>
       \/ One("NIMH_CHARGE", toAux) /\ battery # "charging" /\ NoEnd
       \/ No("NIMH_CHARGE", toAux) /\ battery = "charging" /\ NoEnd
       \/ No("NIMH_CHARGE", toAux) /\ battery # "charging" /\ OneEnd
  /\ source = "usb" /\ ~charging =>
       No("NIMH_CHARGE", toAux) /\ battery # "charging" /\ NoEnd
  /\ source = "battery" => battery # "charging" /\ NoEnd
  /\ source = "transitioning" /\ No("DETACH_USB", toAux) => battery # "charging"

\* A DETACH_USB is the last word to the aux MCU, its answer the last word of the aux
\* MCU on a charge, and a charge is ordered from an attached aux MCU.
Order ==
  /\ NoneAfter("DETACH_USB", "ATTACH_USB", toAux)
  /\ NoneAfter("DETACH_USB", "NIMH_CHARGE", toAux)
  /\ attached \/ AllAfter("ATTACH_USB", "NIMH_CHARGE", toAux)
  /\ NoneAfter("USB_DETACHED", "CHARGE_DONE", toMain)
  /\ NoneAfter("USB_DETACHED", "CHARGE_FAIL", toMain)

Agreement == DetachOnItsWay /\ Attachment /\ Charge /\ Order
IInv == TypeOK /\ Agreement

\* What an append and a take do to all of these.
Appends(q, x, r) == \A m, n :
  /\ No(m, r) <=> No(m, q) /\ x # m
  /\ (IF x = m THEN No(m, q) ELSE One(m, q)) => One(m, r)
  /\ NoneAfter(m, n, q) /\ (x = n => No(m, q)) => NoneAfter(m, n, r)
  /\ AllAfter(m, n, q) /\ (x = n => ~No(m, q)) => AllAfter(m, n, r)
Takes(q, r) == \A m, n :
  /\ No(m, q) <=> Head(q) # m /\ No(m, r)
  /\ One(m, q) => IF Head(q) = m THEN No(m, r) ELSE One(m, r)
  /\ NoneAfter(m, n, q) => NoneAfter(m, n, r) /\ (Head(q) = m => No(n, r))
  /\ m # n /\ AllAfter(m, n, q) => Head(q) = m \/ (Head(q) # n /\ AllAfter(m, n, r))

-----------------------------------------------------------------------------
(* Queues. *)

LEMMA Empty ==
  /\ \A m : No(m, << >>) /\ ~One(m, << >>)
  /\ \A m, n : NoneAfter(m, n, << >>) /\ AllAfter(m, n, << >>)
  BY DEF No, One, NoneAfter, AllAfter

LEMMA Absent ==
  ASSUME NEW m, NEW n, NEW q
  PROVE  /\ No(m, q) => ~One(m, q) /\ NoneAfter(m, n, q)
         /\ No(n, q) => NoneAfter(m, n, q) /\ AllAfter(m, n, q)
         /\ No(m, q) /\ AllAfter(m, n, q) => No(n, q)
  BY DEF No, One, NoneAfter, AllAfter

LEMMA Appended ==
  ASSUME NEW S, NEW q \in Seq(S), NEW x \in S, NEW r, r = q \o <<x>> \/ r = Append(q, x)
  PROVE  Appends(q, x, r)
<1> SUFFICES ASSUME NEW m, NEW n
             PROVE  /\ No(m, r) <=> No(m, q) /\ x # m
                    /\ (IF x = m THEN No(m, q) ELSE One(m, q)) => One(m, r)
                    /\ NoneAfter(m, n, q) /\ (x = n => No(m, q)) => NoneAfter(m, n, r)
                    /\ AllAfter(m, n, q) /\ (x = n => ~No(m, q)) => AllAfter(m, n, r)
  BY DEF Appends
<1>1. /\ Len(q) \in Nat /\ Len(r) = Len(q) + 1
      /\ \A i \in 1 .. Len(q) : r[i] = q[i]
      /\ r[Len(q) + 1] = x
  OBVIOUS
<1>2. No(m, r) <=> No(m, q) /\ x # m
  BY <1>1 DEF No
<1>3. (IF x = m THEN No(m, q) ELSE One(m, q)) => One(m, r)
  <2>1. CASE x = m
    BY <1>1, <1>2, <2>1 DEF No, One
  <2>2. CASE x # m
    BY <1>1, <1>2, <2>2 DEF One
  <2> QED BY <2>1, <2>2
<1>4. NoneAfter(m, n, q) /\ (x = n => No(m, q)) => NoneAfter(m, n, r)
  BY <1>1 DEF No, NoneAfter
<1>5. AllAfter(m, n, q) /\ (x = n => ~No(m, q)) => AllAfter(m, n, r)
  BY <1>1 DEF No, AllAfter
<1> QED BY <1>2, <1>3, <1>4, <1>5

LEMMA Taken ==
  ASSUME NEW S, NEW q \in Seq(S), q # << >>
  PROVE  Takes(q, Tail(q))
<1> DEFINE r == Tail(q)
<1> SUFFICES ASSUME NEW m, NEW n
             PROVE  /\ No(m, q) <=> Head(q) # m /\ No(m, r)
                    /\ One(m, q) => IF Head(q) = m THEN No(m, r) ELSE One(m, r)
                    /\ NoneAfter(m, n, q)
                         => NoneAfter(m, n, r) /\ (Head(q) = m => No(n, r))
                    /\ m # n /\ AllAfter(m, n, q)
                         => Head(q) = m \/ (Head(q) # n /\ AllAfter(m, n, r))
  BY DEF Takes
<1>1. /\ Len(r) \in Nat /\ Len(q) = Len(r) + 1
      /\ \A i \in 1 .. Len(r) : q[i + 1] = r[i]
      /\ \A i \in 1 .. Len(q) : i = 1 \/ (i - 1 \in 1 .. Len(r) /\ q[i] = r[i - 1])
      /\ q[1] = Head(q)
  OBVIOUS
<1> HIDE DEF r
<1>2. No(m, q) <=> Head(q) # m /\ No(m, r)
  <2>1. No(m, q) => Head(q) # m
    BY <1>1 DEF No
  <2>2. ASSUME No(m, q), NEW i \in 1 .. Len(r)
        PROVE  r[i] # m
    <3>1. i + 1 \in 1 .. Len(q) /\ q[i + 1] = r[i]
      BY <1>1
    <3> QED BY <2>2, <3>1 DEF No
  <2>3. Head(q) # m /\ No(m, r) => No(m, q)
    BY <1>1 DEF No
  <2> QED BY <2>1, <2>2, <2>3 DEF No
<1>3. One(m, q) => IF Head(q) = m THEN No(m, r) ELSE One(m, r)
  <2> SUFFICES ASSUME One(m, q)
               PROVE  IF Head(q) = m THEN No(m, r) ELSE One(m, r)
    OBVIOUS
  <2>1. \A i, k \in 1 .. Len(r) : r[i] = m /\ r[k] = m => i = k
    <3> SUFFICES ASSUME NEW i \in 1 .. Len(r), NEW k \in 1 .. Len(r), r[i] = m, r[k] = m
                 PROVE  i = k
      OBVIOUS
    <3>1. /\ i + 1 \in 1 .. Len(q) /\ k + 1 \in 1 .. Len(q)
          /\ q[i + 1] = m /\ q[k + 1] = m
      BY <1>1
    <3>2. i + 1 = k + 1
      BY <3>1 DEF One
    <3> QED BY <3>2
  <2>2. ASSUME Head(q) = m, NEW i \in 1 .. Len(r), r[i] = m
        PROVE  FALSE
    <3>1. /\ 1 \in 1 .. Len(q) /\ i + 1 \in 1 .. Len(q)
          /\ q[1] = m /\ q[i + 1] = m /\ 1 # i + 1
      BY <1>1, <2>2
    <3> QED BY <3>1 DEF One
  <2> QED BY <1>2, <2>1, <2>2 DEF No, One
<1>4. NoneAfter(m, n, q) => NoneAfter(m, n, r) /\ (Head(q) = m => No(n, r))
  <2> SUFFICES ASSUME NoneAfter(m, n, q)
               PROVE  NoneAfter(m, n, r) /\ (Head(q) = m => No(n, r))
    OBVIOUS
  <2>1. ASSUME NEW k \in 1 .. Len(r), NEW i \in 1 .. Len(r), r[k] = m, k < i
        PROVE  r[i] # n
    <3>1. /\ k + 1 \in 1 .. Len(q) /\ i + 1 \in 1 .. Len(q) /\ k + 1 < i + 1
          /\ q[k + 1] = m /\ q[i + 1] = r[i]
      BY <1>1, <2>1
    <3> QED BY <3>1 DEF NoneAfter
  <2>2. ASSUME NEW i \in 1 .. Len(r), Head(q) = m
        PROVE  r[i] # n
    <3>1. /\ 1 \in 1 .. Len(q) /\ i + 1 \in 1 .. Len(q) /\ 1 < i + 1
          /\ q[1] = m /\ q[i + 1] = r[i]
      BY <1>1, <2>2
    <3> QED BY <3>1 DEF NoneAfter
  <2> QED BY <2>1, <2>2 DEF No, NoneAfter
<1>5. m # n /\ AllAfter(m, n, q) => Head(q) = m \/ (Head(q) # n /\ AllAfter(m, n, r))
  <2> SUFFICES ASSUME m # n, AllAfter(m, n, q), Head(q) # m
               PROVE  Head(q) # n /\ AllAfter(m, n, r)
    OBVIOUS
  <2>1. Head(q) # n
    <3>1. 1 \in 1 .. Len(q) /\ ~\E k \in 1 .. Len(q) : k < 1
      BY <1>1
    <3> QED BY <1>1, <3>1 DEF AllAfter
  <2>2. ASSUME NEW i \in 1 .. Len(r), r[i] = n
        PROVE  \E k \in 1 .. Len(r) : k < i /\ r[k] = m
    <3>1. i + 1 \in 1 .. Len(q) /\ q[i + 1] = n
      BY <1>1, <2>2
    <3>2. PICK k \in 1 .. Len(q) : k < i + 1 /\ q[k] = m
      BY <3>1 DEF AllAfter
    <3>3. k - 1 \in 1 .. Len(r) /\ k - 1 < i /\ r[k - 1] = m
      BY <1>1, <3>2
    <3> QED BY <3>3
  <2> QED BY <2>1, <2>2 DEF AllAfter
<1> QED BY <1>2, <1>3, <1>4, <1>5

-----------------------------------------------------------------------------
(* The agreement, one lemma per step it depends on. *)

LEMMA InitAgreement == Init => Agreement
<1> SUFFICES ASSUME Init PROVE Agreement
  OBVIOUS
<1> USE Empty
<1>1. DetachOnItsWay /\ Attachment
  BY Appended DEF Init, DetachOnItsWay, Attachment, No
<1>2. Charge
  BY DEF Init, Charge, NoEnd, No
<1>3. Order
  <2>1. CASE cable
    BY <2>1 DEF Init, Order, NoneAfter, AllAfter
  <2>2. CASE ~cable
    BY <2>2 DEF Init, Order
  <2> QED BY <2>1, <2>2
<1> QED BY <1>1, <1>2, <1>3 DEF Agreement

\* Steps that keep what the agreement is about, and what they may do to a queue.
Keeps(q, r) == \/ r = q
               \/ \E x \in AuxCommands \ {"ATTACH_USB", "DETACH_USB", "NIMH_CHARGE"} :
                    Appends(q, x, r)
               \/ \E x \in AuxEvents \ {"USB_DETACHED", "CHARGE_DONE", "CHARGE_FAIL"} :
                    Appends(q, x, r)
               \/ /\ Takes(q, r)
                  /\ Head(q) \notin {"ATTACH_USB", "DETACH_USB", "NIMH_CHARGE",
                                    "USB_DETACHED", "CHARGE_DONE", "CHARGE_FAIL"}

LEMMA KeepsAgreement ==
  ASSUME Agreement, UNCHANGED <<source, attached, charging, battery>>,
         Keeps(toAux, toAux'), Keeps(toMain, toMain')
  PROVE  Agreement'
<1>1. \A m \in {"ATTACH_USB", "DETACH_USB", "NIMH_CHARGE"} :
        /\ No(m, toAux') <=> No(m, toAux)
        /\ One(m, toAux) => One(m, toAux')
  BY DEF Keeps, Appends, Takes, AuxCommands, AuxEvents
<1>2. \A m \in {"USB_DETACHED", "CHARGE_DONE", "CHARGE_FAIL"} :
        /\ No(m, toMain') <=> No(m, toMain)
        /\ One(m, toMain) => One(m, toMain')
  BY DEF Keeps, Appends, Takes, AuxCommands, AuxEvents
<1>3. Order'
  BY DEF Agreement, Order, Keeps, Appends, Takes, AuxCommands, AuxEvents
<1>4. DetachOnItsWay'
  BY <1>1, <1>2 DEF Agreement, DetachOnItsWay
<1>5. Attachment'
  BY <1>1, <1>2 DEF Agreement, Attachment
<1>6. Charge'
  BY <1>1, <1>2 DEF Agreement, Charge, NoEnd, OneEnd
<1> QED BY <1>3, <1>4, <1>5, <1>6 DEF Agreement

LEMMA PowerPluggedStep ==
  ASSUME IInv, PowerPlugged
  PROVE  Agreement'
<1>1. /\ source = "battery" /\ source' = "usb" /\ ~charging
      /\ charging' = worn /\ worn \in BOOLEAN
      /\ UNCHANGED <<attached, battery, toMain>>
  BY DEF PowerPlugged, MayPlug, auxUsb, IInv, TypeOK, Agreement, Charge
<1>2. /\ ~attached /\ No("ATTACH_USB", toAux) /\ No("DETACH_USB", toAux)
      /\ No("NIMH_CHARGE", toAux) /\ No("USB_DETACHED", toMain)
      /\ battery # "charging" /\ NoEnd
  BY <1>1, Absent DEF IInv, Agreement, Attachment, Order, DetachOnItsWay, Charge
<1> DEFINE q == toAux \o <<"ATTACH_USB">>
<1>3. q \in Seq(AuxCommands) /\ Appends(toAux, "ATTACH_USB", q)
  <2>1. toAux \in Seq(AuxCommands) /\ "ATTACH_USB" \in AuxCommands
    BY DEF IInv, TypeOK, AuxCommands
  <2>2. q \in Seq(AuxCommands)
    BY <2>1
  <2> QED BY <2>1, <2>2, Appended
<1>4. toAux' = IF worn THEN q \o <<"NIMH_CHARGE">> ELSE q
  BY <1>1 DEF PowerPlugged, SendAux, PlugMessages, IInv, TypeOK
<1>5. worn => Appends(q, "NIMH_CHARGE", toAux')
  BY <1>3, <1>4, Appended DEF AuxCommands
<1> HIDE DEF q
<1>6. /\ No("DETACH_USB", toAux') /\ ~No("ATTACH_USB", toAux')
      /\ IF worn THEN One("NIMH_CHARGE", toAux') ELSE No("NIMH_CHARGE", toAux')
      /\ AllAfter("ATTACH_USB", "NIMH_CHARGE", toAux')
  <2>1. CASE worn
    BY <1>2, <1>3, <1>5, <2>1, Absent DEF Appends
  <2>2. CASE ~worn
    BY <1>2, <1>3, <1>4, <2>2, Absent DEF Appends
  <2> QED BY <2>1, <2>2
<1>7. DetachOnItsWay' /\ Attachment'
  BY <1>1, <1>2, <1>6 DEF DetachOnItsWay, Attachment
<1>8. Charge'
  BY <1>1, <1>2, <1>6 DEF Charge, NoEnd
<1>9. Order'
  BY <1>1, <1>2, <1>6, Absent DEF IInv, Agreement, Order
<1> QED BY <1>7, <1>8, <1>9 DEF Agreement

LEMMA PowerUnpluggedStep ==
  ASSUME IInv, PowerUnplugged
  PROVE  Agreement'
<1>1. /\ source = "usb" /\ source' = "transitioning" /\ charging' = FALSE
      /\ UNCHANGED <<attached, battery, toMain>>
  BY DEF PowerUnplugged, auxUsb
<1>2. Appends(toAux, "DETACH_USB", toAux')
  BY Appended DEF PowerUnplugged, SendAux, IInv, TypeOK, AuxCommands
<1>3. DetachOnItsWay' /\ Attachment'
  BY <1>1, <1>2 DEF IInv, Agreement, DetachOnItsWay, Attachment, Appends
<1>4. Charge' /\ Order'
  BY <1>1, <1>2 DEF IInv, Agreement, DetachOnItsWay, Charge, Order, Appends
<1> QED BY <1>3, <1>4 DEF Agreement

LEMMA PowerChargeStep ==
  ASSUME IInv, PowerCharge
  PROVE  Agreement'
<1>1. /\ source = "usb"
      /\ UNCHANGED <<source, attached, battery, toMain>>
  BY DEF PowerCharge, auxUsb
<1>2. CASE ~charging /\ worn
  <2>1. Appends(toAux, "NIMH_CHARGE", toAux') /\ charging'
    BY <1>2, Appended DEF PowerCharge, SendAux, IInv, TypeOK, AuxCommands
  <2>2. DetachOnItsWay' /\ Attachment'
    BY <1>1, <2>1 DEF IInv, Agreement, DetachOnItsWay, Attachment, Appends
  <2>3. Charge'
    BY <1>1, <1>2, <2>1 DEF IInv, Agreement, Charge, NoEnd, Appends
  <2>4. Order'
    BY <1>1, <2>1 DEF IInv, Agreement, DetachOnItsWay, Attachment, Order, Appends
  <2> QED BY <2>2, <2>3, <2>4 DEF Agreement
<1>3. CASE ~(~charging /\ worn)
  <2>1. UNCHANGED <<charging, toAux>>
    BY <1>3 DEF PowerCharge, IInv, TypeOK
  <2> QED BY <1>1, <2>1, KeepsAgreement DEF IInv, Keeps
<1> QED BY <1>2, <1>3

LEMMA UsbDetachedStep ==
  ASSUME IInv, MainReceives("USB_DETACHED", UsbDetached)
  PROVE  Agreement'
<1>1. /\ Head(toMain) = "USB_DETACHED" /\ Takes(toMain, toMain')
      /\ UNCHANGED <<charging, attached, battery, toAux>>
  BY Taken DEF MainReceives, UsbDetached, auxUsb, IInv, TypeOK
<1>2. /\ source = "transitioning" /\ source' = "battery"
      /\ No("DETACH_USB", toAux)
      /\ No("USB_DETACHED", toMain')
  BY <1>1 DEF MainReceives, UsbDetached, SourceDetached, IInv, Agreement,
              DetachOnItsWay, Takes
<1>3. Order' /\ NoEnd'
  BY <1>1 DEF IInv, Agreement, Order, NoEnd, Takes
<1>4. DetachOnItsWay' /\ Attachment' /\ Charge'
  BY <1>1, <1>2, <1>3 DEF IInv, Agreement, DetachOnItsWay, Attachment, Charge
<1> QED BY <1>3, <1>4 DEF Agreement

LEMMA ChargeReportedStep ==
  ASSUME IInv, NEW event \in {"CHARGE_DONE", "CHARGE_FAIL"},
         toMain # << >>, Head(toMain) = event, toMain' = Tail(toMain),
         charging' = FALSE, UNCHANGED <<source, attached, battery, toAux>>
  PROVE  Agreement'
<1>1. Takes(toMain, toMain')
  BY Taken DEF IInv, TypeOK
<1>2. Order'
  BY <1>1 DEF IInv, Agreement, Order, Takes
<1>3. DetachOnItsWay' /\ Attachment'
  BY <1>1 DEF IInv, Agreement, DetachOnItsWay, Attachment, Takes
<1>4. ~No(event, toMain)
  BY <1>1 DEF Takes
<1>5. source = "usb" => charging /\ OneEnd
  BY <1>4 DEF IInv, Agreement, Charge, NoEnd
<1>6. OneEnd => NoEnd'
  BY <1>1, <1>4 DEF OneEnd, NoEnd, Takes
<1>7. Charge'
  BY <1>4, <1>5, <1>6 DEF IInv, Agreement, Charge, NoEnd, OneEnd, One
<1> QED BY <1>2, <1>3, <1>7 DEF Agreement

LEMMA AttachUsbStep ==
  ASSUME IInv, AuxReceives("ATTACH_USB", AttachUsb)
  PROVE  Agreement'
<1>1. /\ Head(toAux) = "ATTACH_USB" /\ Takes(toAux, toAux') /\ attached'
      /\ UNCHANGED <<source, charging, battery, toMain>>
  BY Taken DEF AuxReceives, AttachUsb, mainPower, IInv, TypeOK
<1>2. ~No("ATTACH_USB", toAux)
  BY <1>1 DEF Takes
<1>3. DetachOnItsWay' /\ Attachment'
  BY <1>1, <1>2 DEF IInv, Agreement, DetachOnItsWay, Attachment, Takes
<1>4. Charge' /\ Order'
  BY <1>1 DEF IInv, Agreement, Charge, NoEnd, OneEnd, Order, Takes
<1> QED BY <1>3, <1>4 DEF Agreement

LEMMA DetachUsbStep ==
  ASSUME IInv, AuxReceives("DETACH_USB", DetachUsb)
  PROVE  Agreement'
<1>1. /\ Head(toAux) = "DETACH_USB" /\ Takes(toAux, toAux') /\ ~attached'
      /\ UNCHANGED <<source, charging>>
      /\ battery' # "charging"
  BY Taken DEF AuxReceives, DetachUsb, AttachedAfter, BatteryAfter, mainPower, IInv,
               TypeOK
<1>2. Appends(toMain, "USB_DETACHED", toMain')
  BY Appended DEF AuxReceives, DetachUsb, SendMain, IInv, TypeOK, AuxEvents
<1>3. /\ source = "transitioning" /\ ~charging
      /\ No("DETACH_USB", toAux') /\ No("USB_DETACHED", toMain)
  BY <1>1 DEF IInv, Agreement, DetachOnItsWay, Charge, Takes
<1>4. No("ATTACH_USB", toAux') /\ No("NIMH_CHARGE", toAux')
  BY <1>1 DEF IInv, Agreement, Order, Takes
<1>5. DetachOnItsWay' /\ Attachment' /\ Charge'
  BY <1>1, <1>2, <1>3, <1>4 DEF DetachOnItsWay, Attachment, Charge, Appends
<1>6. Order'
  BY <1>2, <1>4, Absent DEF IInv, Agreement, Order, Appends
<1> QED BY <1>5, <1>6 DEF Agreement

LEMMA NimhChargeStep ==
  ASSUME IInv, AuxReceives("NIMH_CHARGE", NimhCharge)
  PROVE  Agreement'
<1>1. /\ Head(toAux) = "NIMH_CHARGE" /\ Takes(toAux, toAux') /\ battery' = "charging"
      /\ UNCHANGED <<source, charging, attached, toMain>>
  BY Taken DEF AuxReceives, NimhCharge, mainPower, auxUsb, IInv, TypeOK
<1>2. attached /\ ~No("NIMH_CHARGE", toAux)
  BY <1>1 DEF IInv, Agreement, Order, Takes
<1>3. DetachOnItsWay' /\ Attachment'
  BY <1>1 DEF IInv, Agreement, DetachOnItsWay, Attachment, Takes
<1>4. Order'
  BY <1>1 DEF IInv, Agreement, Order, Takes
<1>5. Charge'
  BY <1>1, <1>2 DEF IInv, TypeOK, Agreement, Attachment, Charge, NoEnd, OneEnd, Takes
<1> QED BY <1>3, <1>4, <1>5 DEF Agreement

LEMMA ChargeEndsStep ==
  ASSUME IInv, NEW event \in {"CHARGE_DONE", "CHARGE_FAIL"}, ChargeEnds(event)
  PROVE  Agreement'
<1>1. /\ battery = "charging" /\ battery' # "charging"
      /\ Appends(toMain, event, toMain')
      /\ UNCHANGED <<source, charging, attached, toAux>>
  <2>1. event \in AuxEvents /\ toMain \in Seq(AuxEvents) /\ toMain' = Append(toMain, event)
    BY DEF ChargeEnds, SendMain, IInv, TypeOK, AuxEvents
  <2>2. Appends(toMain, event, toMain')
    BY <2>1, Appended
  <2> QED BY <2>2 DEF ChargeEnds, mainPower, auxUsb
<1>2. /\ source # "battery" /\ No("USB_DETACHED", toMain)
      /\ source = "usb" => charging /\ NoEnd /\ No("NIMH_CHARGE", toAux)
  BY <1>1 DEF IInv, TypeOK, Agreement, DetachOnItsWay, Charge
<1>3. DetachOnItsWay' /\ Attachment' /\ Order'
  BY <1>1, <1>2 DEF IInv, Agreement, DetachOnItsWay, Attachment, Order, Appends
<1>4. NoEnd => OneEnd'
  BY <1>1 DEF NoEnd, OneEnd, Appends
<1>5. Charge'
  BY <1>1, <1>2, <1>4 DEF IInv, TypeOK, Agreement, Charge
<1> QED BY <1>3, <1>5 DEF Agreement

\* The steps the agreement does not depend on.
LEMMA QuietSteps ==
  ASSUME IInv,
         \/ SwitchDevice \/ NewPairing \/ EndPairing \/ Unlock \/ LogOff
         \/ Enumerate \/ ReportEnumerated \/ Encrypt \/ StartPairing \/ Paired
         \/ Disconnect \/ Environment \/ UNCHANGED vars
  PROVE  Agreement'
<1> USE DEF mainPower, auxUsb
<1>1. UNCHANGED <<source, charging, attached, battery>>
  BY DEF SwitchDevice, NewPairing, EndPairing, Unlock, LogOff, Enumerate,
         ReportEnumerated, Encrypt, StartPairing, Paired, Disconnect, Environment,
         PlugIn, PullOut, Debounced, WearDown, vars, user
<1>2. Keeps(toAux, toAux')
  <2>1. CASE UNCHANGED toAux
    BY <2>1 DEF Keeps
  <2>2. CASE SwitchDevice \/ NewPairing \/ EndPairing
    <3>1. PICK x \in {"DISCONNECT_FOR_NEXT", "ENABLE_PAIRING", "DISABLE_PAIRING"} :
            toAux' = toAux \o <<x>>
      BY <2>2 DEF SwitchDevice, NewPairing, EndPairing, SendAux
    <3>2. x \in AuxCommands /\ toAux \in Seq(AuxCommands)
      BY DEF AuxCommands, IInv, TypeOK
    <3>3. Appends(toAux, x, toAux')
      BY <3>1, <3>2, Appended
    <3> QED BY <3>2, <3>3 DEF Keeps
  <2> QED BY <2>1, <2>2 DEF Unlock, LogOff, Enumerate, ReportEnumerated, Encrypt,
         StartPairing, Paired, Disconnect, Environment, PlugIn, PullOut, Debounced,
         WearDown, vars
<1>3. Keeps(toMain, toMain')
  <2>1. CASE UNCHANGED toMain
    BY <2>1 DEF Keeps
  <2>2. CASE ReportEnumerated \/ Encrypt \/ Paired \/ Disconnect
    <3>1. PICK x \in {"USB_ENUMERATED", "BLE_CONNECTED", "STORE_BOND_INFO",
                      "BLE_DISCONNECTED"} : toMain' = Append(toMain, x)
      BY <2>2 DEF ReportEnumerated, Encrypt, Paired, Disconnect, SendMain
    <3>2. x \in AuxEvents /\ toMain \in Seq(AuxEvents)
      BY DEF AuxEvents, IInv, TypeOK
    <3>3. Appends(toMain, x, toMain')
      BY <3>1, <3>2, Appended
    <3> QED BY <3>2, <3>3 DEF Keeps
  <2> QED BY <2>1, <2>2 DEF SwitchDevice, NewPairing, EndPairing, Unlock, LogOff,
         Enumerate, StartPairing, Environment, PlugIn, PullOut, Debounced, WearDown, vars
<1> QED BY <1>1, <1>2, <1>3, KeepsAgreement DEF IInv

LEMMA MainHandlesStep ==
  ASSUME IInv, MainHandles
  PROVE  Agreement'
<1>1. CASE \/ MainReceives("USB_ENUMERATED", UsbEnumerated)
           \/ MainReceives("BLE_CONNECTED", BleConnected)
           \/ MainReceives("BLE_DISCONNECTED", BleDisconnected)
           \/ MainReceives("STORE_BOND_INFO", StoreBond)
  <2>1. /\ UNCHANGED <<source, charging, attached, battery, toAux>>
        /\ toMain # << >> /\ toMain' = Tail(toMain)
        /\ Head(toMain) \in {"USB_ENUMERATED", "BLE_CONNECTED", "BLE_DISCONNECTED",
                            "STORE_BOND_INFO"}
    BY <1>1 DEF MainReceives, UsbEnumerated, BleConnected, BleDisconnected, StoreBond,
                mainPower, auxUsb
  <2>2. Keeps(toMain, toMain') /\ Keeps(toAux, toAux')
    BY <2>1, Taken DEF Keeps, IInv, TypeOK
  <2> QED BY <2>1, <2>2, KeepsAgreement DEF IInv
<1>2. CASE \/ MainReceives("CHARGE_DONE", ChargeDone)
           \/ MainReceives("CHARGE_FAIL", ChargeFail)
  <2>1. /\ toMain # << >> /\ toMain' = Tail(toMain)
        /\ Head(toMain) \in {"CHARGE_DONE", "CHARGE_FAIL"}
        /\ charging' = FALSE /\ UNCHANGED <<source, attached, battery, toAux>>
    BY <1>2 DEF MainReceives, ChargeDone, ChargeFail, auxUsb
  <2> QED BY <2>1, ChargeReportedStep
<1> QED BY <1>1, <1>2, UsbDetachedStep DEF MainHandles

LEMMA AuxHandlesStep ==
  ASSUME IInv, AuxHandles
  PROVE  Agreement'
<1>1. CASE \/ AuxReceives("DISCONNECT_FOR_NEXT", DisconnectForNext)
           \/ AuxReceives("ENABLE_PAIRING", SetOpen(TRUE))
           \/ AuxReceives("DISABLE_PAIRING", SetOpen(FALSE))
  <2>1. /\ UNCHANGED <<source, charging, attached, battery>>
        /\ toAux # << >> /\ toAux' = Tail(toAux)
        /\ Head(toAux) \in {"DISCONNECT_FOR_NEXT", "ENABLE_PAIRING", "DISABLE_PAIRING"}
        /\ UNCHANGED toMain \/ toMain' = Append(toMain, "BLE_DISCONNECTED")
    BY <1>1 DEF AuxReceives, DisconnectForNext, SetOpen, SendMain, mainPower, auxUsb
  <2>2. Keeps(toAux, toAux')
    BY <2>1, Taken DEF Keeps, IInv, TypeOK
  <2>3. "BLE_DISCONNECTED" \in AuxEvents /\ toMain \in Seq(AuxEvents)
    BY DEF AuxEvents, IInv, TypeOK
  <2>4. Keeps(toMain, toMain')
    BY <2>1, <2>3, Appended DEF Keeps
  <2> QED BY <2>1, <2>2, <2>4, KeepsAgreement DEF IInv
<1> QED BY <1>1, AttachUsbStep, DetachUsbStep, NimhChargeStep DEF AuxHandles

LEMMA StepAgreement ==
  ASSUME IInv, [Next]_vars
  PROVE  Agreement'
  BY PowerPluggedStep, PowerUnpluggedStep, PowerChargeStep, MainHandlesStep,
     AuxHandlesStep, ChargeEndsStep, QuietSteps DEF Next, Main, Aux, PowerRoutine

-----------------------------------------------------------------------------
(* The types, and the theorems. *)

\* The types, in groups that the provers can deal with.
Flags ==
  /\ cable \in BOOLEAN /\ present \in BOOLEAN /\ enumSent \in BOOLEAN
  /\ charging \in BOOLEAN /\ worn \in BOOLEAN /\ connected \in BOOLEAN
  /\ unlocked \in BOOLEAN /\ logOff \in BOOLEAN /\ attached \in BOOLEAN
  /\ justEnum \in BOOLEAN /\ usbHost \in BOOLEAN /\ open \in BOOLEAN
States ==
  /\ source \in {"battery", "usb", "transitioning"}
  /\ enumerated \in {"no", "yes", "late"}
  /\ screen \in {"menu", "pairing", "paired"}
  /\ battery \in {"idle", "charging", "ended"}
  /\ bt \in {"none", "secured", "pairing", "paired", "closing"}
Keepers == keep \subseteq {"switch", "pair"}
Computers == hosts \subseteq {"usb"} \cup BtHosts
Queues == toAux \in Seq(AuxCommands) /\ toMain \in Seq(AuxEvents)

LEMMA InitType == Init => TypeOK
<1> SUFFICES ASSUME Init PROVE TypeOK
  OBVIOUS
<1>1. Flags
  BY DEF Init, Flags
<1>2. States /\ Keepers /\ Computers
  BY DEF Init, States, Keepers, Computers
<1>3. Queues
  <2>1. "ATTACH_USB" \in AuxCommands
    BY DEF AuxCommands
  <2>2. << >> \in Seq(AuxCommands) /\ <<"ATTACH_USB">> \in Seq(AuxCommands)
    BY <2>1
  <2> QED BY <2>2 DEF Init, Queues
<1> QED BY <1>1, <1>2, <1>3 DEF TypeOK, Flags, States, Keepers, Computers, Queues

LEMMA StepQueues ==
  ASSUME Queues, [Next]_vars
  PROVE  Queues'
<1>1. toAux' = toAux \/ (toAux # << >> /\ toAux' = Tail(toAux))
      \/ \E x \in AuxCommands : toAux' = toAux \o <<x>>
      \/ toAux' = toAux \o <<"ATTACH_USB", "NIMH_CHARGE">>
  BY DEF Next, Main, PowerRoutine, PowerPlugged, PlugMessages, PowerUnplugged,
     PowerCharge, SendAux, MainHandles, MainReceives, SwitchDevice, NewPairing,
     EndPairing, Unlock, LogOff, Aux, AuxHandles, AuxReceives, Enumerate,
     ReportEnumerated, ChargeEnds, Encrypt, StartPairing, Paired, Disconnect,
     Environment, PlugIn, PullOut, Debounced, WearDown, vars, AuxCommands
<1>2. toMain' = toMain \/ (toMain # << >> /\ toMain' = Tail(toMain))
      \/ \E x \in AuxEvents : toMain' = Append(toMain, x)
  BY DEF Next, Main, PowerRoutine, PowerPlugged, PowerUnplugged, PowerCharge,
     MainHandles, MainReceives, SwitchDevice, NewPairing, EndPairing, Unlock, LogOff,
     Aux, AuxHandles, AuxReceives, AttachUsb, DetachUsb, NimhCharge, DisconnectForNext,
     SetOpen, Enumerate, ReportEnumerated, ChargeEnds, Encrypt, StartPairing, Paired,
     Disconnect, SendMain, Environment, PlugIn, PullOut, Debounced, WearDown, vars,
     AuxEvents
<1>3. toAux' \in Seq(AuxCommands)
  <2>1. /\ "ATTACH_USB" \in AuxCommands /\ "NIMH_CHARGE" \in AuxCommands
        /\ toAux \in Seq(AuxCommands)
    BY DEF Queues, AuxCommands
  <2>2. <<"ATTACH_USB", "NIMH_CHARGE">> \in Seq(AuxCommands)
    BY <2>1
  <2>3. \A x \in AuxCommands : <<x>> \in Seq(AuxCommands)
    OBVIOUS
  <2>4. \A r \in Seq(AuxCommands) : toAux \o r \in Seq(AuxCommands)
    BY <2>1
  <2>5. toAux # << >> => Tail(toAux) \in Seq(AuxCommands)
    BY <2>1
  <2>6. \A x \in AuxCommands : toAux \o <<x>> \in Seq(AuxCommands)
    BY <2>3, <2>4
  <2>7. toAux \o <<"ATTACH_USB", "NIMH_CHARGE">> \in Seq(AuxCommands)
    BY <2>2, <2>4
  <2>8. CASE \E x \in AuxCommands : toAux' = toAux \o <<x>>
    BY <2>6, <2>8
  <2> QED BY <1>1, <2>1, <2>5, <2>7, <2>8
<1>4. toMain' \in Seq(AuxEvents)
  <2>1. toMain \in Seq(AuxEvents)
    BY DEF Queues
  <2>2. \A x \in AuxEvents : Append(toMain, x) \in Seq(AuxEvents)
    BY <2>1
  <2>3. toMain # << >> => Tail(toMain) \in Seq(AuxEvents)
    BY <2>1
  <2> QED BY <1>2, <2>1, <2>2, <2>3
<1> QED BY <1>3, <1>4 DEF Queues

LEMMA StepComputers ==
  ASSUME Computers, [Next]_vars
  PROVE  Computers'
<1>1. NoteHost => Computers'
  BY DEF NoteHost, Computers
<1>2. Main => NoteHost \/ UNCHANGED hosts \/ hosts' = {}
  BY DEF Main, PowerRoutine, PowerPlugged, PowerUnplugged, PowerCharge, MainHandles,
     MainReceives, SwitchDevice, NewPairing, EndPairing, Unlock, LogOff
<1>3. Aux => NoteHost \/ UNCHANGED hosts
  BY DEF Aux, AuxHandles, AuxReceives, Enumerate, ReportEnumerated, ChargeEnds, Encrypt,
     StartPairing, Paired, Disconnect
<1>4. Environment \/ UNCHANGED vars => NoteHost \/ UNCHANGED hosts
  BY DEF Environment, PlugIn, PullOut, Debounced, WearDown, vars
<1> QED BY <1>1, <1>2, <1>3, <1>4 DEF Next, Computers

LEMMA StepStates ==
  ASSUME States, Keepers, [Next]_vars
  PROVE  States' /\ Keepers'
<1> USE DEF States, Keepers, mainPower, mainHosts, user, auxUsb, auxBt
<1>1. CASE PowerRoutine \/ SwitchDevice \/ NewPairing \/ EndPairing \/ Unlock \/ LogOff
  <2>1. CASE PowerRoutine
    BY <2>1 DEF PowerRoutine, PowerPlugged, PowerUnplugged, PowerCharge
  <2>2. CASE SwitchDevice
    BY <2>2 DEF SwitchDevice
  <2>3. CASE NewPairing
    BY <2>3 DEF NewPairing
  <2>4. CASE EndPairing \/ Unlock \/ LogOff
    BY <2>4 DEF EndPairing, Unlock, LogOff
  <2> QED BY <1>1, <2>1, <2>2, <2>3, <2>4
<1>2. CASE MainHandles
  <2>1. source' \in {"battery", "usb", "transitioning"}
    BY <1>2 DEF MainHandles, MainReceives, UsbEnumerated, UsbDetached, SourceDetached,
       ChargeDone, ChargeFail, BleConnected, BleDisconnected, StoreBond
  <2>2. enumerated' \in {"no", "yes", "late"} /\ UNCHANGED <<battery, bt>>
    BY <1>2 DEF MainHandles, MainReceives, UsbEnumerated, UsbDetached, ChargeDone,
       ChargeFail, BleConnected, BleDisconnected, StoreBond
  <2>3. screen' \in {"menu", "pairing", "paired"}
    BY <1>2 DEF MainHandles, MainReceives, UsbEnumerated, UsbDetached, ChargeDone,
       ChargeFail, BleConnected, BleDisconnected, StoreBond
  <2>4. keep' = keep \/ keep' = {}
    BY <1>2 DEF MainHandles, MainReceives, UsbEnumerated, UsbDetached, ChargeDone,
       ChargeFail, BleConnected, KeepConnected, BleDisconnected, StoreBond
  <2> QED BY <2>1, <2>2, <2>3, <2>4
<1>3. CASE AuxHandles
  <2>1. UNCHANGED <<source, enumerated, screen, keep>>
    BY <1>3 DEF AuxHandles, AuxReceives
  <2>2. battery' \in {"idle", "charging", "ended"}
    BY <1>3 DEF AuxHandles, AuxReceives, AttachUsb, DetachUsb, BatteryAfter, NimhCharge,
       DisconnectForNext, SetOpen
  <2>3. bt' \in {"none", "secured", "pairing", "paired", "closing"}
    BY <1>3 DEF AuxHandles, AuxReceives, AttachUsb, DetachUsb, NimhCharge,
       DisconnectForNext, SetOpen
  <2> QED BY <2>1, <2>2, <2>3
<1>4. CASE Aux /\ ~AuxHandles
  <2>1. UNCHANGED <<source, enumerated, screen, keep>>
    BY <1>4 DEF Aux, Enumerate, ReportEnumerated, ChargeEnds, Encrypt, StartPairing,
       Paired, Disconnect
  <2>2. battery' \in {"idle", "charging", "ended"}
    BY <1>4 DEF Aux, Enumerate, ReportEnumerated, ChargeEnds, Encrypt, StartPairing,
       Paired, Disconnect
  <2>3. bt' \in {"none", "secured", "pairing", "paired", "closing"}
    BY <1>4 DEF Aux, Enumerate, ReportEnumerated, ChargeEnds, Encrypt, StartPairing,
       Paired, Disconnect
  <2> QED BY <2>1, <2>2, <2>3
<1>5. CASE Environment
  <2>1. UNCHANGED <<source, enumerated, screen, battery, bt, keep>>
    BY <1>5 DEF Environment, PlugIn, PullOut, Debounced, WearDown
  <2> QED BY <2>1
<1>6. CASE UNCHANGED vars
  <2>1. UNCHANGED <<source, enumerated, screen, battery, bt, keep>>
    BY <1>6 DEF vars
  <2> QED BY <2>1
<1> QED BY <1>1, <1>2, <1>3, <1>4, <1>5, <1>6 DEF Next, Main

LEMMA StepFlags ==
  ASSUME Flags, [Next]_vars
  PROVE  Flags'
<1> USE DEF Flags, mainPower, mainHosts, user, auxUsb, auxBt
<1>1. CASE PowerPlugged
  BY <1>1 DEF PowerPlugged
<1>2. CASE PowerUnplugged
  BY <1>2 DEF PowerUnplugged
<1>3. CASE PowerCharge
  BY <1>3 DEF PowerCharge
<1>4. CASE SwitchDevice
  BY <1>4 DEF SwitchDevice
<1>5. CASE NewPairing
  BY <1>5 DEF NewPairing
<1>6. CASE EndPairing
  BY <1>6 DEF EndPairing
<1>7. CASE Unlock
  BY <1>7 DEF Unlock
<1>8. CASE LogOff
  BY <1>8 DEF LogOff
<1>9. CASE Enumerate
  BY <1>9 DEF Enumerate
<1>10. CASE ReportEnumerated
  <2>1. /\ UNCHANGED <<cable, present, enumSent, charging, worn, connected>>
        /\ UNCHANGED <<unlocked, logOff, attached, usbHost, open>>
        /\ justEnum' \in BOOLEAN
    BY <1>10 DEF ReportEnumerated
  <2> QED BY <2>1
<1>11. CASE Encrypt
  BY <1>11 DEF Encrypt
<1>12. CASE StartPairing
  BY <1>12 DEF StartPairing
<1>13. CASE Paired
  BY <1>13 DEF Paired
<1>14. CASE Disconnect
  <2>1. /\ UNCHANGED <<cable, present, enumSent, charging, worn, connected>>
        /\ UNCHANGED <<unlocked, logOff, attached, justEnum, usbHost>>
        /\ open' \in BOOLEAN
    BY <1>14 DEF Disconnect
  <2> QED BY <2>1
<1>15. CASE PlugIn
  BY <1>15 DEF PlugIn
<1>16. CASE PullOut
  BY <1>16 DEF PullOut
<1>17. CASE Debounced
  BY <1>17 DEF Debounced
<1>18. CASE WearDown
  BY <1>18 DEF WearDown
<1>19. CASE MainHandles
  <2>1. /\ UNCHANGED <<cable, present, enumSent, unlocked, attached, justEnum, usbHost,
                       open>>
        /\ worn' \in BOOLEAN /\ connected' \in BOOLEAN
    BY <1>19 DEF MainHandles, MainReceives, UsbEnumerated, UsbDetached, ChargeDone,
                 ChargeFail, BleConnected, BleDisconnected, StoreBond
  <2>2. charging' \in BOOLEAN /\ logOff' \in BOOLEAN
    BY <1>19 DEF MainHandles, MainReceives, UsbEnumerated, UsbDetached, ChargeDone,
                 ChargeFail, BleConnected, BleDisconnected, StoreBond
  <2> QED BY <2>1, <2>2
<1>20. CASE AuxHandles
  <2>1. UNCHANGED <<cable, present, enumSent, charging, worn, connected, unlocked,
                    logOff, justEnum>>
    BY <1>20 DEF AuxHandles, AuxReceives, AttachUsb, DetachUsb, NimhCharge,
                DisconnectForNext, SetOpen
  <2>2. attached' \in BOOLEAN
    BY <1>20 DEF AuxHandles, AuxReceives, AttachUsb, DetachUsb, AttachedAfter, NimhCharge,
                DisconnectForNext, SetOpen
  <2>3. usbHost' \in BOOLEAN
    BY <1>20 DEF AuxHandles, AuxReceives, AttachUsb, DetachUsb, NimhCharge,
                DisconnectForNext, SetOpen
  <2>4. open' \in BOOLEAN
    BY <1>20 DEF AuxHandles, AuxReceives, AttachUsb, DetachUsb, NimhCharge,
                DisconnectForNext, SetOpen
  <2> QED BY <2>1, <2>2, <2>3, <2>4
<1>21. CASE \E event \in {"CHARGE_DONE", "CHARGE_FAIL"} : ChargeEnds(event)
  BY <1>21 DEF ChargeEnds
<1>22. CASE UNCHANGED vars
  <2> UNCHANGED <<cable, present, enumSent, charging, worn, connected, unlocked, logOff,
                  attached, justEnum, usbHost, open>>
    BY <1>22 DEF vars
  <2> QED OBVIOUS
<1> QED BY <1>1, <1>2, <1>3, <1>4, <1>5, <1>6, <1>7, <1>8, <1>9, <1>10, <1>11, <1>12,
     <1>13, <1>14, <1>15, <1>16, <1>17, <1>18, <1>19, <1>20, <1>21, <1>22
     DEF Next, Main, Aux, PowerRoutine, Environment

LEMMA StepType ==
  ASSUME TypeOK, [Next]_vars
  PROVE  TypeOK'
  BY StepFlags, StepStates, StepComputers, StepQueues
     DEF TypeOK, Flags, States, Keepers, Computers, Queues

LEMMA InitIInv == Init => IInv
  BY InitType, InitAgreement DEF IInv

LEMMA StepIInv == IInv /\ [Next]_vars => IInv'
  BY StepType, StepAgreement DEF IInv

\* The variables keep their types, however many messages are on their way; a power
\* source without a value is the bug it would show.
THEOREM SpecTypeOK == Spec => []TypeOK
<1>1. IInv => TypeOK
  BY DEF IInv
<1> QED BY InitIInv, StepIInv, <1>1, PTL DEF Spec

\* While the source changes, one DETACH_USB is on its way or one answer to it, and
\* otherwise neither: no answer to an earlier unplugging ends a later one.
THEOREM SpecDetachOnItsWay == Spec => []DetachOnItsWay
<1>1. IInv => DetachOnItsWay
  BY DEF IInv, Agreement
<1> QED BY InitIInv, StepIInv, <1>1, PTL DEF Spec

\* With nothing on its way, the aux MCU is attached to the USB exactly when the main
\* MCU runs from it, whatever the cable and the user did before.
THEOREM SpecAttachAgrees == Spec => []AttachAgrees
<1>1. ASSUME IInv PROVE AttachAgrees
  <2> SUFFICES ASSUME Quiet PROVE attached <=> source = "usb"
    BY DEF AttachAgrees
  <2>1. source \in {"usb", "battery"} /\ No("ATTACH_USB", toAux)
    BY Empty DEF Quiet
  <2> QED BY <1>1, <2>1 DEF IInv, TypeOK, Agreement, Attachment
<1> QED BY InitIInv, StepIInv, <1>1, PTL DEF Spec

\* With nothing on its way, the main MCU believes in a charge exactly when the aux
\* MCU charges: no order and no end of a charge is lost or taken for that of another.
THEOREM SpecChargeAgrees == Spec => []ChargeAgrees
<1>1. ASSUME IInv PROVE ChargeAgrees
  <2> SUFFICES ASSUME Quiet PROVE charging <=> battery = "charging"
    BY DEF ChargeAgrees
  <2>1. source \in {"usb", "battery"} /\ ~One("NIMH_CHARGE", toAux) /\ ~OneEnd
    BY Empty DEF Quiet, OneEnd
  <2> QED BY <1>1, <2>1 DEF IInv, TypeOK, Agreement, Charge
<1> QED BY InitIInv, StepIInv, <1>1, PTL DEF Spec

\* A charge order reaches an attached aux MCU: it is never overtaken by a DETACH_USB,
\* nor does it follow one.
THEOREM SpecChargeOnlyAttached == Spec => []ChargeOnlyAttached
<1>1. ASSUME IInv PROVE ChargeOnlyAttached
  <2> SUFFICES ASSUME toAux # << >>, Head(toAux) = "NIMH_CHARGE" PROVE attached
    BY DEF ChargeOnlyAttached
  <2>1. Takes(toAux, Tail(toAux))
    BY <1>1, Taken DEF IInv, TypeOK
  <2> QED BY <1>1, <2>1 DEF IInv, Agreement, Order, Takes
<1> QED BY InitIInv, StepIInv, <1>1, PTL DEF Spec
-----------------------------------------------------------------------------
(* The last host.  What the main MCU has not heard yet tells whether it     *)
(* will lock: a host by Bluetooth is announced before it is gone, and both  *)
(* messages keep their order; a host on the USB is gone once the cable is   *)
(* out, which the power routine sees by itself.                             *)

\* The queue has the message, and none of the others after it.
Last(message, others, queue) ==
  \E k \in 1 .. Len(queue) :
    queue[k] = message /\ \A i \in 1 .. Len(queue) : k < i => queue[i] \notin others

\* A bonded host is announced, with nothing said of its end; a host that is gone was
\* reported to be.
Secured ==
  bt = "secured" =>
    \/ connected /\ "pair" \notin keep /\ No("BLE_DISCONNECTED", toMain)
    \/ Last("BLE_CONNECTED", {"BLE_DISCONNECTED"}, toMain)
Gone ==
  bt \notin BtHosts =>
    \/ ~connected /\ No("BLE_CONNECTED", toMain) /\ No("STORE_BOND_INFO", toMain)
    \/ Last("BLE_DISCONNECTED", {"BLE_CONNECTED", "STORE_BOND_INFO"}, toMain)

\* The history names the host of the moment, and is that of an unlocked device.
Known ==
  /\ ~unlocked => hosts = {}
  /\ unlocked /\ bt \in BtHosts => \A h \in BtHosts : h \in hosts <=> h = bt

\* What is left of a pairing, when its host is not the last one on Bluetooth, is made
\* good by the BLE_CONNECTED of that one.
Bonds ==
  unlocked /\ "paired" \notin hosts =>
    /\ \/ No("STORE_BOND_INFO", toMain)
       \/ Last("BLE_CONNECTED", {"STORE_BOND_INFO"}, toMain)
    /\ connected /\ "pair" \in keep => ~No("BLE_CONNECTED", toMain)

Enumeration == enumerated = "yes" => source = "usb" /\ attached /\ usbHost

\* LastHostLocks, with what is still on its way.
Pulled == source = "usb" /\ ~cable /\ attached /\ usbHost
Leaving == connected /\ keep = {} /\ ~No("BLE_DISCONNECTED", toMain)
Excused == "switch" \in keep \/ enumerated = "late"
Owed ==
  unlocked /\ hosts # {} /\ "paired" \notin hosts /\ ~Host =>
    logOff \/ Excused \/ Pulled \/ Leaving \/ ~No("BLE_CONNECTED", toMain)

Reports == Secured /\ Gone /\ Bonds
Locking == Reports /\ Known /\ Enumeration /\ Owed

\* What a step does to the history.
Noted ==
  /\ ~unlocked' => hosts' = {}
  /\ unlocked' /\ bt' \in BtHosts => \A h \in BtHosts : h \in hosts' <=> h = bt'
  /\ unlocked' /\ bt' \notin BtHosts => ("paired" \in hosts' <=> "paired" \in hosts)
  /\ unlocked' /\ ~Host' => hosts' = hosts

\* What a message sent to the main MCU, one handled, and any other step do to what
\* is on its way.
Sent(q, x, r) ==
  /\ Appends(q, x, r)
  /\ \A m, T : x = m \/ (x \notin T /\ Last(m, T, q)) => Last(m, T, r)
Handled(q, r) ==
  /\ Takes(q, r)
  /\ \A m, T : Last(m, T, q) => Last(m, T, r) \/ (Head(q) = m /\ \A t \in T : No(t, r))
BtEvents == {"BLE_CONNECTED", "BLE_DISCONNECTED", "STORE_BOND_INFO"}
SameReports(q, r) ==
  /\ \A m \in BtEvents : No(m, r) <=> No(m, q)
  /\ \A m \in BtEvents, T \in SUBSET BtEvents : Last(m, T, q) => Last(m, T, r)

LEMMA Found == \A m, T, q : Last(m, T, q) => ~No(m, q)
  BY DEF Last, No

LEMMA EventSent ==
  ASSUME NEW q \in Seq(AuxEvents), NEW x \in AuxEvents, NEW r, r = Append(q, x)
  PROVE  Sent(q, x, r)
<1>1. Appends(q, x, r)
  BY Appended
<1>2. /\ Len(q) \in Nat /\ Len(r) = Len(q) + 1
      /\ \A i \in 1 .. Len(q) : r[i] = q[i]
      /\ r[Len(q) + 1] = x
  OBVIOUS
<1>3. ASSUME NEW m, NEW T, x = m
      PROVE  Last(m, T, r)
  <2>1. /\ Len(r) \in 1 .. Len(r) /\ r[Len(r)] = m
        /\ \A i \in 1 .. Len(r) : ~(Len(r) < i)
    BY <1>2, <1>3
  <2> QED BY <2>1 DEF Last
<1>4. ASSUME NEW m, NEW T, x \notin T, Last(m, T, q)
      PROVE  Last(m, T, r)
  <2>1. PICK k \in 1 .. Len(q) :
          q[k] = m /\ \A i \in 1 .. Len(q) : k < i => q[i] \notin T
    BY <1>4 DEF Last
  <2>2. k \in 1 .. Len(r) /\ r[k] = m
    BY <1>2, <2>1
  <2>3. ASSUME NEW i \in 1 .. Len(r), k < i
        PROVE  r[i] \notin T
    BY <1>2, <1>4, <2>1, <2>3
  <2> QED BY <2>2, <2>3 DEF Last
<1> QED BY <1>1, <1>3, <1>4 DEF Sent

LEMMA EventHandled ==
  ASSUME NEW q \in Seq(AuxEvents), q # << >>
  PROVE  Handled(q, Tail(q))
<1> DEFINE r == Tail(q)
<1>1. Takes(q, r)
  BY Taken
<1>2. /\ Len(r) \in Nat /\ Len(q) = Len(r) + 1
      /\ \A i \in 1 .. Len(r) : q[i + 1] = r[i]
      /\ q[1] = Head(q)
  OBVIOUS
<1> HIDE DEF r
<1>3. ASSUME NEW m, NEW T, Last(m, T, q)
      PROVE  Last(m, T, r) \/ (Head(q) = m /\ \A t \in T : No(t, r))
  <2>1. PICK k \in 1 .. Len(q) :
          q[k] = m /\ \A i \in 1 .. Len(q) : k < i => q[i] \notin T
    BY <1>3 DEF Last
  <2>2. ASSUME NEW i \in 1 .. Len(r), k < i + 1
        PROVE  r[i] \notin T
    <3>1. i + 1 \in 1 .. Len(q) /\ q[i + 1] = r[i]
      BY <1>2
    <3> QED BY <2>1, <2>2, <3>1
  <2>3. CASE k = 1
    <3>1. \A i \in 1 .. Len(r) : r[i] \notin T
      BY <2>2, <2>3, <1>2
    <3> QED BY <1>2, <2>1, <2>3, <3>1 DEF No
  <2>4. CASE k # 1
    <3>1. k - 1 \in 1 .. Len(r) /\ (k - 1) + 1 = k
      BY <1>2, <2>4
    <3>2. r[k - 1] = m
      BY <1>2, <2>1, <3>1
    <3>3. \A i \in 1 .. Len(r) : k - 1 < i => r[i] \notin T
      BY <2>2, <3>1
    <3> QED BY <3>1, <3>2, <3>3 DEF Last
  <2> QED BY <2>3, <2>4
<1> QED BY <1>1, <1>3 DEF Handled, r

LEMMA OtherReports ==
  ASSUME NEW q, NEW r,
         \/ r = q
         \/ \E x : x \notin BtEvents /\ Sent(q, x, r)
         \/ Handled(q, r) /\ Head(q) \notin BtEvents
  PROVE  SameReports(q, r)
<1>1. CASE r = q
  BY <1>1 DEF SameReports
<1>2. ASSUME NEW x, x \notin BtEvents, Sent(q, x, r)
      PROVE  SameReports(q, r)
  BY <1>2 DEF SameReports, Sent, Appends
<1>3. CASE Handled(q, r) /\ Head(q) \notin BtEvents
  BY <1>3 DEF SameReports, Handled, Takes
<1> QED BY <1>1, <1>2, <1>3

LEMMA HostNoted == NoteHost => Noted
  BY DEF NoteHost, Noted, Host, BtHosts

LEMMA StepNoted ==
  ASSUME Known, [Next]_vars
  PROVE  Noted
<1> USE DEF user, auxBt
<1> DEFINE Kept == /\ UNCHANGED <<hosts, unlocked>>
                   /\ UNCHANGED bt \/ bt' \notin BtHosts
<1>1. Kept => Noted
  BY DEF Noted, Known
<1>2. ~unlocked' /\ hosts' = {} => Noted
  BY DEF Noted
<1>3. Main => Kept \/ NoteHost \/ (~unlocked' /\ hosts' = {})
  <2>1. PowerRoutine => Kept \/ NoteHost
    BY DEF PowerRoutine, PowerPlugged, PowerUnplugged, PowerCharge
  <2>2. MainHandles => Kept
    BY DEF MainHandles, MainReceives
  <2>3. SwitchDevice \/ NewPairing \/ EndPairing \/ Unlock => Kept \/ NoteHost
    BY DEF SwitchDevice, NewPairing, EndPairing, Unlock
  <2>4. LogOff => ~unlocked' /\ hosts' = {}
    BY DEF LogOff
  <2> QED BY <2>1, <2>2, <2>3, <2>4 DEF Main
<1>4. Aux => Kept \/ NoteHost
  BY DEF Aux, AuxHandles, AuxReceives, Enumerate, ReportEnumerated, ChargeEnds, Encrypt,
     StartPairing, Paired, Disconnect, BtHosts
<1>5. Environment \/ UNCHANGED vars => Kept \/ NoteHost
  BY DEF Environment, PlugIn, PullOut, Debounced, WearDown, vars
<1> QED BY <1>1, <1>2, <1>3, <1>4, <1>5, HostNoted DEF Next

LEMMA NotedKnown == Noted => Known'
  BY DEF Noted, Known

\* Steps that leave Bluetooth as the main MCU knows it.
LEMMA OtherStep ==
  ASSUME Locking, Noted, SameReports(toMain, toMain'),
         UNCHANGED <<connected, keep, unlocked>>,
         UNCHANGED bt \/ (bt = "none" /\ bt' = "pairing")
  PROVE  Reports'
<1>1. Secured'
  BY DEF Locking, Reports, Secured, SameReports, BtEvents
<1>2. Gone'
  BY DEF Locking, Reports, Gone, SameReports, BtEvents, BtHosts
<1>3. Bonds'
  <2> SUFFICES ASSUME unlocked, "paired" \notin hosts'
               PROVE  /\ \/ No("STORE_BOND_INFO", toMain')
                         \/ Last("BLE_CONNECTED", {"STORE_BOND_INFO"}, toMain')
                      /\ connected /\ "pair" \in keep
                           => ~No("BLE_CONNECTED", toMain')
    BY DEF Bonds
  <2>1. "paired" \notin hosts
    BY DEF Noted, Locking, Known, BtHosts
  <2> QED BY <2>1 DEF Locking, Reports, Bonds, SameReports, BtEvents
<1> QED BY <1>1, <1>2, <1>3 DEF Reports

LEMMA OtherOwed ==
  ASSUME Locking, Noted, SameReports(toMain, toMain'),
         UNCHANGED <<connected, keep, unlocked, enumerated>>,
         logOff => logOff', Host => Host' \/ Pulled', Pulled => Host' \/ Pulled'
  PROVE  Owed'
<1> SUFFICES ASSUME unlocked, hosts' # {}, "paired" \notin hosts', ~Host'
             PROVE  \/ logOff' \/ Excused' \/ Pulled' \/ Leaving'
                    \/ ~No("BLE_CONNECTED", toMain')
  BY DEF Owed
<1>1. hosts' = hosts
  BY DEF Noted
<1>2. CASE Host \/ Pulled
  BY <1>2
<1>3. CASE ~Host /\ ~Pulled
  <2>1. logOff \/ Excused \/ Leaving \/ ~No("BLE_CONNECTED", toMain)
    BY <1>1, <1>3 DEF Locking, Owed
  <2>2. Excused => Excused'
    BY DEF Excused
  <2>3. Leaving => Leaving'
    BY DEF Leaving, SameReports, BtEvents
  <2>4. ~No("BLE_CONNECTED", toMain) => ~No("BLE_CONNECTED", toMain')
    BY DEF SameReports, BtEvents
  <2> QED BY <2>1, <2>2, <2>3, <2>4
<1> QED BY <1>2, <1>3

\* The steps of the main MCU that lock, or that change what it is owed.
LEMMA UnpluggedLocks ==
  ASSUME IInv, Locking, Noted, PowerUnplugged
  PROVE  Locking'
<1>1. /\ source = "usb" /\ source' = "transitioning" /\ enumerated' = "no"
      /\ logOff' = (logOff \/ (unlocked /\ ~connected))
      /\ UNCHANGED <<connected, keep, unlocked, bt, toMain>>
  BY DEF PowerUnplugged, auxBt
<1>2. SameReports(toMain, toMain')
  BY <1>1, OtherReports
<1>3. Reports' /\ Known' /\ Enumeration'
  BY <1>1, <1>2, OtherStep, NotedKnown DEF Enumeration
<1>4. Owed'
  <2> SUFFICES ASSUME unlocked, hosts' # {}, "paired" \notin hosts', ~Host', connected,
                      "switch" \notin keep, No("BLE_CONNECTED", toMain)
               PROVE  Leaving'
    BY <1>1 DEF Owed, Excused
  <2>1. hosts' = hosts /\ bt \notin BtHosts
    BY <1>1 DEF Noted, Host
  <2>2. ~No("BLE_DISCONNECTED", toMain)
    BY <2>1, Found DEF Locking, Reports, Gone
  <2>3. "pair" \notin keep
    BY <2>1 DEF Locking, Reports, Bonds
  <2>4. keep = {}
    BY <2>3 DEF IInv, TypeOK
  <2> QED BY <1>1, <2>2, <2>4 DEF Leaving
<1> QED BY <1>3, <1>4 DEF Locking

LEMMA EnumeratedLocks ==
  ASSUME IInv, Locking, Noted, MainReceives("USB_ENUMERATED", UsbEnumerated)
  PROVE  Locking'
<1>1. /\ UNCHANGED <<connected, keep, unlocked, bt, logOff, source, cable, attached,
                     usbHost>>
      /\ enumerated' = IF UsbHost THEN "yes" ELSE "late"
      /\ Handled(toMain, toMain') /\ Head(toMain) = "USB_ENUMERATED"
  BY EventHandled DEF MainReceives, UsbEnumerated, mainPower, auxUsb, auxBt, IInv, TypeOK
<1>2. SameReports(toMain, toMain')
  BY <1>1, OtherReports DEF BtEvents
<1>3. Reports' /\ Known'
  BY <1>1, <1>2, OtherStep, NotedKnown
<1>4. Enumeration' /\ Owed'
  BY <1>1 DEF Enumeration, Owed, Excused, UsbHost, Host
<1> QED BY <1>3, <1>4 DEF Locking

LEMMA ConnectedLocks ==
  ASSUME IInv, Locking, Noted, MainReceives("BLE_CONNECTED", BleConnected)
  PROVE  Locking'
<1>1. /\ UNCHANGED <<unlocked, bt, logOff, source, cable, attached, usbHost, enumerated,
                     hosts>>
      /\ connected' /\ keep' = {}
      /\ Handled(toMain, toMain') /\ Head(toMain) = "BLE_CONNECTED"
  BY EventHandled DEF MainReceives, BleConnected, KeepConnected, mainPower, auxUsb, auxBt,
                      IInv, TypeOK
<1>2. ~No("BLE_CONNECTED", toMain)
  BY <1>1 DEF Handled, Takes
<1>3. Secured'
  BY <1>1 DEF Locking, Reports, Secured, Handled, Takes
<1>4. bt \notin BtHosts
        => Last("BLE_DISCONNECTED", {"BLE_CONNECTED", "STORE_BOND_INFO"}, toMain')
  BY <1>1, <1>2 DEF Locking, Reports, Gone, Handled
<1>5. Bonds'
  BY <1>1 DEF Locking, Reports, Bonds, Handled, Takes
<1>6. Enumeration' /\ Known'
  BY <1>1, NotedKnown DEF Locking, Enumeration
<1>7. Owed'
  <2> SUFFICES ASSUME bt \notin BtHosts
               PROVE  Leaving'
    BY <1>1 DEF Owed, Host
  <2> QED BY <1>1, <1>4, Found DEF Leaving
<1> QED BY <1>1, <1>3, <1>4, <1>5, <1>6, <1>7 DEF Locking, Reports, Gone

LEMMA DisconnectedLocks ==
  ASSUME IInv, Locking, Noted, MainReceives("BLE_DISCONNECTED", BleDisconnected)
  PROVE  Locking'
<1>1. /\ UNCHANGED <<unlocked, bt, keep, source, cable, attached, usbHost, enumerated,
                     hosts>>
      /\ ~connected'
      /\ logOff' = (logOff \/ (keep = {} /\ connected /\ unlocked /\ enumerated = "no"))
      /\ Handled(toMain, toMain') /\ Head(toMain) = "BLE_DISCONNECTED"
  BY EventHandled DEF MainReceives, BleDisconnected, mainPower, auxUsb, auxBt, IInv,
                      TypeOK
<1>2. ~No("BLE_DISCONNECTED", toMain)
  BY <1>1 DEF Handled, Takes
<1>3. Secured'
  BY <1>1, <1>2 DEF Locking, Reports, Secured, Handled
<1>4. Gone'
  BY <1>1 DEF Locking, Reports, Gone, Handled, Takes
<1>5. Bonds'
  BY <1>1 DEF Locking, Reports, Bonds, Handled, Takes
<1>6. Enumeration' /\ Known'
  BY <1>1, NotedKnown DEF Locking, Enumeration
<1>7. Owed'
  <2> SUFFICES ASSUME unlocked, hosts # {}, "paired" \notin hosts, ~Host, ~logOff',
                      ~Excused, No("BLE_CONNECTED", toMain')
               PROVE  Pulled
    BY <1>1 DEF Owed, Host, UsbHost, Excused, Pulled
  <2>1. No("BLE_CONNECTED", toMain) /\ ~logOff
    BY <1>1 DEF Handled, Takes
  <2>2. ASSUME Leaving PROVE Pulled
    <3>1. enumerated = "yes"
      BY <1>1, <2>2 DEF Leaving, Excused, IInv, TypeOK
    <3> QED BY <3>1 DEF Locking, Enumeration, Pulled, Host, UsbHost
  <2> QED BY <2>1, <2>2 DEF Locking, Owed
<1> QED BY <1>3, <1>4, <1>5, <1>6, <1>7 DEF Locking, Reports

LEMMA BondLocks ==
  ASSUME IInv, Locking, Noted, MainReceives("STORE_BOND_INFO", StoreBond)
  PROVE  Locking'
<1>1. /\ UNCHANGED <<unlocked, bt, keep, logOff, source, cable, attached, usbHost,
                     enumerated, hosts>>
      /\ connected => connected'
      /\ Handled(toMain, toMain') /\ Head(toMain) = "STORE_BOND_INFO"
  BY EventHandled DEF MainReceives, StoreBond, mainPower, auxUsb, auxBt, IInv, TypeOK
<1>2. ~No("STORE_BOND_INFO", toMain)
  BY <1>1 DEF Handled, Takes
<1>3. \A m \in {"BLE_CONNECTED", "BLE_DISCONNECTED"} : No(m, toMain') <=> No(m, toMain)
  BY <1>1 DEF Handled, Takes
<1>4. Secured'
  BY <1>1, <1>3 DEF Locking, Reports, Secured, Handled
<1>5. Gone'
  BY <1>1, <1>2 DEF Locking, Reports, Gone, Handled
<1>6. Bonds'
  <2> SUFFICES ASSUME unlocked, "paired" \notin hosts
               PROVE  Last("BLE_CONNECTED", {"STORE_BOND_INFO"}, toMain')
    BY <1>1, Found DEF Bonds
  <2> QED BY <1>1, <1>2 DEF Locking, Reports, Bonds, Handled
<1>7. Enumeration' /\ Known'
  BY <1>1, NotedKnown DEF Locking, Enumeration
<1>8. Owed'
  BY <1>1, <1>3 DEF Locking, Owed, Excused, Pulled, Leaving, Host, UsbHost
<1> QED BY <1>4, <1>5, <1>6, <1>7, <1>8 DEF Locking, Reports

LEMMA MenuLocks ==
  ASSUME IInv, Locking, Noted, SwitchDevice \/ NewPairing
  PROVE  Locking'
<1>1. /\ UNCHANGED <<unlocked, bt, connected, logOff, source, cable, attached, usbHost,
                     enumerated, hosts, toMain>>
      /\ keep \subseteq keep'
      /\ "pair" \in keep' => "pair" \in keep \/ ~connected
      /\ keep' = keep \/ "switch" \in keep' \/ ~connected
  BY DEF SwitchDevice, NewPairing, mainPower, user, auxUsb, auxBt
<1>2. bt = "secured" /\ ~connected => Last("BLE_CONNECTED", {"BLE_DISCONNECTED"}, toMain)
  BY DEF Locking, Reports, Secured
<1>3. Secured'
  BY <1>1, <1>2 DEF Locking, Reports, Secured
<1>4. Gone' /\ Bonds'
  BY <1>1 DEF Locking, Reports, Gone, Bonds
<1>5. Enumeration' /\ Known'
  BY <1>1, NotedKnown DEF Locking, Enumeration
<1>6. Owed'
  BY <1>1 DEF Locking, Owed, Excused, Pulled, Leaving, Host, UsbHost
<1> QED BY <1>3, <1>4, <1>5, <1>6 DEF Locking, Reports

LEMMA UnlockLocks ==
  ASSUME IInv, Locking, Noted, Unlock
  PROVE  Locking'
<1>1. /\ UNCHANGED <<bt, connected, keep, logOff, source, cable, attached, usbHost,
                     enumerated, toMain>>
      /\ toMain = << >> /\ ~unlocked /\ unlocked' /\ hosts = {}
  BY DEF Unlock, mainPower, mainHosts, auxUsb, auxBt, Locking, Known
<1>2. \A m, T : No(m, toMain) /\ ~Last(m, T, toMain)
  BY <1>1, Empty, Found
<1>3. Secured' /\ Gone'
  BY <1>1 DEF Locking, Reports, Secured, Gone
<1>4. Bonds'
  <2> SUFFICES ASSUME "paired" \notin hosts', connected, "pair" \in keep
               PROVE  FALSE
    BY <1>1, <1>2 DEF Bonds
  <2>1. bt \in BtHosts /\ bt # "secured"
    BY <1>2 DEF Locking, Reports, Secured, Gone
  <2>2. "paired" \in hosts'
    BY <1>1, <2>1 DEF Noted, BtHosts
  <2> QED BY <2>2
<1>5. Enumeration' /\ Known'
  BY <1>1, NotedKnown DEF Locking, Enumeration
<1>6. Owed'
  BY <1>1 DEF Noted, Owed
<1> QED BY <1>3, <1>4, <1>5, <1>6 DEF Locking, Reports

LEMMA LogOffLocks ==
  ASSUME IInv, Locking, Noted, LogOff
  PROVE  Locking'
<1>1. /\ UNCHANGED <<bt, connected, keep, source, attached, usbHost, enumerated, toMain>>
      /\ ~unlocked'
  BY DEF LogOff, mainPower, mainHosts, auxUsb, auxBt
<1>2. Reports' /\ Enumeration' /\ Owed'
  BY <1>1 DEF Locking, Reports, Secured, Gone, Bonds, Enumeration, Owed
<1> QED BY <1>2, NotedKnown DEF Locking

\* The steps of the aux MCU.
LEMMA GoneLocks ==
  ASSUME IInv, Locking, Noted, bt' \notin BtHosts,
         Sent(toMain, "BLE_DISCONNECTED", toMain'),
         UNCHANGED <<connected, keep, unlocked, logOff, source, cable, attached, usbHost,
                     enumerated>>
  PROVE  Locking'
<1>1. Last("BLE_DISCONNECTED", {"BLE_CONNECTED", "STORE_BOND_INFO"}, toMain')
  BY DEF Sent
<1>2. \A m \in {"BLE_CONNECTED", "STORE_BOND_INFO"} : No(m, toMain') <=> No(m, toMain)
  BY DEF Sent, Appends
<1>3. Secured' /\ Gone'
  BY <1>1 DEF Secured, Gone, BtHosts
<1>4. Bonds'
  <2> SUFFICES ASSUME unlocked, "paired" \notin hosts'
               PROVE  /\ \/ No("STORE_BOND_INFO", toMain')
                         \/ Last("BLE_CONNECTED", {"STORE_BOND_INFO"}, toMain')
                      /\ connected /\ "pair" \in keep => ~No("BLE_CONNECTED", toMain')
    BY DEF Bonds
  <2>1. "paired" \notin hosts
    BY DEF Noted
  <2>2. Last("BLE_CONNECTED", {"STORE_BOND_INFO"}, toMain)
          => Last("BLE_CONNECTED", {"STORE_BOND_INFO"}, toMain')
    BY DEF Sent
  <2> QED BY <1>2, <2>1, <2>2 DEF Locking, Reports, Bonds
<1>5. Enumeration' /\ Known'
  BY NotedKnown DEF Locking, Enumeration
<1>6. Owed'
  <2> SUFFICES ASSUME unlocked, hosts' # {}, "paired" \notin hosts', ~Host', ~logOff,
                      ~Excused, ~Pulled, No("BLE_CONNECTED", toMain)
               PROVE  Leaving'
    BY <1>2 DEF Owed, Excused, Pulled
  <2>1. hosts' = hosts /\ ~UsbHost
    BY DEF Noted, Host, UsbHost
  <2>2. ~No("BLE_DISCONNECTED", toMain')
    BY <1>1, Found
  <2>3. CASE ~Host
    <3>1. connected /\ keep = {}
      BY <2>1, <2>3 DEF Locking, Owed, Leaving, Excused
    <3> QED BY <2>2, <3>1 DEF Leaving
  <2>4. CASE bt \in BtHosts
    <3>1. bt = "secured"
      BY <2>1, <2>4 DEF Locking, Known, BtHosts
    <3>2. connected /\ "pair" \notin keep
      BY <3>1, Found DEF Locking, Reports, Secured
    <3>3. keep = {}
      BY <3>2 DEF Excused, IInv, TypeOK
    <3> QED BY <2>2, <3>2, <3>3 DEF Leaving
  <2> QED BY <2>1, <2>3, <2>4 DEF Host
<1> QED BY <1>3, <1>4, <1>5, <1>6 DEF Locking, Reports

LEMMA EncryptLocks ==
  ASSUME IInv, Locking, Noted, Encrypt
  PROVE  Locking'
<1>1. /\ UNCHANGED <<connected, keep, unlocked, source, attached, usbHost, enumerated>>
      /\ bt' = "secured" /\ Sent(toMain, "BLE_CONNECTED", toMain')
  BY EventSent DEF Encrypt, SendMain, mainPower, mainHosts, user, auxUsb, IInv, TypeOK,
                   AuxEvents
<1>2. /\ Last("BLE_CONNECTED", {"BLE_DISCONNECTED"}, toMain')
      /\ Last("BLE_CONNECTED", {"STORE_BOND_INFO"}, toMain')
  BY <1>1 DEF Sent
<1>3. Secured' /\ Gone' /\ Bonds'
  BY <1>1, <1>2, Found DEF Secured, Gone, Bonds, BtHosts
<1>4. Enumeration' /\ Owed'
  BY <1>1 DEF Locking, Enumeration, Owed, Host, BtHosts
<1> QED BY <1>3, <1>4, NotedKnown DEF Locking, Reports

LEMMA PairedLocks ==
  ASSUME IInv, Locking, Noted, Paired
  PROVE  Locking'
<1>1. /\ UNCHANGED <<unlocked, source, attached, usbHost, enumerated>>
      /\ bt' = "paired"
  BY DEF Paired, mainPower, mainHosts, user, auxUsb
<1>2. Secured' /\ Gone' /\ Bonds'
  BY <1>1 DEF Secured, Gone, Bonds, BtHosts, Noted
<1>3. Enumeration' /\ Owed'
  BY <1>1 DEF Locking, Enumeration, Owed, Host, BtHosts
<1> QED BY <1>2, <1>3, NotedKnown DEF Locking, Reports

LEMMA AuxHandlesLocks ==
  ASSUME IInv, Locking, Noted, AuxHandles
  PROVE  Locking'
<1> USE DEF mainPower, mainHosts, user, auxUsb, auxBt
<1>1. UNCHANGED <<connected, keep, unlocked, logOff, source, cable, enumerated>>
  BY DEF AuxHandles, AuxReceives
<1>2. CASE AuxReceives("DISCONNECT_FOR_NEXT", DisconnectForNext) /\ bt' = "closing"
                                                               /\ ~UNCHANGED toMain
  <2>1. Sent(toMain, "BLE_DISCONNECTED", toMain') /\ UNCHANGED <<attached, usbHost>>
    BY <1>2, EventSent DEF AuxReceives, DisconnectForNext, SendMain, IInv, TypeOK,
                             AuxEvents
  <2> QED BY <1>1, <1>2, <2>1, GoneLocks DEF BtHosts
<1>3. CASE AuxReceives("DETACH_USB", DetachUsb)
  <2>1. Head(toAux) = "DETACH_USB" /\ Takes(toAux, toAux') /\ UNCHANGED bt
    BY <1>3, Taken DEF AuxReceives, DetachUsb, IInv, TypeOK
  <2>2. source = "transitioning"
    BY <2>1 DEF IInv, Agreement, DetachOnItsWay, Takes
  <2>3. Sent(toMain, "USB_DETACHED", toMain')
    BY <1>3, EventSent DEF AuxReceives, DetachUsb, SendMain, IInv, TypeOK, AuxEvents
  <2>4. SameReports(toMain, toMain')
    BY <2>3, OtherReports DEF BtEvents
  <2>5. Reports' /\ Known' /\ Enumeration'
    BY <1>1, <2>1, <2>2, <2>4, OtherStep, NotedKnown DEF Locking, Enumeration
  <2>6. Owed'
    BY <1>1, <2>1, <2>2, <2>4, OtherOwed DEF Host, UsbHost, Pulled
  <2> QED BY <2>5, <2>6 DEF Locking
<1>4. CASE ~AuxReceives("DETACH_USB", DetachUsb) /\ UNCHANGED <<bt, toMain>>
  <2>1. attached' = attached \/ attached'
    BY <1>4 DEF AuxHandles, AuxReceives, AttachUsb, NimhCharge, DisconnectForNext, SetOpen
  <2>2. UNCHANGED usbHost
    BY <1>4 DEF AuxHandles, AuxReceives, AttachUsb, NimhCharge, DisconnectForNext, SetOpen
  <2>3. SameReports(toMain, toMain')
    BY <1>4, OtherReports
  <2>4. Reports' /\ Known' /\ Enumeration'
    BY <1>1, <1>4, <2>1, <2>2, <2>3, OtherStep, NotedKnown DEF Locking, Enumeration
  <2>5. Owed'
    BY <1>1, <1>4, <2>1, <2>2, <2>3, OtherOwed DEF Host, UsbHost, Pulled
  <2> QED BY <2>4, <2>5 DEF Locking
<1>5. \/ AuxReceives("DETACH_USB", DetachUsb)
      \/ AuxReceives("DISCONNECT_FOR_NEXT", DisconnectForNext) /\ bt' = "closing"
                                                             /\ ~UNCHANGED toMain
      \/ ~AuxReceives("DETACH_USB", DetachUsb) /\ UNCHANGED <<bt, toMain>>
  <2>1. AuxReceives("DISCONNECT_FOR_NEXT", DisconnectForNext)
          => bt' = "closing" \/ UNCHANGED bt
    BY DEF AuxReceives, DisconnectForNext
  <2>2. AuxReceives("DISCONNECT_FOR_NEXT", DisconnectForNext) /\ ~UNCHANGED bt
          => bt' = "closing" /\ ~UNCHANGED toMain
    BY DEF AuxReceives, DisconnectForNext, SendMain, IInv, TypeOK
  <2>3. AuxReceives("DISCONNECT_FOR_NEXT", DisconnectForNext) /\ ~UNCHANGED toMain
          => bt' = "closing"
    BY DEF AuxReceives, DisconnectForNext
  <2>4. AuxHandles => \/ AuxReceives("DETACH_USB", DetachUsb)
                      \/ AuxReceives("DISCONNECT_FOR_NEXT", DisconnectForNext)
                      \/ UNCHANGED <<bt, toMain>>
    BY DEF AuxHandles, AuxReceives, AttachUsb, NimhCharge, SetOpen
  <2> QED BY <2>1, <2>2, <2>3, <2>4
<1> QED BY <1>2, <1>3, <1>4, <1>5

\* All the others leave Bluetooth, or what was sent of it, as it is.
LEMMA OtherLocks ==
  ASSUME IInv, Locking, Noted,
         \/ PowerPlugged \/ PowerCharge \/ EndPairing
         \/ MainReceives("USB_DETACHED", UsbDetached)
         \/ MainReceives("CHARGE_DONE", ChargeDone)
         \/ MainReceives("CHARGE_FAIL", ChargeFail)
         \/ Enumerate \/ ReportEnumerated \/ StartPairing
         \/ ChargeEnds("CHARGE_DONE") \/ ChargeEnds("CHARGE_FAIL")
         \/ Environment \/ UNCHANGED vars
  PROVE  Locking'
<1> USE DEF mainPower, mainHosts, user, auxUsb, auxBt, Environment, PlugIn, PullOut,
            Debounced, WearDown, vars
<1>1. /\ UNCHANGED <<connected, keep, unlocked, logOff, attached>>
      /\ UNCHANGED bt \/ (bt = "none" /\ bt' = "pairing")
  BY DEF PowerPlugged, PowerCharge, EndPairing, MainReceives, UsbDetached, ChargeDone,
         ChargeFail, Enumerate, ReportEnumerated, StartPairing, ChargeEnds
<1>2. /\ UNCHANGED enumerated
      /\ source = "usb" => source' = "usb"
      /\ source' = "usb" => source = "usb" \/ ~UNCHANGED source
      /\ usbHost => usbHost'
  BY DEF PowerPlugged, MayPlug, PowerCharge, EndPairing, MainReceives, UsbDetached,
         SourceDetached, ChargeDone, ChargeFail, Enumerate, ReportEnumerated,
         StartPairing, ChargeEnds
<1>3. SameReports(toMain, toMain')
  <2>1. CASE UNCHANGED toMain
    BY <2>1, OtherReports
  <2>2. CASE \E x \in {"USB_ENUMERATED", "CHARGE_DONE", "CHARGE_FAIL"} :
               toMain' = Append(toMain, x)
    BY <2>2, EventSent, OtherReports DEF IInv, TypeOK, AuxEvents, BtEvents
  <2>3. CASE /\ toMain # << >> /\ toMain' = Tail(toMain)
             /\ Head(toMain) \in {"USB_DETACHED", "CHARGE_DONE", "CHARGE_FAIL"}
    BY <2>3, EventHandled, OtherReports DEF IInv, TypeOK, BtEvents
  <2> QED BY <2>1, <2>2, <2>3 DEF PowerPlugged, PowerCharge, EndPairing, MainReceives,
             Enumerate, ReportEnumerated, StartPairing, ChargeEnds, SendMain
<1>4. Reports' /\ Known' /\ Enumeration'
  BY <1>1, <1>2, <1>3, OtherStep, NotedKnown DEF Locking, Enumeration
<1>5. (Host => Host' \/ Pulled') /\ (Pulled => Host' \/ Pulled')
  BY <1>1, <1>2 DEF Host, UsbHost, Pulled, BtHosts, IInv, TypeOK
<1>6. Owed'
  BY <1>1, <1>2, <1>3, <1>5, OtherOwed
<1> QED BY <1>4, <1>6 DEF Locking

LEMMA InitLocking == Init => Locking
  BY Empty DEF Init, Locking, Reports, Secured, Gone, Known, Bonds, Enumeration, Owed

LEMMA StepLocking ==
  ASSUME IInv, Locking, [Next]_vars
  PROVE  Locking'
<1>1. Noted
  BY StepNoted DEF Locking
<1>2. CASE Encrypt \/ Paired
  BY <1>1, <1>2, EncryptLocks, PairedLocks
<1>3. CASE Disconnect
  <2>1. /\ bt' = "none"
        /\ UNCHANGED <<connected, keep, unlocked, logOff, source, cable, attached,
                       usbHost, enumerated>>
        /\ Sent(toMain, "BLE_DISCONNECTED", toMain')
    BY <1>3, EventSent DEF Disconnect, SendMain, mainPower, mainHosts, user, auxUsb,
                           IInv, TypeOK, AuxEvents
  <2> QED BY <1>1, <2>1, GoneLocks DEF BtHosts
<1>4. CASE MainHandles
  BY <1>1, <1>4, EnumeratedLocks, ConnectedLocks, DisconnectedLocks, BondLocks, OtherLocks
     DEF MainHandles
<1>5. CASE PowerRoutine \/ SwitchDevice \/ NewPairing \/ EndPairing \/ Unlock \/ LogOff
  BY <1>1, <1>5, UnpluggedLocks, MenuLocks, UnlockLocks, LogOffLocks, OtherLocks
     DEF PowerRoutine
<1> QED BY <1>1, <1>2, <1>3, <1>4, <1>5, AuxHandlesLocks, OtherLocks DEF Next, Main, Aux

\* The last computer that leaves an unlocked device locks it, by whichever way and in
\* whatever order the two MCUs learnt of it, however many messages are on their way:
\* the handlers of the main MCU each look at the other connection, and one of them
\* sees that it is the last.
THEOREM SpecLastHostLocks == Spec => []LastHostLocks
<1>1. Init => IInv /\ Locking
  BY InitIInv, InitLocking
<1>2. IInv /\ Locking /\ [Next]_vars => IInv' /\ Locking'
  BY StepIInv, StepLocking
<1>3. ASSUME IInv, Locking PROVE LastHostLocks
  <2> SUFFICES ASSUME Quiet
               PROVE  /\ No("BLE_CONNECTED", toMain) /\ No("BLE_DISCONNECTED", toMain)
                      /\ ~Pulled
    BY <1>3 DEF LastHostLocks, Locking, Owed, Excused, Leaving
  <2> QED BY Empty DEF Quiet, Pulled
<1> QED BY <1>1, <1>2, <1>3, PTL DEF Spec
=============================================================================
