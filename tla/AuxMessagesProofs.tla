--------------------------- MODULE AuxMessagesProofs ---------------------------
(***************************************************************************)
(* Without PLAT_INFO and typing, whose waits break them (see README.md),   *)
(* the properties of AuxMessages hold for any number of messages of the    *)
(* other kinds in any order.                                               *)
(*                                                                         *)
(* The argument: the main MCU has handled every message but the one in the *)
(* buffer, and four of its variables tell whether that one was handled.    *)
(***************************************************************************)
EXTENDS AuxMessages, TLAPS

\* The hypotheses: the aux MCU is never asked for a reply.
NoRequest == "platinfo" \notin Kinds /\ MaxTyping = 0

\* What is left of the types.
Types ==
  /\ kind \in Seq(HostKinds \cup {"event"})
  /\ \A id \in 1..Len(kind) : kind[id] # "platinfo"
  /\ handled \in Seq(0..2) /\ Len(handled) = Len(kind)
  /\ rx \in Progress
  /\ received \in BOOLEAN /\ answered \in BOOLEAN /\ wantsArm \in BOOLEAN
  /\ frame \in [id : 0..Len(kind), arm : BOOLEAN]
  /\ wait = "no" /\ pending = 0 /\ request = "none" /\ typings = 0
  /\ faults \subseteq {"read", "reply", "sent"}

\* The message in the buffer was handled: from its first bytes, or whole, and
\* then the buffer is armed, or the handler that is under way will arm it.
CurrentHandled == answered \/ rx = "armed" \/ (rx = "done" /\ ~received)

Ledger ==
  /\ \A id \in 1..Len(kind) : id # Len(kind) => handled[id] = 1
  /\ Len(kind) > 0 => handled[Len(kind)] = IF CurrentHandled THEN 1 ELSE 0
  /\ Len(kind) = 0 => rx = "armed"

\* How the flags and the transfer go together.
Flags ==
  /\ received => rx = "done"
  /\ answered => rx = "head" \/ received
  /\ wantsArm <=> (rx = "done" /\ ~received)
  /\ wantsArm => frame.arm
  /\ frame.id = 0 => ~frame.arm

\* A prompt that parses no message keeps the buffer as it is.
Kept ==
  frame.id > 0 /\ kind[frame.id] = "store" =>
    /\ frame.id = Len(kind)
    /\ rx # "started"
    /\ answered \/ wantsArm

Whole == "late" \notin Kinds =>
  /\ \A id \in 1..Len(kind) : kind[id] # "late"
  /\ "read" \notin faults

IInv == Types /\ Ledger /\ Flags /\ Kept /\ Whole

-----------------------------------------------------------------------------
LEMMA InitIInv == Init => IInv
<1> SUFFICES ASSUME Init PROVE IInv
  OBVIOUS
<1>1. Types
  <2>1. kind = <<>> /\ handled = <<>> /\ Len(kind) = 0
    BY DEF Init
  <2>2. frame \in [id : 0..Len(kind), arm : BOOLEAN]
    BY <2>1 DEF Init, NoFrame
  <2>3. kind \in Seq(HostKinds \cup {"event"}) /\ handled \in Seq(0..2)
    BY <2>1
  <2>4. /\ \A id \in 1..Len(kind) : kind[id] # "platinfo"
        /\ Len(handled) = Len(kind)
    BY <2>1
  <2>5. /\ rx \in Progress /\ received \in BOOLEAN /\ answered \in BOOLEAN
        /\ wantsArm \in BOOLEAN /\ wait = "no" /\ pending = 0 /\ request = "none"
        /\ typings = 0 /\ faults \subseteq {"read", "reply", "sent"}
    BY DEF Init, Progress
  <2> QED BY <2>2, <2>3, <2>4, <2>5 DEF Types
<1>2. Ledger /\ Flags /\ Kept /\ Whole
  BY DEF Init, Ledger, Flags, Kept, Whole, NoFrame
<1> QED BY <1>1, <1>2 DEF IInv

\* A new message: the one before it was handled, since the buffer was armed.
LEMMA BeginStep ==
  ASSUME NoRequest, IInv, NEW k \in Kinds \cup Replies, Begin(k)
  PROVE  IInv'
<1>1. k \in Kinds /\ k # "platinfo" /\ k \in HostKinds \cup {"event"}
  BY KindsAssumption DEF Begin, IInv, Types, NoRequest, HostKinds, Replies
<1>2. /\ kind' \in Seq(HostKinds \cup {"event"}) /\ Len(kind') = Len(kind) + 1
      /\ \A id \in 1..Len(kind) : kind'[id] = kind[id]
      /\ kind'[Len(kind) + 1] = k
  BY <1>1 DEF Begin, IInv, Types
<1>3. /\ handled' \in Seq(0..2) /\ Len(handled') = Len(kind) + 1
      /\ \A id \in 1..Len(kind) : handled'[id] = handled[id]
      /\ handled'[Len(kind) + 1] = 0
  BY DEF Begin, IInv, Types
<1>4. Types'
  BY <1>1, <1>2, <1>3 DEF Begin, IInv, Types, NoRequest, Progress
<1>5. Ledger'
  BY <1>2, <1>3 DEF Begin, IInv, Types, Ledger, CurrentHandled, Flags
<1>6. Flags' /\ Kept' /\ Whole'
  BY <1>1, <1>2 DEF Begin, IInv, Types, Flags, Kept, Whole
<1> QED BY <1>4, <1>5, <1>6 DEF IInv

LEMMA ReceiveStep ==
  ASSUME IInv, Receive
  PROVE  IInv'
<1>1. Types'
  BY DEF Receive, Progressed, Completed, IInv, Types, Progress
<1>2. Ledger'
  BY DEF Receive, Progressed, Completed, IInv, Types, Ledger, CurrentHandled, Flags
<1>3. Flags' /\ Kept' /\ Whole'
  BY DEF Receive, Progressed, Completed, IInv, Types, Flags, Kept, Whole
<1> QED BY <1>1, <1>2, <1>3 DEF IInv

\* What Once does to the message in the buffer.
LEMMA OnceCurrent ==
  ASSUME Types, Ledger, Len(kind) > 0, ~CurrentHandled
  PROVE  /\ Once(Current) \in Seq(0..2) /\ Len(Once(Current)) = Len(kind)
         /\ \A id \in 1..Len(kind) : Once(Current)[id] = 1
  BY DEF Types, Ledger, Once, Current

\* Handling starts when there is a message in the buffer that was not handled.
LEMMA DealsWithNew ==
  ASSUME Types, Ledger, Flags, Complete \/ FirstBytes
  PROVE  /\ Len(kind) > 0 /\ ~CurrentHandled
         /\ Complete <=> rx = "done"
         /\ FirstBytes <=> rx = "head"
         /\ rx \in {"head", "done"} /\ Entered = rx /\ ~wantsArm
<1>1. CASE Complete
  <2>1. rx = "done" /\ received /\ ~answered /\ ~wantsArm
    BY <1>1 DEF Types, Flags, Complete
  <2> QED BY <1>1, <2>1 DEF Types, Ledger, Complete, FirstBytes, CurrentHandled, Entered
<1>2. CASE FirstBytes
  <2>1. ~received /\ ~answered /\ Len(kind) > 0
    BY <1>2 DEF Types, FirstBytes, Current
  <2>2. rx = "head"
    BY <1>2 DEF Types, Flags, FirstBytes, Entered, Armed, Progress, Called, NoFrame
  <2>3. ~wantsArm
    BY <2>2 DEF Flags
  <2> QED BY <1>2, <2>1, <2>2, <2>3 DEF Types, Complete, CurrentHandled, Entered
<1> QED BY <1>1, <1>2

LEMMA NoMessageStep ==
  ASSUME IInv, NoMessage
  PROVE  IInv'
<1> USE DEF IInv, NoMessage
<1>1. /\ rx = "done" /\ rx' = "armed"
      /\ received' = FALSE /\ answered' = FALSE /\ wantsArm' = FALSE
      /\ received => answered
      /\ Called => kind[frame.id] # "store"
  BY DEF Types, Flags, AlreadyAnswered, Entered, Armed, StillAnswered, Prompting,
         ParsingKinds, FirstBytes, Called, NoFrame, Progress
<1>2. Types'
  BY <1>1 DEF Types, Progress
<1>3. Ledger'
  BY <1>1 DEF Types, Ledger, CurrentHandled
<1>4. Flags' /\ Kept' /\ Whole'
  BY <1>1 DEF Types, Flags, Kept, Whole, Called, NoFrame
<1> QED BY <1>2, <1>3, <1>4

LEMMA HandleNowStep ==
  ASSUME IInv, HandleNow
  PROVE  IInv'
<1> USE DEF IInv, HandleNow
<1>1. /\ Len(kind) > 0 /\ ~CurrentHandled /\ ~wantsArm
      /\ rx \in {"head", "done"} /\ Entered = rx
      /\ Complete <=> rx = "done"
      /\ FirstBytes <=> rx = "head"
  BY DealsWithNew
<1>2. /\ handled' \in Seq(0..2) /\ Len(handled') = Len(kind)
      /\ \A id \in 1..Len(kind) : handled'[id] = 1
  BY <1>1, OnceCurrent
<1>3. /\ rx' = IF rx = "done" THEN "armed" ELSE "head"
      /\ received' = FALSE /\ wantsArm' = FALSE
      /\ answered' \in BOOLEAN /\ (answered' <=> rx = "head")
  BY <1>1 DEF Armed, FirstBytes
<1>4. faults' \subseteq {"read", "reply", "sent"} /\ ("read" \in faults' => "read" \in faults)
  <2>1. ReadFault(Current) = {}
    BY <1>1 DEF ReadFault
  <2>2. WriteFault \subseteq {"sent"}
    BY DEF WriteFault
  <2>3. faults' = faults \/ faults' = faults \cup WriteFault
    BY <2>1
  <2> QED BY <2>2, <2>3 DEF Types
<1>5. Called => kind[frame.id] # "store"
  BY DEF Prompting, ParsingKinds
<1>6. Types'
  BY <1>2, <1>3, <1>4 DEF Types, Progress
<1>7. Ledger'
  BY <1>1, <1>2, <1>3 DEF Types, Ledger, CurrentHandled
<1>8. Flags' /\ Kept' /\ Whole'
  BY <1>1, <1>3, <1>4, <1>5 DEF Types, Flags, Kept, Whole, Called, NoFrame
<1> QED BY <1>6, <1>7, <1>8

LEMMA EnterHandlerStep ==
  ASSUME IInv, EnterHandler
  PROVE  IInv'
<1> USE DEF IInv, EnterHandler
<1>1. /\ Len(kind) > 0 /\ ~CurrentHandled /\ ~wantsArm
      /\ rx \in {"head", "done"}
      /\ Complete <=> rx = "done"
      /\ FirstBytes <=> rx = "head"
  BY DealsWithNew
<1>2. /\ handled' \in Seq(0..2) /\ Len(handled') = Len(kind)
      /\ \A id \in 1..Len(kind) : handled'[id] = 1
  BY <1>1, OnceCurrent
<1>3. /\ frame' \in [id : {Len(kind)}, arm : BOOLEAN] /\ (frame'.arm <=> rx = "done")
      /\ received' = FALSE /\ rx' = rx
      /\ wantsArm' \in BOOLEAN /\ (wantsArm' <=> rx = "done")
      /\ answered' \in BOOLEAN /\ (answered' <=> rx = "head")
  BY <1>1 DEF NotedWish, Current, Complete, FirstBytes
<1>4. faults' \subseteq {"read", "reply", "sent"} /\ ("read" \in faults' => "read" \in faults)
  <2>1. ReadFault(Current) = {}
    BY <1>1 DEF ReadFault
  <2> QED BY <2>1 DEF Types, WriteFault
<1>5. Types'
  <2>1. kind[Len(kind)] # "platinfo" /\ wait' = "no"
    BY <1>1 DEF Types, Current
  <2>2. frame' \in [id : 0..Len(kind), arm : BOOLEAN]
    BY <1>3 DEF Types
  <2> QED BY <1>2, <1>3, <1>4, <2>1, <2>2 DEF Types, Progress
<1>6. Ledger'
  BY <1>1, <1>2, <1>3 DEF Types, Ledger, CurrentHandled
<1>7. Flags' /\ Kept' /\ Whole'
  BY <1>1, <1>3, <1>4 DEF Types, Flags, Kept, Whole
<1> QED BY <1>5, <1>6, <1>7

LEMMA EndHandlerStep ==
  ASSUME IInv, EndHandler
  PROVE  IInv'
<1> USE DEF IInv, EndHandler
<1>1. /\ frame.id \in 1..Len(kind)
      /\ rx' = IF wantsArm THEN "armed" ELSE rx
      /\ ~wantsArm'
      /\ frame' = NoFrame
  BY DEF Types, Flags, Called, NoFrame, EndRearms, Armed
<1>2. faults' \subseteq {"read", "reply", "sent"}
  BY DEF Types, ReadFault, WriteFault
<1>3. "late" \notin Kinds => "read" \notin faults'
  <2> SUFFICES ASSUME "late" \notin Kinds
               PROVE  "read" \notin faults'
    OBVIOUS
  <2>1. CASE kind[frame.id] = "store"
    BY <2>1, <1>1 DEF Kept, Whole, ReadFault, WriteFault, Current
  <2>2. CASE kind[frame.id] # "store"
    BY <2>2, <1>1 DEF Whole, ReadFault, WriteFault
  <2> QED BY <2>1, <2>2
<1>4. Types'
  BY <1>1, <1>2 DEF Types, NoFrame, Progress
<1>5. Ledger'
  BY <1>1 DEF Types, Ledger, CurrentHandled, Flags
<1>6. Flags' /\ Kept' /\ Whole'
  BY <1>1, <1>3 DEF Types, Flags, Kept, Whole, NoFrame
<1> QED BY <1>4, <1>5, <1>6

\* No wait is ever entered, and IInv does not speak of the send buffer.
LEMMA OtherSteps ==
  ASSUME NoRequest, IInv,
         TxDone \/ AskDetails \/ GotReply \/ SetAside \/ HandleAside \/ StartTyping
         \/ UNCHANGED vars
  PROVE  IInv'
<1>1. CASE TxDone \/ UNCHANGED vars
  <2>1. UNCHANGED <<kind, rx, received, answered, wantsArm, frame, wait, pending,
                    request, typings, handled, faults>>
    BY <1>1 DEF TxDone, vars, rxVars
  <2>2. Types' /\ Ledger'
    BY <2>1 DEF IInv, Types, Ledger, CurrentHandled
  <2>3. Flags' /\ Kept' /\ Whole'
    BY <2>1 DEF IInv, Flags, Kept, Whole
  <2> QED BY <2>2, <2>3 DEF IInv
<1>2. CASE AskDetails \/ GotReply \/ SetAside \/ HandleAside \/ StartTyping
  BY <1>2 DEF AskDetails, GotReply, SetAside, HandleAside, StartTyping, IInv, Types,
              NoRequest, Replies
<1> QED BY <1>1, <1>2

LEMMA StepIInv ==
  ASSUME NoRequest, IInv, [Next]_vars
  PROVE  IInv'
  BY BeginStep, ReceiveStep, NoMessageStep, HandleNowStep, EnterHandlerStep,
     EndHandlerStep, OtherSteps DEF Next, Aux, Main

\* The invariant gives the properties.
LEMMA IInvImplies ==
  ASSUME IInv
  PROVE  /\ HandledOnce /\ NothingDropped /\ FlagIsComplete /\ NeverDeaf
         /\ "late" \notin Kinds => WholeMessage
  BY DEF IInv, Types, Ledger, Flags, Whole, HandledOnce, NothingDropped,
         FlagIsComplete, NeverDeaf, WholeMessage, Current, Called, NoFrame

\* The receive path, whatever interrupts whatever: no message is handled twice, by
\* the main loop and by a prompt, or from its first bytes and when it is complete.
THEOREM MessagesHandledOnce ==
  ASSUME NoRequest
  PROVE  Spec => []HandledOnce
<1>1. IInv /\ [Next]_vars => IInv'
  BY StepIInv
<1>2. IInv => HandledOnce
  BY IInvImplies
<1> QED BY InitIInv, <1>1, <1>2, PTL DEF Spec

\* The next message of the aux MCU overwrites the receive buffer only after the one
\* in it was handled: the buffer is not rearmed too early, by either call.
THEOREM MessagesNotDropped ==
  ASSUME NoRequest
  PROVE  Spec => []NothingDropped
<1>1. IInv /\ [Next]_vars => IInv'
  BY StepIInv
<1>2. IInv => NothingDropped
  BY IInvImplies
<1> QED BY InitIInv, <1>1, <1>2, PTL DEF Spec

\* The packet received flag is never up for a message whose transfer goes on: the
\* flag of one message does not survive the rearming for the next.
THEOREM MessagesComplete ==
  ASSUME NoRequest
  PROVE  Spec => []FlagIsComplete
<1>1. IInv /\ [Next]_vars => IInv'
  BY StepIInv
<1>2. IInv => FlagIsComplete
  BY IInvImplies
<1> QED BY InitIInv, <1>1, <1>2, PTL DEF Spec

\* The main MCU never leaves the buffer unarmed, and the aux MCU kept quiet, without
\* the flag that makes its next call rearm.
THEOREM MessagesHeard ==
  ASSUME NoRequest
  PROVE  Spec => []NeverDeaf
<1>1. IInv /\ [Next]_vars => IInv'
  BY StepIInv
<1>2. IInv => NeverDeaf
  BY IInvImplies
<1> QED BY InitIInv, <1>1, <1>2, PTL DEF Spec

\* A handler that reads its message after a prompt reads its own message, given
\* that only prompts which parse no message are displayed before such a read.
THEOREM MessagesReadWhole ==
  ASSUME NoRequest, "late" \notin Kinds
  PROVE  Spec => []WholeMessage
<1>1. IInv /\ [Next]_vars => IInv'
  BY StepIInv
<1>2. IInv => WholeMessage
  BY IInvImplies
<1> QED BY InitIInv, <1>1, <1>2, PTL DEF Spec
=============================================================================
