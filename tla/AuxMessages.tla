------------------------------ MODULE AuxMessages ------------------------------
(***************************************************************************)
(* The main MCU's side of the serial link with the aux MCU                 *)
(* (comms_aux_mcu.c, dma.c) and the waits built on it: prompts that keep   *)
(* answering messages (gui_prompts.c), the request of the aux MCU's        *)
(* details (comms_hid_msgs.c) and the wait for the end of typing           *)
(* (logic_user.c).                                                         *)
(*                                                                         *)
(* There is one receive buffer, filled by DMA.  A transfer that completes  *)
(* raises no_comms, which keeps the aux MCU quiet until the buffer is      *)
(* armed again.  The main MCU may answer a message from its first bytes,   *)
(* before the transfer completes, and comms_aux_mcu_routine may be called  *)
(* again from a prompt that the handling of a message displays.            *)
(*                                                                         *)
(* Messages are numbered in the order the aux MCU sends them; a message's  *)
(* contents are its number.  Assumed of the hardware: arming a transfer    *)
(* that is in progress does not disturb it, and an armed channel reports   *)
(* no received byte before the first one.  All messages are valid and of   *)
(* a legal length.                                                         *)
(***************************************************************************)
EXTENDS Naturals, Sequences

CONSTANTS
  Kinds,        \* kinds of messages the aux MCU sends of its own accord
  MaxMessages,  \* bound on those messages
  MaxTyping     \* bound on the number of times the device types a credential

\* Messages by what their handler does with the buffers:
\*   event     handled at once, no answer          (aux MCU events)
\*   ask       prompts, uses copies afterwards     (GET_CREDENTIAL, START_MMM)
\*   late      prompts, then reads the message     (GET_ASSERTION, SET_CATEGORIES_STR)
\*   store     same, the prompt parses no message  (STORE_CREDENTIAL)
\*   pin       prepares its answer, then prompts   (BLE 6 digit code)
\*   platinfo  asks the aux MCU for its details    (PLAT_INFO)
HostKinds == {"ask", "late", "store", "pin", "platinfo"}
Replies == {"details", "typed"}

ASSUME KindsAssumption == Kinds \subseteq HostKinds \cup {"event"}
ASSUME BoundsAssumption == MaxMessages \in Nat /\ MaxTyping \in Nat

VARIABLES
  kind,      \* kinds of the messages whose transfer has begun
  rx,        \* transfer into aux_mcu_receive_message: see Progress
  received,  \* dma_aux_mcu_packet_received
  answered,  \* aux_mcu_message_answered_using_first_bytes
  wantsArm,  \* aux_mcu_comms_prev_aux_mcu_routine_wants_to_arm_rx
  frame,     \* the message being handled, and its arm_rx_transfer
  wait,      \* what the handling or the typing actively waits for
  pending,   \* message set aside by active_wait, after it rearmed: 0 for none
  request,   \* reply the aux MCU owes
  tx,        \* message answered by the contents of aux_mcu_send_message
  sending,   \* that of the send transfer in progress: 0 for none
  typings,   \* credentials typed
  handled,   \* history: how many times each message was handled
  faults     \* history: misuses of the two buffers

rxVars == <<kind, rx, received>>
txVars == <<tx, sending>>
vars == <<kind, rx, received, answered, wantsArm, frame, wait, pending,
          request, tx, sending, typings, handled, faults>>

\* armed: no byte yet; started: too little to answer; head: the payload is
\* there; done: complete, no_comms is up and the transfer is to be rearmed
Progress == {"armed", "started", "head", "done"}
Waits == {"no", "current"} \cup Replies
NoFrame == [id |-> 0, arm |-> FALSE]

TypeOK ==
  /\ kind \in Seq(HostKinds \cup Replies \cup {"event"})
  /\ rx \in Progress
  /\ received \in BOOLEAN /\ answered \in BOOLEAN /\ wantsArm \in BOOLEAN
  /\ frame \in [id : 0..Len(kind), arm : BOOLEAN]
  /\ wait \in Waits
  /\ request \in Replies \cup {"none"}
  /\ {pending, tx, sending} \subseteq 0..Len(kind)
  /\ typings \in 0..MaxTyping
  /\ handled \in Seq(0..2) /\ Len(handled) = Len(kind)
  /\ faults \subseteq {"read", "reply", "sent"}

Init ==
  /\ kind = <<>> /\ rx = "armed" /\ received = FALSE
  /\ answered = FALSE /\ wantsArm = FALSE
  /\ frame = NoFrame /\ wait = "no" /\ pending = 0 /\ request = "none"
  /\ tx = 0 /\ sending = 0 /\ typings = 0
  /\ handled = <<>> /\ faults = {}

-----------------------------------------------------------------------------
(* The aux MCU and the two DMA channels. *)

Sent == Len(SelectSeq(kind, LAMBDA k : k \notin Replies))

\* dma_main_mcu_init_tx_transfer of the aux MCU waits for no_comms to be clear.
Begin(k) ==
  /\ rx = "armed"
  /\ \/ k \in Kinds /\ Sent < MaxMessages /\ UNCHANGED request
     \/ k = request /\ request' = "none"
  /\ kind' = Append(kind, k)
  /\ handled' = Append(handled, 0)
  /\ rx' = "started"
  /\ UNCHANGED <<received, answered, wantsArm, frame, wait, pending, txVars,
                 typings, faults>>

Progressed ==
  /\ rx = "started" /\ rx' = "head"
  /\ UNCHANGED <<kind, received>>

Completed ==
  /\ rx \in {"started", "head"}
  /\ rx' = "done" /\ received' = TRUE
  /\ UNCHANGED kind

Receive ==
  /\ Progressed \/ Completed
  /\ UNCHANGED <<answered, wantsArm, frame, wait, pending, request, txVars,
                 typings, handled, faults>>

TxDone ==
  /\ sending # 0 /\ sending' = 0
  /\ UNCHANGED <<rxVars, answered, wantsArm, frame, wait, pending, request, tx,
                 typings, handled, faults>>

-----------------------------------------------------------------------------
(* What handlers do with the buffers. *)

Current == Len(kind)   \* the message in the receive buffer

Armed(r) == IF r = "done" THEN "armed" ELSE r

Once(id) == [handled EXCEPT ![id] = IF @ = 2 THEN 2 ELSE @ + 1]

\* Reading message id when the buffer holds a part of it, or another message.
ReadFault(id) ==
  IF id # Current \/ rx = "started" THEN {"read"} ELSE {}

\* aux_mcu_send_message is written while its DMA transfer is in progress.
WriteFault == IF sending # 0 THEN {"sent"} ELSE {}

Prepare(id) == tx' = id /\ UNCHANGED sending
Answer(id) == tx' = id /\ sending' = id

-----------------------------------------------------------------------------
(* comms_aux_mcu_routine.  Called is its recursivity flag.                  *)

Called == frame # NoFrame

\* Prompts that call comms_aux_mcu_routine (parse_aux_messages).
\* Mutant: every prompt does.
ParsingKindsAll == {"ask", "late", "pin", "store"}
ParsingKinds == {"ask", "late", "pin"}
Prompting == Called /\ wait = "no" /\ kind[frame.id] \in ParsingKinds

\* On entry: rearm if the call that this one interrupts wanted to.
\* Mutant: the call leaves it to the interrupted one.
EnteredUnarmed == rx
Entered == IF Called /\ wantsArm THEN Armed(rx) ELSE rx

\* Which message it deals with, and whether to rearm afterwards.
Complete == received /\ ~answered
FirstBytes == ~received /\ ~answered /\ Entered \in {"head", "done"} /\ Current > 0
AlreadyAnswered == received /\ answered

\* aux_mcu_message_answered_using_first_bytes after a call that deals with no
\* message.  Mutant: it is not reset.
StillAnsweredAlways == answered
StillAnswered == answered /\ ~received

\* Whether to rearm in the end, noted for the calls that interrupt this one.
NotedWish == wantsArm \/ Complete

\* At the end, unless a call in between did it.  Mutant: whatever it did.
EndRearmsAlways == frame.arm
EndRearms == frame.arm /\ wantsArm

\* Nothing to deal with, or a message that was answered from its first bytes.
NoMessage ==
  /\ wait = "no" /\ (Called => Prompting)
  /\ \/ AlreadyAnswered /\ rx' = Armed(Entered)
     \/ ~received /\ ~FirstBytes /\ Called /\ wantsArm /\ rx' = Entered
  /\ received' = FALSE
  /\ answered' = StillAnswered
  /\ wantsArm' = (wantsArm /\ ~Called)
  /\ UNCHANGED <<kind, frame, wait, pending, request, txVars, typings, handled,
                 faults>>

\* Messages that need no answer, and those a prompt or a screen that restricts
\* messages ignores (the pin request) or answers with "please retry".
HandleNow ==
  /\ wait = "no" /\ (Called => Prompting)
  /\ Complete \/ FirstBytes
  /\ rx' = IF Complete THEN Armed(Entered) ELSE Entered
  /\ received' = FALSE
  /\ answered' = FirstBytes
  /\ wantsArm' = (wantsArm /\ ~Complete /\ ~Called)
  /\ handled' = Once(Current)
  /\ IF kind[Current] \in HostKinds \ {"pin"}
     THEN Answer(Current) /\ faults' = faults \cup ReadFault(Current) \cup WriteFault
     ELSE UNCHANGED txVars /\ faults' = faults \cup ReadFault(Current)
  /\ UNCHANGED <<kind, frame, wait, pending, request, typings>>

\* The main loop enters the handler of a host message, which takes time.
EnterHandler ==
  /\ wait = "no" /\ ~Called
  /\ Complete \/ FirstBytes
  /\ kind[Current] \in HostKinds
  /\ frame' = [id |-> Current, arm |-> Complete]
  /\ wait' = IF kind[Current] = "platinfo" THEN "current" ELSE "no"
  /\ received' = FALSE
  /\ answered' = FirstBytes
  /\ wantsArm' = NotedWish
  /\ handled' = Once(Current)
  /\ Prepare(Current)
  /\ faults' = faults \cup ReadFault(Current) \cup WriteFault
  /\ UNCHANGED <<kind, rx, pending, request, typings>>

\* The handler ends: its answer is completed and sent, the buffer rearmed
\* unless a prompt did it.
EndHandler ==
  LET id == frame.id IN
  /\ Called /\ wait = "no"
  /\ IF kind[id] = "pin"
     THEN /\ sending' = tx /\ UNCHANGED tx
          /\ faults' = faults \cup (IF tx # id THEN {"reply"} ELSE {})
     ELSE /\ Answer(id)
          /\ faults' = faults \cup WriteFault \cup
                       (IF kind[id] \in {"late", "store"} THEN ReadFault(id) ELSE {})
  /\ rx' = IF EndRearms THEN Armed(rx) ELSE rx
  /\ wantsArm' = (wantsArm /\ ~frame.arm)
  /\ frame' = NoFrame
  /\ UNCHANGED <<kind, received, answered, wait, pending, request, typings, handled>>

-----------------------------------------------------------------------------
(* Requests to the aux MCU and comms_aux_mcu_active_wait. *)

\* The buffer to send is taken once free, and the request sent to its end.
Request(reply) == request' = reply /\ tx' = 0 /\ sending' = 0

\* PLAT_INFO, once the message that asks for it is wholly received.
AskDetails ==
  /\ wait = "current" /\ rx = "done"
  /\ Request("details") /\ wait' = "details"
  /\ rx' = "armed" /\ received' = FALSE
  /\ UNCHANGED <<kind, answered, wantsArm, frame, pending, typings, handled, faults>>

StartTyping ==
  /\ wait = "no" /\ ~Called /\ typings < MaxTyping
  /\ typings' = typings + 1
  /\ Request("typed") /\ wait' = "typed"
  /\ UNCHANGED <<rxVars, answered, wantsArm, frame, pending, handled, faults>>

\* The buffer is rearmed after a reply, and for the next message before another
\* one is dealt with.  Mutant: it is not.
AfterWaitUnarmed == rx
AfterWait == Armed(rx)

\* The reply: PLAT_INFO leaves dma_aux_mcu_packet_received as it is.
GotReply ==
  /\ wait \in Replies /\ pending = 0 /\ received /\ kind[Current] = wait
  /\ wait' = "no"
  /\ handled' = Once(Current)
  /\ received' = (wait = "details")
  /\ rx' = AfterWait
  /\ faults' = faults \cup ReadFault(Current)
  /\ UNCHANGED <<kind, answered, wantsArm, frame, pending, request, txVars, typings>>

\* Another message: the buffer is rearmed first...
SetAside ==
  /\ wait \in Replies /\ pending = 0 /\ received /\ kind[Current] # wait
  /\ pending' = Current
  /\ received' = FALSE
  /\ rx' = AfterWait
  /\ UNCHANGED <<kind, answered, wantsArm, frame, wait, request, txVars, typings,
                 handled, faults>>

\* ... and the message dealt with from it: retry for the host, nothing for events.
HandleAside ==
  /\ pending # 0 /\ pending' = 0
  /\ IF kind[pending] \in HostKinds
     THEN /\ handled' = Once(pending)
          /\ IF kind[pending] = "pin" THEN UNCHANGED txVars ELSE Answer(pending)
          /\ faults' = faults \cup ReadFault(pending) \cup
                       (IF kind[pending] = "pin" THEN {} ELSE WriteFault)
     ELSE UNCHANGED <<txVars, handled, faults>>
  /\ UNCHANGED <<rxVars, answered, wantsArm, frame, wait, request, typings>>

-----------------------------------------------------------------------------
Aux == \E k \in Kinds \cup Replies : Begin(k)

Main ==
  \/ NoMessage \/ HandleNow \/ EnterHandler \/ EndHandler
  \/ AskDetails \/ GotReply \/ SetAside \/ HandleAside

Next == Aux \/ Receive \/ TxDone \/ Main \/ StartTyping

Spec == Init /\ [][Next]_vars

\* DMA transfers progress, the aux MCU answers requests, the main thread keeps
\* running and a prompt ends, at the latest with its timeout.
FairSpec ==
  /\ Spec
  /\ WF_vars(Receive) /\ WF_vars(TxDone) /\ WF_vars(Main)
  /\ WF_vars(\E k \in Replies : Begin(k))

-----------------------------------------------------------------------------
(* Properties. *)

\* The packet received flag stands for a message that is complete in the buffer,
\* not for one that is being received.
FlagIsComplete == received => rx = "done"

\* No message is handled twice: not from its first bytes and again when it is
\* complete, not by a prompt and again by the call the prompt interrupts
\* (aux_mcu_message_answered_using_first_bytes, the recursivity flags).
HandledOnce == \A id \in 1..Len(kind) : handled[id] < 2

\* The next message overwrites the buffer only after the one in it was handled,
\* or set aside by an active wait about to deal with it.
NothingDropped ==
  \A id \in 1..Len(kind) : id # Current => handled[id] > 0 \/ id = pending

\* A handler reads the whole of its own message, whatever is received while
\* it prompts.
WholeMessage == "read" \notin faults

\* A handler sends the answer it prepared, to the request it answers.  Messages
\* answered during the prompt for the pairing PIN break it (AuxMessagesPin.cfg).
OwnReply == "reply" \notin faults

\* aux_mcu_send_message is not written while a transfer sends it.  Two answers in
\* a row break it (AuxMessagesReplies.cfg).
SentIntact == "sent" \notin faults

\* The main MCU never keeps the aux MCU quiet without knowing it: with no_comms
\* up and nothing under way, the flag that makes it rearm the buffer is set.
NeverDeaf ==
  rx = "done" /\ ~Called /\ wait = "no" => received

\* Every message of the aux MCU is handled in the end.
EveryMessageHandled ==
  \A id \in 1..MaxMessages : Len(kind) >= id ~> Len(kind) >= id /\ handled[id] > 0
=============================================================================
