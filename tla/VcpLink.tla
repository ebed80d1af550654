-------------------------------- MODULE VcpLink --------------------------------
(***************************************************************************)
(* example/stm32f4/src: the board's virtual COM port, from the CDC class's *)
(* interrupt handlers to the main loop that gathers and executes requests. *)
(*                                                                         *)
(* The USB interrupt may come between any two steps of the main loop.  The *)
(* two share s_RxBuffer and TxState and hand the receive buffer over with  *)
(* ReadDone and the OUT endpoint: an endpoint that is not armed refuses    *)
(* the host's packets.  The host may reset the bus and configure the       *)
(* device again at any time.  Bytes are named by their place in the host's *)
(* stream; no packet is empty.                                             *)
(***************************************************************************)
EXTENDS Integers, Sequences, FiniteSets

CONSTANTS
  PacketSize, \* bytes in a packet (CDC_DATA_FS_OUT_PACKET_SIZE, 64)
  MaxBytes,   \* bound on the bytes the host sends
  Newlines,   \* places in the stream that hold a line end
  MaxResets   \* bound on the times the host configures the device again

ASSUME ConstantsAssumption ==
  /\ PacketSize \in Nat \ {0} /\ MaxBytes \in Nat /\ MaxResets \in Nat
  /\ Newlines \subseteq Nat

VARIABLES
  \* s_RxBuffer
  Buffer, Position, Size, ReadDone,
  \* the CDC class
  pClassData,   \* "null" or "live"
  TxState,      \* 1 while an answer is said to be under way
  \* the controller
  armed,        \* 1 while the OUT endpoint accepts a packet
  sending,      \* 1 while the IN endpoint has an answer
  \* the main loop
  pc,
  hand,         \* what VCP_read has loaded: position and byte
  request,      \* the bytes gathered, without line ends
  \* the host, and history
  wire,         \* sizes of the packets that wait for the endpoint
  sent, received, \* bytes the host sent, and those that arrived
  consumed,     \* bytes of the requests executed
  resets

rx == <<Buffer, Position, Size, ReadDone>>
loop == <<pc, hand, request, consumed>>
host == <<wire, sent, received, resets>>
vars == <<rx, pClassData, TxState, armed, sending, loop, host>>

NoHand == [position |-> 0, byte |-> 0]

-----------------------------------------------------------------------------
\* The host configures the device while main() waits four seconds.
Init ==
  /\ Buffer = <<>> /\ Position = 0 /\ Size = 0 /\ ReadDone = 0
  /\ pClassData = "null" /\ TxState = 0 /\ armed = 0 /\ sending = 0
  /\ pc = "read" /\ hand = NoHand /\ request = <<>> /\ consumed = <<>>
  /\ wire = <<>> /\ sent = 0 /\ received = 0
  /\ resets = 0

-----------------------------------------------------------------------------
(***************************************************************************)
(* Interrupts: the configuration of the device, and the two endpoints.     *)
(***************************************************************************)
\* Mutant: a fresh class handle keeps the state of the old one.
ConfigureKeepingTx ==
  /\ pClassData = "null"
  /\ pClassData' = "live" /\ armed' = 1
  /\ UNCHANGED <<rx, TxState, sending, loop, host>>

\* USBD_CDC_Init arms the endpoint, whatever s_RxBuffer says.
Configure ==
  /\ pClassData = "null"
  /\ pClassData' = "live" /\ TxState' = 0 /\ armed' = 1
  /\ UNCHANGED <<rx, sending, loop, host>>

\* USBD_CDC_DeInit closes the endpoints; what they held is lost.
Deconfigure ==
  /\ pClassData = "live" /\ resets < MaxResets
  /\ pClassData' = "null" /\ armed' = 0 /\ sending' = 0
  /\ resets' = resets + 1
  /\ UNCHANGED <<rx, TxState, loop, wire, sent, received>>

\* Mutant: the sizes of packets add up.
DataOutAdds ==
  /\ armed = 1 /\ wire # <<>>
  /\ Buffer' = [n \in 1..Head(wire) |-> received + n]
  /\ Position' = 0 /\ Size' = Size + Head(wire) /\ ReadDone' = 1
  /\ armed' = 0
  /\ received' = received + Head(wire) /\ wire' = Tail(wire)
  /\ UNCHANGED <<pClassData, TxState, sending, loop, sent, resets>>

\* A packet fills s_RxBuffer; the endpoint stays closed until it is read.
DataOut ==
  /\ armed = 1 /\ wire # <<>>
  /\ Buffer' = [n \in 1..Head(wire) |-> received + n]
  /\ Position' = 0 /\ Size' = Head(wire) /\ ReadDone' = 1
  /\ armed' = 0
  /\ received' = received + Head(wire) /\ wire' = Tail(wire)
  /\ UNCHANGED <<pClassData, TxState, sending, loop, sent, resets>>

\* The host has taken the answer.
DataIn ==
  /\ sending = 1
  /\ sending' = 0
  /\ TxState' = IF pClassData = "live" THEN 0 ELSE TxState
  /\ UNCHANGED <<rx, pClassData, armed, loop, host>>

-----------------------------------------------------------------------------
(***************************************************************************)
(* The main loop: VCP_read, a byte a call, until it returns 0, then the    *)
(* request gathered is executed, whole or not.                             *)
(***************************************************************************)
Read ==
  /\ pc = "read" /\ ReadDone = 1 /\ Position < Size
  /\ hand' = [position |-> Position, byte |-> Buffer[Position + 1]]
  /\ pc' = "advance"
  /\ UNCHANGED <<rx, pClassData, TxState, armed, sending, request, consumed,
                 host>>

\* Mutant: the end of the packet is met exactly or not at all.
AdvanceExact ==
  /\ pc = "advance"
  /\ Position' = hand.position + 1
  /\ pc' = IF Position' = Size THEN "release" ELSE "read"
  /\ request' = IF hand.byte \in Newlines THEN request
                ELSE Append(request, hand.byte)
  /\ UNCHANGED <<Buffer, Size, ReadDone, pClassData, TxState, armed, sending,
                 hand, consumed, host>>

\* Mutant: a byte too few is left in the packet.
AdvanceEarly ==
  /\ pc = "advance"
  /\ Position' = hand.position + 1
  /\ pc' = IF Position' >= Size - 1 THEN "release" ELSE "read"
  /\ request' = IF hand.byte \in Newlines THEN request
                ELSE Append(request, hand.byte)
  /\ UNCHANGED <<Buffer, Size, ReadDone, pClassData, TxState, armed, sending,
                 hand, consumed, host>>

\* The position is written back and compared; the byte that VCP_read will
\* return goes to the request at once, which no interrupt looks at.
Advance ==
  /\ pc = "advance"
  /\ Position' = hand.position + 1
  /\ pc' = IF Position' >= Size THEN "release" ELSE "read"
  /\ request' = IF hand.byte \in Newlines THEN request
                ELSE Append(request, hand.byte)
  /\ UNCHANGED <<Buffer, Size, ReadDone, pClassData, TxState, armed, sending,
                 hand, consumed, host>>

Release(from, to) ==
  /\ pc = from /\ ReadDone' = 0 /\ pc' = to
  /\ UNCHANGED <<Buffer, Position, Size, pClassData, TxState, armed, sending,
                 hand, request, consumed, host>>

\* USBD_CDC_ReceivePacket.
Rearm(from, to) ==
  /\ pc = from /\ pc' = to
  /\ armed' = IF pClassData = "live" THEN 1 ELSE armed
  /\ UNCHANGED <<rx, pClassData, TxState, sending, hand, request, consumed,
                 host>>

\* Mutant: the endpoint is armed before the flag is cleared.
EndOfPacketSwapped == Rearm("release", "rearm") \/ Release("rearm", "read")

EndOfPacket == Release("release", "rearm") \/ Rearm("rearm", "read")

\* VCP_read returns 0: there is nothing more for now.
Gathered ==
  /\ pc = "read" /\ (ReadDone = 0 \/ Position >= Size) /\ request # <<>>
  /\ pc' = "execute"
  /\ UNCHANGED <<rx, pClassData, TxState, armed, sending, hand, request,
                 consumed, host>>

\* VCP_write: dropped while an earlier answer is under way.  With no class
\* handle USBD_CDC_SetTxBuffer writes through a null pointer.
Answer ==
  \/ pClassData = "live" /\ TxState = 0 /\ TxState' = 1 /\ pc' = "transmit"
  \/ pClassData = "live" /\ TxState = 1 /\ pc' = "read" /\ UNCHANGED TxState
  \/ pClassData = "null" /\ pc' \in {"read", "fault"} /\ UNCHANGED TxState

\* Some commands have no answer.
Silence == pc' = "read" /\ UNCHANGED TxState

\* Mutant: what was executed stays in the request.
ExecutingKeeps ==
  /\ pc = "execute"
  /\ consumed' = consumed \o request /\ request' = request
  /\ UNCHANGED <<rx, pClassData, armed, sending, hand, host>>

Executing ==
  /\ pc = "execute"
  /\ consumed' = consumed \o request /\ request' = <<>>
  /\ UNCHANGED <<rx, pClassData, armed, sending, hand, host>>

Execute == Executing /\ (Answer \/ Silence)

\* USBD_LL_Transmit: an endpoint closed in between may keep the answer for
\* when it opens again, or lose it.
Transmit ==
  /\ pc = "transmit" /\ pc' = "read"
  /\ sending' \in IF pClassData = "live" THEN {1} ELSE {0, 1}
  /\ UNCHANGED <<rx, pClassData, TxState, armed, hand, request, consumed, host>>

-----------------------------------------------------------------------------
\* The host sends packets of any size.
HostSends ==
  /\ \E n \in 1..PacketSize :
       sent + n <= MaxBytes /\ sent' = sent + n /\ wire' = Append(wire, n)
  /\ UNCHANGED <<rx, pClassData, TxState, armed, sending, loop, received,
                 resets>>

Interrupt == Configure \/ Deconfigure \/ DataOut \/ DataIn
Loop == Read \/ Advance \/ EndOfPacket \/ Gathered \/ Execute \/ Transmit
Next == Interrupt \/ Loop \/ HostSends

Spec == Init /\ [][Next]_vars

\* The main loop runs, and a host that has sent something goes on serving
\* the bus: it configures the device, retries its packets and polls.
FairSpec == Spec /\ WF_vars(Loop) /\ WF_vars(Configure) /\ WF_vars(DataOut)
                 /\ WF_vars(DataIn)

-----------------------------------------------------------------------------
Byte == Nat \ {0}

TypeOK ==
  /\ Buffer \in Seq(Byte) /\ Position \in 0..PacketSize
  /\ Size \in 0..PacketSize /\ ReadDone \in 0..1
  /\ pClassData \in {"null", "live"} /\ TxState \in 0..1
  /\ armed \in 0..1 /\ sending \in 0..1
  /\ pc \in {"read", "advance", "release", "rearm", "execute", "transmit",
             "fault"}
  /\ hand \in [position : 0..PacketSize, byte : Nat]
  /\ request \in Seq(Byte) /\ consumed \in Seq(Byte)
  /\ wire \in Seq(1..PacketSize) /\ sent \in 0..MaxBytes /\ received \in Nat
  /\ resets \in 0..MaxResets

\* Why the types hold: what VCP_read has in hand comes from inside the packet.
HandInv ==
  /\ TypeOK
  /\ Size = Len(Buffer)
  /\ pc = "advance" => hand.position < PacketSize /\ hand.byte # 0

\* What the main loop has kept of the stream, and how much of a packet
\* VCP_read has yet to give.
Kept == consumed \o request
Unread == IF ReadDone = 1 THEN Size - Position ELSE 0

\* Until the host configures the device again, the requests executed and the
\* one gathered are the stream as it came up to the bytes VCP_read has yet to
\* give, which are the next ones: no byte but line ends is lost, none is
\* doubled or overtaken, whenever the interrupts come.
StreamIntact == resets = 0 =>
  /\ \A i, j \in DOMAIN Kept : i < j => Kept[i] < Kept[j]
  /\ {Kept[i] : i \in DOMAIN Kept} = (1..(received - Unread)) \ Newlines
  /\ \A i \in 1..Unread : Buffer[Position + i] = received - Unread + i

\* Why: the packet in s_RxBuffer is the end of what was received, VCP_read
\* holds the byte its position names, and the packet it releases is used up.
StreamInv ==
  /\ \A i \in 1..Size : Buffer[i] = received - Size + i
  /\ Size <= received
  /\ resets = 0 =>
       /\ ReadDone = 1 => Position <= Size
       /\ pc = "advance" => /\ hand.position = Position /\ Position < Size
                            /\ hand.byte = Buffer[Position + 1]
       /\ pc = "release" => Position = Size
       /\ \A i, j \in DOMAIN Kept : i < j => Kept[i] < Kept[j]
       /\ {Kept[i] : i \in DOMAIN Kept} = (1..(received - Unread)) \ Newlines

\* No byte is executed twice, and none is overtaken, even when the host
\* configures the device again in the middle of VCP_read and a packet falls on
\* the one that is being read.
NothingTwice == \A i, j \in DOMAIN Kept : i < j => Kept[i] < Kept[j]

\* Why: what is yet to come lies beyond all that has been kept.
OrderInv ==
  /\ NothingTwice
  /\ \A i \in DOMAIN Kept : Kept[i] <= received
  /\ pc = "advance" =>
       /\ hand.byte <= received
       /\ hand.byte <= received - Size + hand.position + 1
       /\ \A i \in DOMAIN Kept : Kept[i] < hand.byte
  /\ pc # "advance" /\ ReadDone = 1 =>
       \A i \in DOMAIN Kept : Kept[i] <= received - Size + Position

\* The controller never writes the buffer that the main loop reads: the
\* endpoint is armed only while there is nothing left in it.
BufferOwned == resets = 0 /\ armed = 1 =>
  ReadDone = 0 /\ pc \notin {"advance", "release", "rearm"}

\* Why: ReadDone and the endpoint are never both open, the loop closes the one
\* before it opens the other, and nothing is read before the device is first
\* configured.
OwnerInv == resets = 0 =>
  /\ armed = 1 => ReadDone = 0 /\ pc \notin {"advance", "release", "rearm"}
  /\ pc \in {"advance", "release"} => ReadDone = 1
  /\ pc = "rearm" => ReadDone = 0
  /\ pc # "fault"
  /\ pClassData = "null" =>
       armed = 0 /\ ReadDone = 0 /\ pc = "read" /\ request = <<>>

\* TxState is set only while an answer is under way, so that VCP_write drops
\* none for ever, however often the host configures the device; and until it
\* does so again no answer is handed over before the last has gone.
TxHonest ==
  /\ pClassData = "live" /\ TxState = 1 => sending = 1 \/ pc = "transmit"
  /\ resets = 0 /\ sending = 1 => TxState = 1 /\ pc # "transmit"

\* Why: what is handed over has been claimed by TxState, and a device that has
\* never been configured sends nothing.
TxInv == TxHonest /\
  (resets = 0 =>
     /\ pc = "transmit" => pClassData = "live" /\ TxState = 1
     /\ pClassData = "null" => sending = 0)

\* The port does not go deaf, even if the host configured the device again in
\* the middle of VCP_read: a packet is in the end received.
PortAlive == wire # <<>> ~> armed = 1 \/ pc = "fault"

\* Everything the host sends becomes part of a request that is executed: again
\* and again the main loop has caught up with the host.
RequestsExecuted ==
  []<>(Len(consumed) >= Cardinality((1..sent) \ Newlines) \/ resets > 0)
=============================================================================
