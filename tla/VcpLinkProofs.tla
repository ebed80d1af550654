----------------------------- MODULE VcpLinkProofs -----------------------------
(***************************************************************************)
(* Proofs about the board's virtual COM port, for packets and streams of   *)
(* any size and any number of configurations: its types, the hand-over of  *)
(* the receive buffer, the honesty of TxState, and that the stream arrives *)
(* intact.                                                                 *)
(***************************************************************************)
EXTENDS VcpLink, TLAPS

\* Every reachable state is well typed: whatever interrupts VCP_read, it takes
\* bytes from inside the packet.
THEOREM TypeCorrect == Spec => [](TypeOK /\ HandInv)
<1> USE ConstantsAssumption
<1>1. Init => HandInv
  <2> SUFFICES ASSUME Init PROVE HandInv
    OBVIOUS
  <2>1. TypeOK
    BY DEF Init, TypeOK, NoHand
  <2>2. Size = Len(Buffer) /\ pc = "read"
    BY DEF Init
  <2> QED
    BY <2>1, <2>2 DEF HandInv
<1>2. HandInv /\ [Next]_vars => HandInv'
  <2> SUFFICES ASSUME HandInv, [Next]_vars PROVE HandInv'
    OBVIOUS
  <2> USE DEF HandInv
  <2>1. CASE Configure
    <3>1. UNCHANGED <<Buffer, Position, Size, ReadDone, sending, pc, hand,
                      request, consumed, wire, sent, received, resets>>
      BY <2>1 DEF Configure, rx, loop, host
    <3>2. pClassData' = "live" /\ TxState' = 0 /\ armed' = 1
      BY <2>1 DEF Configure
    <3> QED
      BY <3>1, <3>2 DEF TypeOK
  <2>2. CASE Deconfigure
    BY <2>2 DEF Deconfigure, TypeOK, rx, loop
  <2>3. CASE DataOut
    <3> DEFINE n == Head(wire)
    <3>1. n \in 1..PacketSize /\ Tail(wire) \in Seq(1..PacketSize)
      BY <2>3 DEF DataOut, TypeOK
    <3>2. Buffer' = [k \in 1..n |-> received + k] /\ received \in Nat
      BY <2>3 DEF DataOut, TypeOK
    <3>3. Buffer' \in [1..n -> Byte]
      BY <3>1, <3>2 DEF Byte
    <3>4. Buffer' \in Seq(Byte) /\ Len(Buffer') = n
      BY <3>1, <3>3
    <3>5. /\ Position' = 0 /\ Size' = n /\ ReadDone' = 1 /\ armed' = 0
          /\ received' = received + n /\ wire' = Tail(wire)
          /\ UNCHANGED <<pClassData, TxState, sending, pc, hand, request,
                         consumed, sent, resets>>
      BY <2>3 DEF DataOut, loop
    <3> HIDE DEF n
    <3> QED
      BY <3>1, <3>2, <3>4, <3>5 DEF TypeOK
  <2>4. CASE DataIn
    <3>1. UNCHANGED <<Buffer, Position, Size, ReadDone, pClassData, armed, pc,
                      hand, request, consumed, wire, sent, received, resets>>
      BY <2>4 DEF DataIn, rx, loop, host
    <3>2. sending' = 0 /\ TxState' \in 0..1
      BY <2>4 DEF DataIn, TypeOK
    <3> QED
      BY <3>1, <3>2 DEF TypeOK
  <2>5. CASE Read
    <3>1. Position + 1 \in 1..Len(Buffer) /\ Buffer[Position + 1] \in Byte
      BY <2>5 DEF Read, TypeOK
    <3> QED
      BY <2>5, <3>1 DEF Read, TypeOK, Byte, rx, host
  <2>6. CASE Advance
    BY <2>6 DEF Advance, TypeOK, Byte, host
  <2>7. CASE EndOfPacket
    <3>1. CASE Release("release", "rearm")
      BY <3>1 DEF Release, TypeOK, host
    <3>2. CASE Rearm("rearm", "read")
      <4>1. armed' \in 0..1
        BY <3>2 DEF Rearm, TypeOK
      <4> QED
        BY <3>2, <4>1 DEF Rearm, TypeOK, rx, host
    <3> QED
      BY <2>7, <3>1, <3>2 DEF EndOfPacket
  <2>8. CASE Execute
    <3>1. consumed' \in Seq(Byte) /\ request' \in Seq(Byte)
      BY <2>8 DEF Execute, Executing, TypeOK
    <3>2. TxState' \in 0..1 /\ pc' \in {"read", "transmit", "fault"}
      BY <2>8 DEF Execute, Executing, Answer, Silence, TypeOK
    <3> QED
      BY <2>8, <3>1, <3>2 DEF Execute, Executing, TypeOK, rx, host
  <2>9. CASE HostSends
    BY <2>9 DEF HostSends, TypeOK, rx, loop
  <2>10. CASE UNCHANGED vars
    BY <2>10 DEF vars, TypeOK, rx, loop, host
  <2>11. CASE Gathered
    BY <2>11 DEF Gathered, TypeOK, rx, host
  <2>12. CASE Transmit
    <3>1. sending' \in 0..1
      BY <2>12 DEF Transmit
    <3> QED
      BY <2>12, <3>1 DEF Transmit, TypeOK, rx, host
  <2> QED
    BY <2>1, <2>2, <2>3, <2>4, <2>5, <2>6, <2>7, <2>8, <2>9, <2>10, <2>11,
       <2>12
    DEF Next, Interrupt, Loop
<1> QED
  BY <1>1, <1>2, PTL DEF Spec, HandInv

\* The hand-over of s_RxBuffer by ReadDone and the endpoint, until the host
\* configures the device a second time.
LEMMA OwnerInvariant == Spec => []OwnerInv
<1>1. Init => OwnerInv
  BY DEF Init, OwnerInv
<1>2. TypeOK /\ OwnerInv /\ [Next]_vars => OwnerInv'
  <2> SUFFICES ASSUME TypeOK, OwnerInv, [Next]_vars PROVE OwnerInv'
    OBVIOUS
  <2> USE DEF OwnerInv
  <2>1. CASE Configure
    BY <2>1 DEF Configure, rx, loop, host
  <2>2. CASE Deconfigure
    BY <2>2 DEF Deconfigure, TypeOK
  <2>3. CASE DataOut
    BY <2>3 DEF DataOut, TypeOK, loop
  <2>4. CASE DataIn
    BY <2>4 DEF DataIn, rx, loop, host
  <2>5. CASE Read
    BY <2>5 DEF Read, TypeOK, rx, host
  <2>6. CASE Advance
    BY <2>6 DEF Advance, TypeOK, host
  <2>7. CASE EndOfPacket
    BY <2>7 DEF EndOfPacket, Release, Rearm, TypeOK, rx, host
  <2>8. CASE Execute
    BY <2>8 DEF Execute, Executing, Answer, Silence, TypeOK, rx, host
  <2>9. CASE HostSends
    BY <2>9 DEF HostSends, rx, loop
  <2>10. CASE UNCHANGED vars
    BY <2>10 DEF vars, rx, loop, host
  <2>11. CASE Gathered
    BY <2>11 DEF Gathered, TypeOK, rx, host
  <2>12. CASE Transmit
    BY <2>12 DEF Transmit, TypeOK, rx, host
  <2> QED
    BY <2>1, <2>2, <2>3, <2>4, <2>5, <2>6, <2>7, <2>8, <2>9, <2>10, <2>11,
       <2>12
    DEF Next, Interrupt, Loop
<1> QED
  BY <1>1, <1>2, TypeCorrect, PTL DEF Spec

\* The controller never writes the buffer that the main loop reads, until the
\* host configures the device a second time: the hand-over of s_RxBuffer by
\* ReadDone and the endpoint needs no lock.
THEOREM BufferIsOwned == Spec => []BufferOwned
<1>1. OwnerInv => BufferOwned
  BY DEF OwnerInv, BufferOwned
<1> QED
  BY <1>1, OwnerInvariant, PTL

\* A sequence that grows by a byte larger than all it holds stays increasing,
\* and holds one byte more.
LEMMA AppendLarger ==
  ASSUME NEW s \in Seq(Nat), NEW b \in Nat,
         \A i \in DOMAIN s : s[i] < b,
         \A i, j \in DOMAIN s : i < j => s[i] < s[j]
  PROVE  LET t == Append(s, b) IN
           /\ \A i, j \in DOMAIN t : i < j => t[i] < t[j]
           /\ {t[i] : i \in DOMAIN t} = {s[i] : i \in DOMAIN s} \cup {b}
<1> DEFINE t == Append(s, b)
<1>1. /\ DOMAIN s = 1..Len(s) /\ DOMAIN t = 1..(Len(s) + 1) /\ Len(s) \in Nat
      /\ t[Len(s) + 1] = b /\ \A i \in 1..Len(s) : t[i] = s[i] /\ s[i] \in Nat
  OBVIOUS
<1> HIDE DEF t
<1>2. /\ \A i, j \in DOMAIN t : i < j => t[i] < t[j]
      /\ {t[i] : i \in DOMAIN t} = {s[i] : i \in DOMAIN s} \cup {b}
  BY <1>1
<1> QED
  BY <1>2 DEF t

\* What the main loop has kept grows by the byte VCP_read gives, unless that
\* is a line end.
LEMMA KeptAppends ==
  ASSUME NEW u \in Seq(Byte), NEW v \in Seq(Byte), NEW b \in Byte
  PROVE  u \o Append(v, b) = Append(u \o v, b) /\ u \o v \in Seq(Byte)
<1>1. u \o Append(v, b) \in Seq(Byte) /\ Append(u \o v, b) \in Seq(Byte)
  OBVIOUS
<1>2. Len(u \o Append(v, b)) = Len(Append(u \o v, b))
  OBVIOUS
<1>3. \A i \in 1..Len(Append(u \o v, b)) :
         (u \o Append(v, b))[i] = Append(u \o v, b)[i]
  OBVIOUS
<1> QED
  BY <1>1, <1>2, <1>3

\* TxState never stays set without an answer under way, however often the host
\* configures the device: VCP_write does not fall silent for good.
THEOREM TxStateIsHonest == Spec => []TxHonest
<1>1. Init => TxInv
  BY DEF Init, TxInv, TxHonest
<1>2. TypeOK /\ TxInv /\ [Next]_vars => TxInv'
  <2> SUFFICES ASSUME TypeOK, TxInv, [Next]_vars PROVE TxInv'
    OBVIOUS
  <2> USE DEF TxInv, TxHonest
  <2>1. CASE Configure
    BY <2>1 DEF Configure, rx, loop, host
  <2>2. CASE Deconfigure
    BY <2>2 DEF Deconfigure, TypeOK
  <2>3. CASE DataOut
    BY <2>3 DEF DataOut, loop
  <2>4. CASE DataIn
    BY <2>4 DEF DataIn, rx, loop, host
  <2>5. CASE Read \/ Advance \/ Gathered
    BY <2>5 DEF Read, Advance, Gathered, host
  <2>6. CASE EndOfPacket
    BY <2>6 DEF EndOfPacket, Release, Rearm, rx, host
  <2>7. CASE Execute
    BY <2>7 DEF Execute, Executing, Answer, Silence, TypeOK, host
  <2>8. CASE Transmit
    BY <2>8 DEF Transmit, TypeOK, host
  <2>9. CASE HostSends
    BY <2>9 DEF HostSends, rx, loop
  <2>10. CASE UNCHANGED vars
    BY <2>10 DEF vars, rx, loop, host
  <2> QED
    BY <2>1, <2>2, <2>3, <2>4, <2>5, <2>6, <2>7, <2>8, <2>9, <2>10
    DEF Next, Interrupt, Loop
<1>3. TxInv => TxHonest
  BY DEF TxInv
<1> QED
  BY <1>1, <1>2, <1>3, TypeCorrect, PTL DEF Spec

\* What the main loop has kept of the stream, where it stands in s_RxBuffer, and
\* where that stands in the stream.
LEMMA StreamInvariant == Spec => []StreamInv
<1> USE ConstantsAssumption
<1>1. Init => StreamInv
  <2> SUFFICES ASSUME Init PROVE StreamInv
    OBVIOUS
  <2>1. Kept = <<>>
    BY DEF Init, Kept
  <2> QED
    BY <2>1 DEF Init, StreamInv, Unread
<1>2. HandInv /\ OwnerInv /\ StreamInv /\ [Next]_vars => StreamInv'
  <2> SUFFICES ASSUME HandInv, OwnerInv, StreamInv, [Next]_vars PROVE StreamInv'
    OBVIOUS
  <2> USE DEF HandInv
  <2>1. CASE UNCHANGED <<rx, pc, hand, request, consumed, received, resets>>
    BY <2>1 DEF StreamInv, Kept, Unread, rx
  <2>2. CASE Configure \/ DataIn \/ HostSends \/ UNCHANGED vars
    BY <2>1, <2>2 DEF Configure, DataIn, HostSends, vars, rx, loop, host
  <2>3. CASE Deconfigure
    <3>1. resets' # 0
      BY <2>3 DEF Deconfigure, TypeOK
    <3> QED
      BY <2>3, <3>1 DEF Deconfigure, StreamInv, rx
  <2>4. CASE DataOut
    <3> DEFINE n == Head(wire)
    <3>1. n \in 1..PacketSize /\ received \in Nat
      BY <2>4 DEF DataOut, TypeOK
    <3>2. /\ Buffer' = [k \in 1..n |-> received + k]
          /\ Position' = 0 /\ Size' = n /\ ReadDone' = 1
          /\ received' = received + n
          /\ UNCHANGED <<pc, hand, request, consumed, resets>>
      BY <2>4 DEF DataOut, loop
    <3> HIDE DEF n
    <3>3. \A i \in 1..Size' : Buffer'[i] = received' - Size' + i
      BY <3>1, <3>2
    <3>4. ASSUME resets = 0
          PROVE  ReadDone = 0 /\ pc \notin {"advance", "release"}
      BY <2>4, <3>4 DEF DataOut, OwnerInv
    <3>5. Kept' = Kept
      BY <3>2 DEF Kept
    <3>6. resets = 0 => received' - Unread' = received - Unread
      BY <3>1, <3>2, <3>4 DEF Unread
    <3> QED
      BY <3>1, <3>2, <3>3, <3>4, <3>5, <3>6 DEF StreamInv
  <2>5. CASE Read
    <3>1. /\ hand' = [position |-> Position, byte |-> Buffer[Position + 1]]
          /\ ReadDone = 1 /\ Position < Size /\ pc' = "advance"
          /\ UNCHANGED <<Buffer, Position, Size, ReadDone, request, consumed,
                         received, resets>>
      BY <2>5 DEF Read, rx, host
    <3>2. Kept' = Kept /\ Unread' = Unread
      BY <3>1 DEF Kept, Unread
    <3> QED
      BY <3>1, <3>2 DEF StreamInv
  <2>6. CASE Advance
    <3>1. /\ Position' = hand.position + 1
          /\ pc' = IF Position' >= Size THEN "release" ELSE "read"
          /\ request' = IF hand.byte \in Newlines THEN request
                        ELSE Append(request, hand.byte)
          /\ UNCHANGED <<Buffer, Size, ReadDone, hand, consumed, received, resets>>
      BY <2>6 DEF Advance, host
    <3>2. SUFFICES ASSUME resets = 0 PROVE StreamInv'
      BY <3>1 DEF StreamInv
    <3> DEFINE b == received - Unread + 1
    <3>3. /\ ReadDone = 1 /\ hand.position = Position /\ Position < Size
          /\ hand.byte = Buffer[Position + 1]
      BY <2>6, <3>2 DEF Advance, OwnerInv, StreamInv
    <3>4. /\ Position \in Nat /\ Size \in Nat /\ received \in Nat
          /\ Size <= received /\ Size = Len(Buffer)
          /\ hand.byte = received - Size + Position + 1
      BY <3>3 DEF TypeOK, StreamInv
    <3>5. hand.byte = b /\ b \in Byte /\ Unread' = Unread - 1 /\ Unread \in Nat
      BY <3>1, <3>3, <3>4 DEF Unread, Byte
    <3>6. /\ Kept \in Seq(Byte)
          /\ Kept' = IF b \in Newlines THEN Kept ELSE Append(Kept, b)
      <4>1. consumed \in Seq(Byte) /\ request \in Seq(Byte)
        BY DEF TypeOK
      <4>2. /\ consumed \o Append(request, b) = Append(consumed \o request, b)
            /\ consumed \o request \in Seq(Byte)
        BY <3>5, <4>1, KeptAppends
      <4> QED
        BY <3>1, <3>5, <4>2 DEF Kept
    <3>7. /\ \A i, j \in DOMAIN Kept : i < j => Kept[i] < Kept[j]
          /\ {Kept[i] : i \in DOMAIN Kept} = (1..(b - 1)) \ Newlines
      BY <3>2, <3>4, <3>5 DEF StreamInv
    <3> HIDE DEF b
    <3>8. 1..b = (1..(b - 1)) \cup {b}
      BY <3>5 DEF Byte
    <3>9. /\ \A i, j \in DOMAIN Kept' : i < j => Kept'[i] < Kept'[j]
          /\ {Kept'[i] : i \in DOMAIN Kept'} = (1..b) \ Newlines
      <4>1. CASE b \in Newlines
        BY <3>6, <3>7, <3>8, <4>1
      <4>2. CASE b \notin Newlines
        <5>1. \A i \in DOMAIN Kept : Kept[i] < b
          BY <3>5, <3>6, <3>7 DEF Byte
        <5>2. Kept \in Seq(Nat) /\ b \in Nat
          BY <3>5, <3>6 DEF Byte
        <5>3. Kept' = Append(Kept, b)
          BY <3>6, <4>2
        <5> DEFINE t == Append(Kept, b)
        <5>4. /\ \A i, j \in DOMAIN t : i < j => t[i] < t[j]
              /\ {t[i] : i \in DOMAIN t} = {Kept[i] : i \in DOMAIN Kept} \cup {b}
          BY <3>7, <5>1, <5>2, AppendLarger
        <5>5. t = Kept'
          BY <5>3
        <5> HIDE DEF t
        <5> QED
          BY <3>7, <3>8, <4>2, <5>4, <5>5
      <4> QED
        BY <4>1, <4>2
    <3>10. received' - Unread' = b
      BY <3>1, <3>4, <3>5 DEF b
    <3> QED
      BY <3>1, <3>3, <3>4, <3>9, <3>10 DEF StreamInv
  <2>7. CASE EndOfPacket
    <3>1. CASE Release("release", "rearm")
      <4>1. /\ pc = "release" /\ ReadDone' = 0 /\ pc' = "rearm"
            /\ UNCHANGED <<Buffer, Position, Size, hand, request, consumed,
                           received, resets>>
        BY <3>1 DEF Release, host
      <4>2. resets = 0 => Unread' = Unread
        BY <4>1 DEF StreamInv, Unread, TypeOK
      <4> QED
        BY <4>1, <4>2 DEF StreamInv, Kept
    <3>2. CASE Rearm("rearm", "read")
      BY <3>2 DEF Rearm, StreamInv, Kept, Unread, rx, host
    <3> QED
      BY <2>7, <3>1, <3>2 DEF EndOfPacket
  <2>8. CASE Execute
    <3>1. /\ consumed' = consumed \o request /\ request' = <<>>
          /\ pc' \notin {"advance", "release"}
          /\ UNCHANGED <<Buffer, Position, Size, ReadDone, hand, received, resets>>
      BY <2>8 DEF Execute, Executing, Answer, Silence, rx, host
    <3>2. Kept' = Kept
      BY <3>1 DEF Kept, TypeOK
    <3> QED
      BY <3>1, <3>2 DEF StreamInv, Unread
  <2>9. CASE Gathered \/ Transmit
    <3>1. /\ pc' \notin {"advance", "release"}
          /\ UNCHANGED <<Buffer, Position, Size, ReadDone, request, consumed,
                         received, resets>>
      BY <2>9 DEF Gathered, Transmit, rx, host
    <3>2. Kept' = Kept /\ Unread' = Unread
      BY <3>1 DEF Kept, Unread
    <3> QED
      BY <3>1, <3>2 DEF StreamInv
  <2> QED
    BY <2>1, <2>2, <2>3, <2>4, <2>5, <2>6, <2>7, <2>8, <2>9
    DEF Next, Interrupt, Loop
<1> QED
  BY <1>1, <1>2, TypeCorrect, OwnerInvariant, PTL DEF Spec

\* Until the host configures the device again, what it sends is neither lost
\* nor doubled nor overtaken between the endpoint and the requests executed,
\* whenever the interrupts come: the requests and the rest of s_RxBuffer are
\* the stream as it was received.
THEOREM StreamIsIntact == Spec => []StreamIntact
<1> USE ConstantsAssumption
<1>1. HandInv /\ StreamInv => StreamIntact
  <2> SUFFICES ASSUME HandInv, StreamInv, resets = 0 PROVE StreamIntact
    BY DEF StreamIntact
  <2>1. \A i \in 1..Unread : Position + i \in 1..Size
    BY DEF Unread, StreamInv, HandInv, TypeOK
  <2>2. \A i \in 1..Unread : Buffer[Position + i] = received - Unread + i
    <3>1. \A j \in 1..Size : Buffer[j] = received - Size + j
      BY DEF StreamInv
    <3>2. Size \in Int /\ Position \in Int /\ received \in Int
      BY DEF HandInv, TypeOK
    <3>3. ASSUME NEW i \in 1..Unread PROVE Buffer[Position + i] = received - Unread + i
      <4>1. Unread = Size - Position
        BY DEF Unread
      <4>2. /\ received - Size + (Position + i) = received - (Size - Position) + i
            /\ Position + i \in 1..Size
        BY <2>1, <3>2
      <4> QED
        BY <3>1, <4>1, <4>2
    <3> QED
      BY <3>3
  <2> QED
    BY <2>2 DEF StreamInv, StreamIntact
<1> QED
  BY <1>1, StreamInvariant, TypeCorrect, PTL

\* The same holds of the order alone when the host does configure the device
\* again: a packet that falls on the one being read costs bytes, but repeats none.
LEMMA OrderInvariant == Spec => []OrderInv
<1> USE ConstantsAssumption
<1>1. Init => OrderInv
  <2> SUFFICES ASSUME Init PROVE OrderInv
    OBVIOUS
  <2>1. Kept = <<>>
    BY DEF Init, Kept
  <2> QED
    BY <2>1 DEF Init, OrderInv, NothingTwice
<1>2. HandInv /\ HandInv' /\ StreamInv /\ OrderInv /\ [Next]_vars => OrderInv'
  <2> SUFFICES ASSUME HandInv, HandInv', StreamInv, OrderInv, [Next]_vars
               PROVE  OrderInv'
    OBVIOUS
  <2> USE DEF HandInv
  <2>0. /\ Kept \in Seq(Byte) /\ received \in Nat /\ Size \in Nat /\ Position \in Nat
        /\ \A i \in DOMAIN Kept : Kept[i] \in Nat
    <3>1. consumed \in Seq(Byte) /\ request \in Seq(Byte)
      BY DEF TypeOK
    <3>2. Kept \in Seq(Byte)
      BY <3>1 DEF Kept
    <3>3. \A i \in DOMAIN Kept : Kept[i] \in Byte
      BY <3>2
    <3> QED
      BY <3>2, <3>3 DEF TypeOK, Byte
  <2>1. CASE UNCHANGED <<Position, Size, ReadDone, pc, hand, request, consumed, received>>
    BY <2>1 DEF OrderInv, NothingTwice, Kept
  <2>2. CASE Configure \/ Deconfigure \/ DataIn \/ HostSends \/ UNCHANGED vars
    BY <2>1, <2>2 DEF Configure, Deconfigure, DataIn, HostSends, vars, rx, loop, host
  <2>3. CASE DataOut
    <3> DEFINE n == Head(wire)
    <3>1. n \in 1..PacketSize
      <4>1. wire \in Seq(1..PacketSize) /\ wire # <<>>
        BY <2>3 DEF DataOut, TypeOK
      <4> QED
        BY <4>1
    <3>2. /\ Position' = 0 /\ Size' = n /\ received' = received + n
          /\ UNCHANGED <<pc, hand, request, consumed>>
      BY <2>3 DEF DataOut, loop
    <3> HIDE DEF n
    <3>3. Kept' = Kept /\ hand.position \in Nat /\ hand.byte \in Nat
      BY <3>2 DEF Kept, TypeOK
    <3> QED
      BY <2>0, <3>1, <3>2, <3>3 DEF OrderInv, NothingTwice
  <2>4. CASE Read
    <3>1. /\ hand' = [position |-> Position, byte |-> Buffer[Position + 1]]
          /\ ReadDone = 1 /\ Position < Size /\ pc = "read" /\ pc' = "advance"
          /\ UNCHANGED <<Size, request, consumed, received>>
      BY <2>4 DEF Read, rx, host
    <3>2. Kept' = Kept /\ Buffer[Position + 1] = received - Size + Position + 1
      BY <2>0, <3>1 DEF Kept, StreamInv
    <3> QED
      BY <2>0, <3>1, <3>2 DEF OrderInv, NothingTwice
  <2>5. CASE Advance
    <3>1. /\ pc = "advance" /\ pc' # "advance" /\ Position' = hand.position + 1
          /\ request' = IF hand.byte \in Newlines THEN request
                        ELSE Append(request, hand.byte)
          /\ UNCHANGED <<Size, ReadDone, consumed, received>>
      BY <2>5 DEF Advance, host
    <3> DEFINE b == hand.byte
    <3>2. b \in Byte /\ b \in Nat /\ hand.position \in Nat
      BY <3>1 DEF TypeOK, Byte
    <3>3. Kept' = IF b \in Newlines THEN Kept ELSE Append(Kept, b)
      <4>1. consumed \in Seq(Byte) /\ request \in Seq(Byte)
        BY DEF TypeOK
      <4>2. consumed \o Append(request, b) = Append(consumed \o request, b)
        BY <3>2, <4>1, KeptAppends
      <4> QED
        BY <3>1, <4>2 DEF Kept
    <3>4. /\ b <= received /\ b <= received - Size + hand.position + 1
          /\ \A i \in DOMAIN Kept : Kept[i] < b
          /\ \A i, j \in DOMAIN Kept : i < j => Kept[i] < Kept[j]
      BY <3>1 DEF OrderInv, NothingTwice
    <3> HIDE DEF b
    <3>5. /\ \A i, j \in DOMAIN Kept' : i < j => Kept'[i] < Kept'[j]
          /\ \A i \in DOMAIN Kept' : Kept'[i] <= b
      <4>1. CASE b \in Newlines
        BY <2>0, <3>2, <3>3, <3>4, <4>1
      <4>2. CASE b \notin Newlines
        <5> DEFINE t == Append(Kept, b)
        <5>1. Kept \in Seq(Nat)
          BY <2>0 DEF Byte
        <5>2. /\ \A i, j \in DOMAIN t : i < j => t[i] < t[j]
              /\ {t[i] : i \in DOMAIN t} = {Kept[i] : i \in DOMAIN Kept} \cup {b}
          BY <3>2, <3>4, <5>1, AppendLarger
        <5>3. t = Kept'
          BY <3>3, <4>2
        <5> HIDE DEF t
        <5>4. ASSUME NEW i \in DOMAIN t PROVE t[i] <= b
          <6>1. t[i] \in {Kept[k] : k \in DOMAIN Kept} \cup {b}
            BY <5>2
          <6> QED
            BY <2>0, <3>2, <3>4, <6>1
        <5> QED
          BY <5>2, <5>3, <5>4
      <4> QED
        BY <4>1, <4>2
    <3>6. \A i \in DOMAIN Kept' : Kept'[i] \in Nat
      <4>1. consumed' \in Seq(Byte) /\ request' \in Seq(Byte)
        BY DEF TypeOK
      <4>2. Kept' \in Seq(Byte)
        BY <4>1 DEF Kept
      <4> HIDE DEF Kept
      <4> QED
        BY <4>2 DEF Byte
    <3> QED
      BY <2>0, <3>1, <3>2, <3>4, <3>5, <3>6 DEF OrderInv, NothingTwice
  <2>6. CASE EndOfPacket
    <3>1. Kept' = Kept
      BY <2>6 DEF EndOfPacket, Release, Rearm, Kept
    <3>2. /\ pc # "advance" /\ pc' # "advance"
          /\ ReadDone' = 0 \/ ReadDone' = ReadDone
          /\ UNCHANGED <<Size, Position, received>>
      BY <2>6 DEF EndOfPacket, Release, Rearm, rx, host
    <3> QED
      BY <3>1, <3>2 DEF OrderInv, NothingTwice
  <2>7. CASE Execute
    <3>1. /\ consumed' = consumed \o request /\ request' = <<>>
          /\ pc = "execute" /\ pc' # "advance"
          /\ UNCHANGED <<Position, Size, ReadDone, received>>
      BY <2>7 DEF Execute, Executing, Answer, Silence, rx, host
    <3>2. Kept' = Kept
      BY <3>1 DEF Kept, TypeOK
    <3> QED
      BY <3>1, <3>2 DEF OrderInv, NothingTwice
  <2>8. CASE Gathered \/ Transmit
    <3>1. /\ pc # "advance" /\ pc' # "advance"
          /\ UNCHANGED <<Position, Size, ReadDone, request, consumed, received>>
      BY <2>8 DEF Gathered, Transmit, rx, host
    <3>2. Kept' = Kept
      BY <3>1 DEF Kept
    <3> QED
      BY <3>1, <3>2 DEF OrderInv, NothingTwice
  <2> QED
    BY <2>1, <2>2, <2>3, <2>4, <2>5, <2>6, <2>7, <2>8 DEF Next, Interrupt, Loop
<1> QED
  BY <1>1, <1>2, TypeCorrect, StreamInvariant, PTL DEF Spec

\* No byte the host sends is executed twice, whatever it does to the device.
THEOREM NothingExecutedTwice == Spec => []NothingTwice
<1>1. OrderInv => NothingTwice
  BY DEF OrderInv
<1> QED
  BY <1>1, OrderInvariant, PTL
=============================================================================
