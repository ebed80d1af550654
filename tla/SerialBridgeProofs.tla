--------------------------- MODULE SerialBridgeProofs ---------------------------
(***************************************************************************)
(* The dialogue of handler and board is a behaviour of the board with its  *)
(* host, so what VcpLinkProofs shows of VcpLink holds behind the tty.      *)
(* Then the dialogue itself: answers may be late by their padding, but are *)
(* never exchanged, for requests and answers of any length, and however    *)
(* the tty cuts and echoes them.                                           *)
(***************************************************************************)
EXTENDS SerialBridge, VcpLinkProofs, WellFoundedInduction, SequenceTheorems

\* Every step of the handler and of the tty leaves the board alone; every other
\* step is one of VcpLink's.
LEMMA BridgeStep == [BridgeNext]_bridgeVars => [Next]_vars
<1> SUFFICES ASSUME [BridgeNext]_bridgeVars PROVE [Next]_vars
  OBVIOUS
<1>1. CASE Handler
  BY <1>1 DEF Handler, Pop, Write, Drain, ReadAnswer, Flush, HandlerMoves
<1>2. CASE SendPacket
  BY <1>2 DEF SendPacket, Next
<1>3. CASE TakePacket
  BY <1>3 DEF TakePacket, Next, Interrupt
<1>4. CASE BoardReceives
  BY <1>4 DEF BoardReceives, Next, Interrupt
<1>5. CASE BoardReset
  BY <1>5 DEF BoardReset, Next, Interrupt
<1>6. CASE BoardLoop
  <2>1. CASE Read \/ Advance \/ EndOfPacket \/ Gathered
    BY <2>1 DEF Next, Loop
  <2>2. CASE BoardExecutes
    <3>1. Execute
      BY <2>2 DEF BoardExecutes, Execute
    <3> QED
      BY <3>1 DEF Next, Loop
  <2>3. CASE BoardTransmits
    BY <2>3 DEF BoardTransmits, Next, Loop
  <2> QED
    BY <1>6, <2>1, <2>2, <2>3 DEF BoardLoop
<1>7. CASE UNCHANGED bridgeVars
  BY <1>7 DEF bridgeVars
<1> QED
  BY <1>1, <1>2, <1>3, <1>4, <1>5, <1>6, <1>7 DEF BridgeNext

\* The board behind the tty is the board of VcpLink: the handler and the host's
\* drivers are one of the hosts it was shown to serve.
LEMMA BridgeImplementsVcp == BridgeSpec => Spec
<1>1. BridgeInit => Init
  BY DEF BridgeInit
<1> QED
  BY <1>1, BridgeStep, PTL DEF BridgeSpec, Spec

\* Whatever the plugin does, the controller never writes the buffer that the
\* main loop reads.
THEOREM BridgeBufferIsOwned == BridgeSpec => []BufferOwned
BY BridgeImplementsVcp, BufferIsOwned, PTL

\* Whatever the plugin does, the board never falls silent for good.
THEOREM BridgeTxStateIsHonest == BridgeSpec => []TxHonest
BY BridgeImplementsVcp, TxStateIsHonest, PTL

\* Whatever the plugin does, its requests reach the board's command loop as
\* they were written, until the device is configured again.
THEOREM BridgeStreamIsIntact == BridgeSpec => []StreamIntact
BY BridgeImplementsVcp, StreamIsIntact, PTL

\* Whatever the plugin and the host do, no byte of a request is executed twice.
THEOREM BridgeNothingTwice == BridgeSpec => []NothingTwice
BY BridgeImplementsVcp, NothingExecutedTwice, PTL

-----------------------------------------------------------------------------
\* A set of naturals has a least element.
LEMMA Least ==
  ASSUME NEW S \in SUBSET Nat, S # {}
  PROVE  \E x \in S : \A y \in S : x <= y
<1> DEFINE R == OpToRel(<, Nat)
<1>1. IsWellFoundedOn(R, Nat)
  BY NatLessThanWellFounded
<1>2. \A x, y \in Nat : x < y => <<x, y>> \in R
  BY DEF OpToRel
<1> HIDE DEF R
<1>3. PICK x \in S : \A y \in S : ~ (<<y, x>> \in R)
  BY <1>1, WFMin
<1>4. ASSUME NEW y \in S PROVE x <= y
  <2>1. x \in Nat /\ y \in Nat /\ ~ (y < x)
    BY <1>2, <1>3
  <2> QED
    BY <2>1
<1> QED
  BY <1>4

\* What read() takes: as many packets as end with the first line, or as an
\* answer has.
LEMMA LineRead ==
  ASSUME tty \in Packets, ReadAnswer
  PROVE  /\ EndsIn(tty)
         /\ \E n \in 1..Len(tty) :
              /\ events' = Append(events, SubSeq(tty, 1, n))
              /\ tty' = SubSeq(tty, n + 1, Len(tty))
              /\ tty[n].ends \/ n = AnswerPackets
              /\ \A k \in 1..(n - 1) : ~ tty[k].ends
<1>1. EndsIn(tty) /\ DOMAIN tty = 1..Len(tty) /\ Len(tty) \in Nat
  BY DEF ReadAnswer, EndsIn, Packets
<1> DEFINE S == {n \in DOMAIN tty : tty[n].ends}
<1>2. S # {} /\ S \in SUBSET Nat
  BY <1>1 DEF EndsIn
<1>3. PICK n \in S : \A k \in S : n <= k
  <2> HIDE DEF S
  <2> QED
    BY <1>2, Least
<1>4. \A k \in 1..(n - 1) : ~ tty[k].ends
  <2> SUFFICES ASSUME NEW k \in 1..(n - 1), tty[k].ends PROVE FALSE
    OBVIOUS
  <2>1. k \in 1..Len(tty) /\ k < n
    BY <1>1, <1>3
  <2> QED
    BY <1>1, <1>3, <2>1
<1>5. \E l \in DOMAIN tty : tty[l].ends /\ \A k \in 1..(l - 1) : ~ tty[k].ends
  BY <1>3, <1>4
<1>6. /\ FirstLine \in 1..Len(tty) /\ tty[FirstLine].ends
      /\ \A k \in 1..(FirstLine - 1) : ~ tty[k].ends
  BY <1>1, <1>5 DEF FirstLine
<1> DEFINE m == IF FirstLine < AnswerPackets THEN FirstLine ELSE AnswerPackets
<1>7. /\ events' = Append(events, SubSeq(tty, 1, m))
      /\ tty' = SubSeq(tty, m + 1, Len(tty))
  BY DEF ReadAnswer
<1>8. /\ m \in 1..Len(tty) /\ m <= FirstLine
      /\ m = FirstLine \/ m = AnswerPackets
  BY <1>1, <1>6, BridgeAssumption
<1> HIDE DEF m
<1>9. \A k \in 1..(m - 1) : ~ tty[k].ends
  BY <1>1, <1>6, <1>8
<1> QED
  BY <1>1, <1>6, <1>7, <1>8, <1>9

\* What the board hands over belongs to a message.
BridgeOK ==
  /\ BridgeTypeOK /\ SpanInv
  /\ pc = "transmit" => answer \in Messages

LEMMA BridgeOKHandler ==
  ASSUME TypeOK, BridgeOK, Handler
  PROVE  BridgeOK'
<1> USE DEF Packets
<1>1. /\ UNCHANGED <<vars, answer, endpoint>>
      /\ UNCHANGED <<pc, answer, endpoint>> /\ TypeOK'
  BY DEF Handler, Pop, Write, Drain, ReadAnswer, Flush, HandlerMoves, vars, rx, loop, host,
     TypeOK
<1>2. /\ current \in 0..MaxMessages /\ written \in 0..MaxBytes /\ MaxMessages \in Nat
      /\ MaxBytes \in Nat /\ Len(spans) \in Nat /\ Len(events) \in Nat
      /\ answer \in {0} \cup Messages /\ endpoint \in Packets /\ tty \in Packets
      /\ events \in Seq(Packets) /\ <<>> \in Packets
      /\ spans \in Seq([first : 1..MaxBytes, last : 1..MaxBytes])
      /\ pc = "transmit" => answer \in Messages
  BY ConstantsAssumption, BridgeAssumption DEF BridgeOK, BridgeTypeOK
<1>3. CASE Pop
  <2>1. /\ handler = "pop" /\ handler' = "write" /\ current' = current + 1
        /\ tty' = <<>> /\ UNCHANGED <<written, spans, events>>
        /\ current < MaxMessages
    BY <1>3 DEF Pop, HandlerMoves
  <2>2. BridgeTypeOK'
    BY <1>1, <1>2, <2>1 DEF BridgeOK, BridgeTypeOK
  <2>3. SpanInv'
    BY <1>2, <2>1 DEF BridgeOK, SpanInv
  <2> QED
    BY <1>1, <1>2, <2>2, <2>3 DEF BridgeOK
<1>4. CASE Write
  <2>1. PICK last \in (written + 2)..MaxBytes :
          /\ last \in Newlines /\ last - 1 \notin Newlines /\ written' = last
          /\ spans' = Append(spans, [first |-> written + 1, last |-> last])
    BY <1>4 DEF Write
  <2>2. /\ handler = "write" /\ handler' = "drain" /\ UNCHANGED <<current, tty, events>>
    BY <1>4 DEF Write, HandlerMoves
  <2> DEFINE span == [first |-> written + 1, last |-> last]
  <2>3. /\ span \in [first : 1..MaxBytes, last : 1..MaxBytes]
        /\ span.first < span.last /\ span.last - 1 \notin Newlines
        /\ written' \in 0..MaxBytes
    BY <1>2, <2>1
  <2> HIDE DEF span
  <2>4. spans' = Append(spans, span)
    BY <2>1 DEF span
  <2>5. BridgeTypeOK'
    BY <1>1, <1>2, <2>2, <2>3, <2>4 DEF BridgeOK, BridgeTypeOK
  <2>6. SpanInv'
    <3>1. /\ Len(spans') = Len(spans) + 1 /\ DOMAIN spans' = 1..(Len(spans) + 1)
          /\ spans'[Len(spans) + 1] = span
          /\ \A m \in 1..Len(spans) : spans'[m] = spans[m]
      BY <1>2, <2>4
    <3>2. ASSUME NEW m \in DOMAIN spans'
          PROVE  spans'[m].first < spans'[m].last /\ spans'[m].last - 1 \notin Newlines
      <4>1. CASE m = Len(spans) + 1
        BY <2>3, <3>1, <4>1
      <4>2. CASE m # Len(spans) + 1
        <5>1. m \in DOMAIN spans /\ m \in 1..Len(spans)
          BY <1>2, <3>1, <4>2
        <5>2. spans[m].first < spans[m].last /\ spans[m].last - 1 \notin Newlines
          BY <5>1 DEF BridgeOK, SpanInv
        <5> QED
          BY <3>1, <5>1, <5>2
      <4> QED
        BY <4>1, <4>2
    <3> QED
      BY <1>2, <2>2, <3>1, <3>2 DEF BridgeOK, SpanInv
  <2> QED
    BY <1>1, <1>2, <2>5, <2>6 DEF BridgeOK
<1>5. CASE Drain
  <2>1. /\ handler = "drain" /\ handler' = "read"
        /\ UNCHANGED <<current, written, spans, tty, events>>
    BY <1>5 DEF Drain, HandlerMoves
  <2>2. BridgeTypeOK'
    BY <1>1, <1>2, <2>1 DEF BridgeOK, BridgeTypeOK
  <2> QED
    BY <1>1, <1>2, <2>1, <2>2 DEF BridgeOK, SpanInv
<1>6. CASE ReadAnswer
  <2>1. /\ handler = "read" /\ handler' = "flush" /\ UNCHANGED <<current, written, spans>>
    BY <1>6 DEF ReadAnswer, HandlerMoves
  <2>2. PICK n \in 1..Len(tty) :
          /\ events' = Append(events, SubSeq(tty, 1, n))
          /\ tty' = SubSeq(tty, n + 1, Len(tty))
    BY <1>2, <1>6, LineRead
  <2>3. SubSeq(tty, 1, n) \in Packets /\ tty' \in Packets
    <3>1. \A i \in 1..Len(tty) : tty[i] \in Packet
      BY <1>2
    <3>2. SubSeq(tty, 1, n) \in Packets
      BY <1>2, <3>1, SubSeqProperties
    <3>3. SubSeq(tty, n + 1, Len(tty)) \in Packets
      BY <1>2, <3>1, SubSeqProperties
    <3> QED
      BY <2>2, <3>2, <3>3
  <2>4. events' \in Seq(Packets) /\ Len(events') = Len(events) + 1
    BY <1>2, <2>2, <2>3
  <2>5. BridgeTypeOK'
    BY <1>1, <1>2, <2>1, <2>3, <2>4 DEF BridgeOK, BridgeTypeOK
  <2>6. SpanInv'
    BY <1>2, <2>1, <2>4 DEF BridgeOK, SpanInv
  <2> QED
    BY <1>1, <1>2, <2>5, <2>6 DEF BridgeOK
<1>7. CASE Flush
  <2>1. /\ handler = "flush" /\ handler' = "pop" /\ tty' = <<>>
        /\ UNCHANGED <<current, written, spans, events>>
    BY <1>7 DEF Flush, HandlerMoves
  <2>2. BridgeTypeOK'
    BY <1>1, <1>2, <2>1 DEF BridgeOK, BridgeTypeOK
  <2> QED
    BY <1>1, <1>2, <2>1, <2>2 DEF BridgeOK, SpanInv
<1> QED
  BY <1>3, <1>4, <1>5, <1>6, <1>7 DEF Handler

LEMMA BridgeOKBoard ==
  ASSUME TypeOK', BridgeOK,
         SendPacket \/ TakePacket \/ BoardReceives \/ BoardReset \/ BoardLoop
  PROVE  BridgeOK'
<1> USE DEF Packets
<1>1. /\ UNCHANGED <<handler, current, spans, events>>
      /\ answer \in {0} \cup Messages /\ endpoint \in Packets
      /\ tty \in Packets /\ written \in 0..MaxBytes /\ <<>> \in Packets
      /\ pc = "transmit" => answer \in Messages
  BY DEF SendPacket, TakePacket, BoardReceives, BoardReset, BoardLoop, BoardExecutes,
     BoardTransmits, plugin, BridgeOK, BridgeTypeOK
<1>2. ASSUME answer' \in {0} \cup Messages, endpoint' \in Packets, tty' \in Packets,
             written' \in 0..MaxBytes, pc' = "transmit" => answer' \in Messages
      PROVE  BridgeOK'
  BY <1>1, <1>2 DEF BridgeOK, BridgeTypeOK, SpanInv
<1>3. CASE SendPacket \/ BoardReceives
  BY <1>1, <1>2, <1>3 DEF SendPacket, HostSends, BoardReceives, Configure, DataOut, plugin,
     loop
<1>4. CASE TakePacket
  <2>1. /\ endpoint # <<>> /\ tty' = Append(tty, Head(endpoint))
        /\ endpoint' = Tail(endpoint) /\ answer' = answer /\ pc' = pc
        /\ \E n \in 0..EchoMax : written' = written + n /\ written' <= MaxBytes
    BY <1>4 DEF TakePacket, DataIn, vars, loop
  <2>2. tty' \in Packets /\ endpoint' \in Packets
    BY <1>1, <2>1
  <2>3. written' \in 0..MaxBytes
    BY <1>1, <2>1, BridgeAssumption, ConstantsAssumption
  <2> QED
    BY <1>1, <1>2, <2>1, <2>2, <2>3
<1>5. CASE BoardReset
  BY <1>1, <1>2, <1>5 DEF BoardReset, Deconfigure, plugin, loop
<1>6. CASE BoardLoop
  <2>1. CASE Read \/ Advance \/ EndOfPacket \/ Gathered
    <3>1. UNCHANGED <<answer, endpoint, tty, written>> /\ pc' # "transmit"
      BY <1>6, <2>1 DEF BoardLoop, BoardExecutes, BoardTransmits, Executing, Transmit, Read,
         Advance, EndOfPacket, Release, Rearm, Gathered, plugin
    <3> QED
      BY <1>1, <1>2, <3>1
  <2>2. CASE BoardExecutes
    <3>1. UNCHANGED <<endpoint, tty, written>>
      BY <2>2 DEF BoardExecutes, plugin
    <3>2. \A m \in DOMAIN spans : m \in Messages
      BY BridgeAssumption DEF BridgeOK, BridgeTypeOK, SpanInv, Messages
    <3>3. /\ answer' \in {0} \cup Messages
          /\ pc' = "transmit" => answer' \in Messages
      BY <1>1, <2>2, <3>2 DEF BoardExecutes, Silence
    <3> QED
      BY <1>1, <1>2, <3>1, <3>3
  <2>3. CASE BoardTransmits
    <3>1. UNCHANGED <<answer, tty, written>> /\ pc' = "read" /\ pc = "transmit"
      BY <2>3 DEF BoardTransmits, Transmit, plugin
    <3>2. endpoint' \in Packets
      <4>1. answer \in Messages /\ AnswerPackets \in Nat
        BY <1>1, <3>1, BridgeAssumption
      <4>2. PICK line \in LinePackets :
              endpoint' = <<>> \/
              endpoint' = [n \in 1..AnswerPackets |-> [of |-> answer, ends |-> n = line]]
        BY <2>3 DEF BoardTransmits
      <4> DEFINE all == [n \in 1..AnswerPackets |-> [of |-> answer, ends |-> n = line]]
      <4>3. all \in [1..AnswerPackets -> Packet]
        BY <4>1 DEF Packet
      <4>4. all \in Packets
        BY <4>1, <4>3
      <4> QED
        BY <1>1, <4>2, <4>4
    <3> QED
      BY <1>1, <1>2, <3>1, <3>2
  <2> QED
    BY <1>6, <2>1, <2>2, <2>3 DEF BoardLoop
<1> QED
  BY <1>3, <1>4, <1>5, <1>6

LEMMA BridgeOKInvariant == BridgeSpec => []BridgeOK
<1>1. BridgeInit /\ TypeOK => BridgeOK
  BY BridgeAssumption, ConstantsAssumption
     DEF BridgeInit, Init, BridgeOK, BridgeTypeOK, SpanInv, Packets
<1>2. TypeOK /\ TypeOK' /\ BridgeOK /\ [BridgeNext]_bridgeVars => BridgeOK'
  <2> SUFFICES ASSUME TypeOK, TypeOK', BridgeOK, [BridgeNext]_bridgeVars PROVE BridgeOK'
    OBVIOUS
  <2>1. CASE UNCHANGED bridgeVars
    BY <2>1 DEF bridgeVars, plugin, vars, loop, BridgeOK, BridgeTypeOK, SpanInv, Packets
  <2>2. CASE BridgeNext
    BY <2>2, BridgeOKHandler, BridgeOKBoard DEF BridgeNext
  <2> QED
    BY <2>1, <2>2
<1>3. BridgeSpec => []TypeOK
  BY BridgeImplementsVcp, TypeCorrect, PTL
<1> QED
  BY <1>1, <1>2, <1>3, PTL DEF BridgeSpec

\* Whatever the interleaving of the handler, the wire and the board, every
\* packet names a message and no more is written than the stream has.
THEOREM BridgeTypeCorrect == BridgeSpec => []BridgeTypeOK
<1>1. BridgeOK => BridgeTypeOK
  BY DEF BridgeOK
<1> QED
  BY <1>1, BridgeOKInvariant, PTL

-----------------------------------------------------------------------------
\* What has been executed stays so.
LEMMA ExecutedStays ==
  ASSUME TypeOK, BridgeOK, NEW m, Executed(m),
         consumed' = consumed \/ consumed' = consumed \o request,
         spans' = spans \/ (m \in DOMAIN spans /\ \E span : spans' = Append(spans, span))
  PROVE  Executed(m)'
<1>1. PICK i \in DOMAIN consumed : consumed[i] = spans[m].last - 1
  BY DEF Executed
<1>2. /\ spans \in Seq([first : 1..MaxBytes, last : 1..MaxBytes])
      /\ consumed \in Seq(Byte) /\ request \in Seq(Byte)
  BY DEF BridgeOK, BridgeTypeOK, TypeOK
<1>3. spans'[m] = spans[m]
  <2>1. CASE spans' = spans
    BY <2>1
  <2>2. ASSUME NEW span, m \in DOMAIN spans, spans' = Append(spans, span)
        PROVE  spans'[m] = spans[m]
    BY <1>2, <2>2
  <2> QED
    BY <2>1, <2>2
<1>4. i \in DOMAIN consumed' /\ consumed'[i] = consumed[i]
  <2>1. CASE consumed' = consumed
    BY <1>1, <2>1
  <2>2. CASE consumed' = consumed \o request
    BY <1>1, <1>2, <2>2
  <2> QED
    BY <2>1, <2>2
<1> QED
  BY <1>1, <1>3, <1>4 DEF Executed

\* A request is executed once: a text that carries one has bytes that none
\* before it had.
LEMMA CarriedIsNew ==
  ASSUME TypeOK, OrderInv, BridgeOK, NEW m \in DOMAIN spans, Carries(m)
  PROVE  /\ ~ Executed(m)
         /\ \E k \in DOMAIN request : request[k] = spans[m].last - 1
<1> DEFINE b == spans[m].last - 1
<1>1. b \in (spans[m].first..spans[m].last) \ Newlines
  <2>1. spans \in Seq([first : 1..MaxBytes, last : 1..MaxBytes]) /\ MaxBytes \in Nat
    BY ConstantsAssumption DEF BridgeOK, BridgeTypeOK
  <2> DEFINE S == [first : 1..MaxBytes, last : 1..MaxBytes]
  <2>2. spans[m] \in S
    <3>1. spans \in Seq(S)
      BY <2>1
    <3> HIDE DEF S
    <3> QED
      BY <3>1
  <2>3. spans[m].first \in Nat /\ spans[m].last \in Nat
    BY <2>1, <2>2
  <2> QED
    BY <2>3 DEF BridgeOK, SpanInv
<1>2. PICK k \in DOMAIN request : request[k] = b
  BY <1>1 DEF Carries
<1>3. /\ consumed \in Seq(Byte) /\ request \in Seq(Byte)
      /\ Len(consumed) \in Nat /\ Len(request) \in Nat
  BY DEF TypeOK
<1>4. /\ Len(consumed) + k \in DOMAIN Kept /\ Kept[Len(consumed) + k] = request[k]
      /\ \A i \in DOMAIN consumed : /\ i \in DOMAIN Kept /\ Kept[i] = consumed[i]
                                    /\ i < Len(consumed) + k
  BY <1>3 DEF Kept
<1>5. request[k] \in Nat
  BY <1>3 DEF Byte
<1>6. ASSUME NEW i \in DOMAIN consumed PROVE consumed[i] # b
  <2>1. Kept[i] < Kept[Len(consumed) + k]
    BY <1>4 DEF OrderInv, NothingTwice
  <2>2. consumed[i] \in Nat
    BY <1>3 DEF Byte
  <2> QED
    BY <1>2, <1>4, <1>5, <2>1, <2>2
<1> QED
  BY <1>2, <1>6 DEF Executed

DialogueInv == LineInv /\ PacketInv /\ AnswersInTime

\* The numbers that every step needs.
LEMMA Numbers ==
  ASSUME BridgeOK
  PROVE  /\ current \in Nat /\ Len(events) \in Nat /\ Len(spans) \in Nat
         /\ DOMAIN events = 1..Len(events) /\ DOMAIN spans = 1..Len(spans)
         /\ handler \in {"pop", "flush"} => Len(events) = current
         /\ handler \in {"write", "drain", "read"} => Len(events) + 1 = current
         /\ handler = "write" => Len(spans) + 1 = current
         /\ handler # "write" => Len(spans) = current
         /\ handler \in {"drain", "read"} => current \in DOMAIN spans
         /\ \A m \in DOMAIN events : m \in DOMAIN spans
<1>1. /\ events \in Seq(Packets) /\ current \in Nat
      /\ spans \in Seq([first : 1..MaxBytes, last : 1..MaxBytes])
  BY BridgeAssumption DEF BridgeOK, BridgeTypeOK
<1>2. /\ Len(events) \in Nat /\ Len(spans) \in Nat
      /\ DOMAIN events = 1..Len(events) /\ DOMAIN spans = 1..Len(spans)
  BY <1>1
<1> QED
  BY <1>1, <1>2 DEF BridgeOK, SpanInv

LEMMA DialogueHandler ==
  ASSUME TypeOK, BridgeOK, BridgeOK', DialogueInv, Handler
  PROVE  DialogueInv'
<1>1. UNCHANGED <<pc, consumed, request, answer, endpoint>>
  BY DEF Handler, Pop, Write, Drain, ReadAnswer, Flush, HandlerMoves, vars, loop
<1>2. CASE Pop
  <2>1. /\ handler = "pop" /\ handler' = "write" /\ current' = current + 1
        /\ tty' = <<>> /\ UNCHANGED <<spans, events>>
    BY <1>2 DEF Pop, HandlerMoves
  <2>2. pc # "transmit" /\ ~ EndsIn(endpoint)
    BY <2>1 DEF DialogueInv, LineInv
  <2>3. LineInv'
    BY <1>1, <2>1, <2>2 DEF DialogueInv, LineInv, Executed, EndsIn
  <2>4. PacketInv'
    BY <1>1, <2>1, <2>2 DEF DialogueInv, PacketInv, EndsIn
  <2> QED
    BY <2>1, <2>3, <2>4 DEF DialogueInv, AnswersInTime
<1>3. CASE Write
  <2>1. /\ handler = "write" /\ handler' = "drain" /\ UNCHANGED <<current, tty, events>>
        /\ \E span : spans' = Append(spans, span)
    BY <1>3 DEF Write, HandlerMoves
  <2>2. pc # "transmit" /\ ~ EndsIn(endpoint) /\ ~ EndsIn(tty)
    BY <2>1 DEF DialogueInv, LineInv
  <2>3. ASSUME NEW m \in DOMAIN events PROVE Executed(m)'
    BY <1>1, <2>1, Numbers, ExecutedStays DEF DialogueInv, LineInv
  <2>4. LineInv'
    BY <1>1, <2>1, <2>2, <2>3 DEF LineInv, EndsIn
  <2>5. PacketInv'
    BY <1>1, <2>1, <2>2 DEF DialogueInv, PacketInv, EndsIn
  <2> QED
    BY <2>1, <2>4, <2>5 DEF DialogueInv, AnswersInTime
<1>4. CASE Drain
  <2>1. /\ handler = "drain" /\ handler' = "read"
        /\ UNCHANGED <<current, spans, tty, events>>
    BY <1>4 DEF Drain, HandlerMoves
  <2>2. LineInv'
    BY <1>1, <2>1 DEF DialogueInv, LineInv, Executed, EndsIn
  <2>3. PacketInv'
    BY <1>1, <2>1 DEF DialogueInv, PacketInv, EndsIn
  <2> QED
    BY <2>1, <2>2, <2>3 DEF DialogueInv, AnswersInTime
<1>5. CASE ReadAnswer
  <2>1. /\ handler = "read" /\ handler' = "flush" /\ UNCHANGED <<current, spans>>
    BY <1>5 DEF ReadAnswer, HandlerMoves
  <2>2. tty \in Packets /\ events \in Seq(Packets)
    BY DEF BridgeOK, BridgeTypeOK
  <2>3. PICK n \in 1..Len(tty) :
          /\ events' = Append(events, SubSeq(tty, 1, n))
          /\ tty' = SubSeq(tty, n + 1, Len(tty))
          /\ tty[n].ends \/ n = AnswerPackets
          /\ \A k \in 1..(n - 1) : ~ tty[k].ends
    BY <1>5, <2>2, LineRead
  <2>4. /\ pc # "transmit" /\ ~ EndsIn(endpoint) /\ Executed(current)
        /\ \A k \in DOMAIN endpoint : endpoint[k].of = current
    BY <1>5, <2>1, <2>2, LineRead DEF DialogueInv, LineInv, PacketInv
  <2>5. /\ Len(events') = Len(events) + 1 /\ Len(events') = current
        /\ DOMAIN events' = 1..(Len(events) + 1)
        /\ events'[current] = SubSeq(tty, 1, n)
        /\ \A m \in DOMAIN events : events'[m] = events[m]
    <3>1. events' = Append(events, SubSeq(tty, 1, n))
      BY <2>3
    <3>2. Len(events) + 1 = current
      BY <2>1, Numbers
    <3> DEFINE e == SubSeq(tty, 1, n)
    <3> HIDE DEF e
    <3>3. events' = Append(events, e)
      BY <3>1 DEF e
    <3>4. /\ Len(events') = Len(events) + 1 /\ DOMAIN events' = 1..(Len(events) + 1)
          /\ events'[current] = e /\ \A m \in DOMAIN events : events'[m] = events[m]
      BY <2>2, <3>2, <3>3, Numbers DEF Packets
    <3> QED
      BY <3>2, <3>4 DEF e
  <2>6. \A m \in DOMAIN events' : m \in DOMAIN events \/ m = current
    BY <2>1, <2>5, Numbers
  <2>7. LineInv'
    <3>1. ASSUME NEW m \in DOMAIN events' PROVE Executed(m)'
      BY <1>1, <2>1, <2>4, <2>6 DEF DialogueInv, LineInv, Executed
    <3>2. Executed(current)'
      BY <1>1, <2>1, <2>4 DEF Executed
    <3> QED
      BY <1>1, <2>1, <2>4, <3>1, <3>2 DEF LineInv, EndsIn
  <2>8. PacketInv'
    BY <1>1, <2>1, <2>4, <2>5 DEF PacketInv, EndsIn
  <2>9. AnswersInTime'
    <3> DEFINE e == SubSeq(tty, 1, n)
    <3>1. /\ Len(e) = n /\ DOMAIN e = 1..n /\ \A k \in 1..n : e[k] = tty[k]
          /\ DOMAIN tty = 1..Len(tty) /\ Len(tty) \in Nat /\ e # <<>>
      <4>1. Len(tty) \in Nat /\ DOMAIN tty = 1..Len(tty)
        BY <2>2 DEF Packets
      <4>2. \A k \in 1..n : tty[k] \in Packet
        BY <2>2, <4>1 DEF Packets
      <4>3. /\ e \in Seq(Packet) /\ Len(e) = n /\ \A k \in 1..n : e[k] = tty[k]
        BY <4>1, <4>2, SubSeqProperties
      <4> HIDE DEF e
      <4> QED
        BY <4>1, <4>3
    <3>2. \A k \in 1..n : /\ tty[k].of \in {current - 1, current}
                          /\ tty[k].ends => tty[k].of = current
      BY <2>1, <3>1 DEF DialogueInv, PacketInv
    <3> HIDE DEF e
    <3>3. /\ e # <<>>
          /\ e[Len(e)].ends \/ Len(e) = AnswerPackets
          /\ \A k \in DOMAIN e : /\ e[k].of \in {current - 1, current}
                                 /\ e[k].ends => e[k].of = current /\ k = Len(e)
      <4>1. e[Len(e)] = tty[n] /\ (tty[n].ends \/ Len(e) = AnswerPackets)
        BY <2>3, <3>1
      <4>2. ASSUME NEW k \in DOMAIN e, e[k].ends PROVE k = Len(e)
        <5>1. k \in 1..n /\ tty[k].ends
          BY <3>1, <4>2
        <5>2. k \notin 1..(n - 1)
          BY <2>3, <5>1
        <5> QED
          BY <3>1, <5>1, <5>2
      <4> QED
        BY <3>1, <3>2, <4>1, <4>2
    <3>4. events'[current] = e
      BY <2>5 DEF e
    <3>5. ASSUME NEW m \in DOMAIN events, m \in DOMAIN events'
          PROVE  /\ events'[m] # <<>>
                 /\ events'[m][Len(events'[m])].ends \/ Len(events'[m]) = AnswerPackets
                 /\ \A k \in DOMAIN events'[m] :
                      /\ events'[m][k].of \in {m - 1, m}
                      /\ events'[m][k].ends =>
                           events'[m][k].of = m /\ k = Len(events'[m])
      <4>1. events'[m] = events[m]
        BY <2>5
      <4> QED
        BY <4>1 DEF DialogueInv, AnswersInTime
    <3>6. ASSUME NEW m \in DOMAIN events', m \notin DOMAIN events
          PROVE  m = current /\ events'[m] = e
      BY <2>6, <3>4, <3>6
    <3>7. ASSUME NEW m \in DOMAIN events'
          PROVE  /\ events'[m] # <<>>
                 /\ events'[m][Len(events'[m])].ends \/ Len(events'[m]) = AnswerPackets
                 /\ \A k \in DOMAIN events'[m] :
                      /\ events'[m][k].of \in {m - 1, m}
                      /\ events'[m][k].ends =>
                           events'[m][k].of = m /\ k = Len(events'[m])
      <4>1. CASE m \in DOMAIN events
        BY <3>5, <4>1
      <4>2. CASE m \notin DOMAIN events
        <5>1. m = current /\ events'[m] = e
          BY <3>6, <4>2
        <5>2. /\ events'[m] # <<>>
              /\ events'[m][Len(events'[m])].ends \/ Len(events'[m]) = AnswerPackets
          BY <3>3, <5>1
        <5>3. ASSUME NEW k \in DOMAIN events'[m]
              PROVE  /\ events'[m][k].of \in {m - 1, m}
                     /\ events'[m][k].ends => events'[m][k].of = m /\ k = Len(events'[m])
          <6>1. k \in DOMAIN e /\ events'[m][k] = e[k] /\ Len(events'[m]) = Len(e)
            BY <5>1
          <6>2. /\ e[k].of \in {current - 1, current}
                /\ e[k].ends => e[k].of = current /\ k = Len(e)
            BY <3>3, <6>1
          <6> QED
            BY <5>1, <6>1, <6>2
        <5> QED
          BY <5>2, <5>3
      <4> QED
        BY <4>1, <4>2
    <3> QED
      BY <3>7 DEF AnswersInTime
  <2> QED
    BY <2>7, <2>8, <2>9 DEF DialogueInv
<1>6. CASE Flush
  <2>1. /\ handler = "flush" /\ handler' = "pop" /\ tty' = <<>>
        /\ UNCHANGED <<current, spans, events>>
    BY <1>6 DEF Flush, HandlerMoves
  <2>2. pc # "transmit" /\ ~ EndsIn(endpoint)
    BY <2>1 DEF DialogueInv, LineInv
  <2>3. LineInv'
    BY <1>1, <2>1, <2>2 DEF DialogueInv, LineInv, Executed, EndsIn
  <2>4. PacketInv'
    BY <1>1, <2>1, <2>2 DEF DialogueInv, PacketInv, EndsIn
  <2> QED
    BY <2>1, <2>3, <2>4 DEF DialogueInv, AnswersInTime
<1> QED
  BY <1>2, <1>3, <1>4, <1>5, <1>6 DEF Handler

LEMMA DialogueBoard ==
  ASSUME TypeOK, TypeOK', OrderInv, BridgeOK, BridgeOK', DialogueInv,
         SendPacket \/ TakePacket \/ BoardReceives \/ BoardReset \/ BoardLoop
  PROVE  DialogueInv'
<1>1. UNCHANGED <<handler, current, spans, events>> /\ AnswersInTime'
  BY DEF SendPacket, TakePacket, BoardReceives, BoardReset, BoardLoop, BoardExecutes,
     BoardTransmits, plugin, DialogueInv, AnswersInTime
<1>2. ASSUME UNCHANGED <<endpoint, tty, answer, consumed>>,
             pc' = pc \/ pc' # "transmit"
      PROVE  DialogueInv'
  <2>1. LineInv'
    BY <1>1, <1>2 DEF DialogueInv, LineInv, Executed, EndsIn
  <2>2. PacketInv'
    BY <1>1, <1>2 DEF DialogueInv, PacketInv, EndsIn
  <2> QED
    BY <1>1, <2>1, <2>2 DEF DialogueInv
<1>3. CASE SendPacket \/ BoardReceives
  BY <1>2, <1>3 DEF SendPacket, HostSends, BoardReceives, Configure, DataOut, plugin, loop
<1>4. CASE TakePacket
  <2>1. /\ endpoint # <<>> /\ tty' = Append(tty, Head(endpoint))
        /\ endpoint' = Tail(endpoint) /\ UNCHANGED <<answer, pc, consumed>>
    BY <1>4 DEF TakePacket, DataIn, vars, loop
  <2>2. /\ endpoint \in Seq(Packet) /\ tty \in Seq(Packet)
    BY DEF BridgeOK, BridgeTypeOK, Packets
  <2> DEFINE first == endpoint[1]
  <2>3. /\ 1 \in DOMAIN endpoint
        /\ \A n \in DOMAIN endpoint' :
             n + 1 \in DOMAIN endpoint /\ n + 1 # 1 /\ endpoint'[n] = endpoint[n + 1]
        /\ \A n, k \in DOMAIN endpoint' : n + 1 = k + 1 => n = k
        /\ \A n \in DOMAIN tty' : (n \in DOMAIN tty /\ tty'[n] = tty[n]) \/ tty'[n] = first
    BY <2>1, <2>2
  <2> HIDE DEF first
  <2>4. /\ EndsIn(endpoint') => EndsIn(endpoint) /\ ~ first.ends
        /\ first.ends => EndsIn(endpoint)
        /\ EndsIn(tty') => EndsIn(tty) \/ first.ends
        /\ first.of \in {Len(events), Len(events) + 1}
    <3>1. \A n, k \in DOMAIN endpoint : endpoint[n].ends /\ endpoint[k].ends => n = k
      BY DEF DialogueInv, LineInv
    <3>2. \A n \in DOMAIN endpoint : endpoint[n].of \in {Len(events), Len(events) + 1}
      BY DEF DialogueInv, PacketInv
    <3> QED
      BY <2>3, <3>1, <3>2 DEF EndsIn, first
  <2>5. LineInv'
    <3>1. /\ \A m \in DOMAIN events : Executed(m)'
          /\ Executed(current) => Executed(current)'
      BY <1>1, <2>1 DEF DialogueInv, LineInv, Executed
    <3>2. \A n, k \in DOMAIN endpoint' : endpoint'[n].ends /\ endpoint'[k].ends => n = k
      BY <2>3 DEF DialogueInv, LineInv
    <3> QED
      BY <1>1, <2>1, <2>4, <3>1, <3>2 DEF DialogueInv, LineInv
  <2>6. PacketInv'
    <3>1. \A n \in DOMAIN endpoint' : endpoint'[n].of \in {Len(events), Len(events) + 1}
      BY <2>3 DEF DialogueInv, PacketInv
    <3>2. EndsIn(endpoint') \/ (EndsIn(tty') /\ handler # "flush") =>
             \A n \in DOMAIN endpoint' : endpoint'[n].of = current
      BY <2>3, <2>4 DEF DialogueInv, PacketInv
    <3>3. ASSUME handler \in {"write", "drain", "read"}, NEW n \in DOMAIN tty'
          PROVE  /\ tty'[n].of \in {current - 1, current}
                 /\ tty'[n].ends => tty'[n].of = current
      <4>1. CASE n \in DOMAIN tty /\ tty'[n] = tty[n]
        BY <3>3, <4>1 DEF DialogueInv, PacketInv
      <4>2. CASE tty'[n] = first
        <5>1. first.of \in {current - 1, current}
          BY <2>4, <3>3, Numbers
        <5>2. first.ends => first.of = current
          BY <2>3, <2>4 DEF DialogueInv, PacketInv, first
        <5> QED
          BY <4>2, <5>1, <5>2
      <4> QED
        BY <2>3, <4>1, <4>2
    <3> QED
      BY <1>1, <3>1, <3>2, <3>3 DEF PacketInv
  <2> QED
    BY <1>1, <2>5, <2>6 DEF DialogueInv
<1>5. CASE BoardReset
  <2>1. endpoint' = <<>> /\ UNCHANGED <<tty, answer, pc, consumed>>
    BY <1>5 DEF BoardReset, Deconfigure, plugin, loop
  <2>2. LineInv'
    BY <1>1, <2>1 DEF DialogueInv, LineInv, Executed, EndsIn
  <2>3. PacketInv'
    BY <1>1, <2>1 DEF DialogueInv, PacketInv, EndsIn
  <2> QED
    BY <1>1, <2>2, <2>3 DEF DialogueInv
<1>6. CASE BoardLoop
  <2>1. CASE (Read \/ Advance \/ EndOfPacket \/ Gathered)
             /\ UNCHANGED <<plugin, answer, endpoint>>
    <3>1. UNCHANGED <<answer, endpoint, tty, consumed>> /\ pc' # "transmit"
      BY <2>1 DEF Read, Advance, EndOfPacket, Release, Rearm, Gathered, plugin
    <3> QED
      BY <1>2, <3>1
  <2>2. CASE BoardExecutes
    <3>1. /\ pc = "execute" /\ consumed' = consumed \o request
          /\ UNCHANGED <<endpoint, tty>>
      BY <2>2 DEF BoardExecutes, Executing, plugin
    <3>2. \A m : Executed(m) => Executed(m)'
      <4> SUFFICES ASSUME NEW m, Executed(m) PROVE Executed(m)'
        OBVIOUS
      <4> QED
        BY <1>1, <3>1, ExecutedStays
    <3>3. ASSUME pc' = "transmit"
          PROVE  /\ answer' = current /\ handler \in {"drain", "read"}
                 /\ Executed(current)' /\ ~ Executed(current)
      <4>1. PICK m \in DOMAIN spans : Carries(m) /\ answer' = m
        BY <2>2, <3>3 DEF BoardExecutes, Silence
      <4>2. PICK k \in DOMAIN request : request[k] = spans[m].last - 1
        BY <4>1, CarriedIsNew
      <4>3. ~ Executed(m)
        BY <4>1, CarriedIsNew
      <4>4. m \notin DOMAIN events
        BY <4>3 DEF DialogueInv, LineInv
      <4>5. handler \in {"pop", "write", "drain", "read", "flush"}
        BY DEF BridgeOK, BridgeTypeOK
      <4>6. m = current /\ handler \in {"drain", "read"}
        BY <4>1, <4>4, <4>5, Numbers
      <4>7. Executed(m)'
        <5>1. consumed \in Seq(Byte) /\ request \in Seq(Byte)
          BY DEF TypeOK
        <5>2. /\ Len(consumed) + k \in DOMAIN consumed'
              /\ consumed'[Len(consumed) + k] = request[k]
          BY <3>1, <5>1
        <5> QED
          BY <1>1, <4>2, <5>2 DEF Executed
      <4> QED
        BY <1>1, <4>1, <4>3, <4>6, <4>7
    <3>4. LineInv'
      <4>1. \A m \in DOMAIN events : Executed(m)'
        BY <3>2, Numbers DEF DialogueInv, LineInv
      <4>2. /\ EndsIn(endpoint) \/ EndsIn(tty) => Executed(current)
            /\ EndsIn(endpoint) => handler \in {"drain", "read"} /\ ~ EndsIn(tty)
            /\ EndsIn(tty) => handler \in {"drain", "read", "flush"}
        BY DEF DialogueInv, LineInv
      <4>3. Executed(current) => Executed(current)'
        BY <1>1, <3>2
      <4> QED
        BY <1>1, <3>1, <3>3, <4>1, <4>2, <4>3 DEF DialogueInv, LineInv
    <3>5. PacketInv'
      BY <1>1, <3>1 DEF DialogueInv, PacketInv
    <3> QED
      BY <1>1, <3>4, <3>5 DEF DialogueInv
  <2>3. CASE BoardTransmits
    <3>1. /\ pc = "transmit" /\ pc' = "read" /\ UNCHANGED <<tty, answer, consumed>>
      BY <2>3 DEF BoardTransmits, Transmit, plugin
    <3>2. /\ answer = current /\ Executed(current) /\ ~ EndsIn(tty)
          /\ handler \in {"drain", "read"}
      BY <3>1 DEF DialogueInv, LineInv
    <3>3. PICK line \in LinePackets :
            endpoint' = <<>> \/
            endpoint' = [n \in 1..AnswerPackets |-> [of |-> answer, ends |-> n = line]]
      BY <2>3 DEF BoardTransmits
    <3>4. \A n \in DOMAIN endpoint' : endpoint'[n].of = current /\ (endpoint'[n].ends <=> n = line)
      <4>1. CASE endpoint' = <<>>
        BY <4>1
      <4>2. CASE endpoint' = [n \in 1..AnswerPackets |-> [of |-> answer, ends |-> n = line]]
        BY <3>2, <4>2
      <4> QED
        BY <3>3, <4>1, <4>2
    <3>5. LineInv'
      <4>1. Executed(current)' /\ \A m \in DOMAIN events : Executed(m)'
        BY <1>1, <3>1, <3>2 DEF DialogueInv, LineInv, Executed
      <4>2. \A n, k \in DOMAIN endpoint' : endpoint'[n].ends /\ endpoint'[k].ends => n = k
        BY <3>4
      <4> QED
        BY <1>1, <3>1, <3>2, <4>1, <4>2 DEF DialogueInv, LineInv
    <3>6. PacketInv'
      BY <1>1, <3>1, <3>2, <3>4, Numbers DEF DialogueInv, PacketInv
    <3> QED
      BY <1>1, <3>5, <3>6 DEF DialogueInv
  <2> QED
    BY <1>6, <2>1, <2>2, <2>3 DEF BoardLoop
<1> QED
  BY <1>3, <1>4, <1>5, <1>6

\* No answer is taken for another, whatever the packets in which the host's
\* drivers cut the stream, whatever they echo, and however often the host
\* configures the device: an event ends with the line of its own answer, if it
\* has room for it, and holds beside it padding of the one before at most.
THEOREM AnswersComeInTime == BridgeSpec => []AnswersInTime
<1>1. BridgeInit => DialogueInv
  BY DEF BridgeInit, Init, DialogueInv, LineInv, PacketInv, AnswersInTime, EndsIn
<1>2. /\ TypeOK /\ TypeOK' /\ OrderInv /\ BridgeOK /\ BridgeOK'
      /\ DialogueInv /\ [BridgeNext]_bridgeVars
      => DialogueInv'
  <2> SUFFICES ASSUME TypeOK, TypeOK', OrderInv, BridgeOK, BridgeOK', DialogueInv,
                      [BridgeNext]_bridgeVars
               PROVE  DialogueInv'
    OBVIOUS
  <2>1. CASE UNCHANGED bridgeVars
    <3>1. UNCHANGED <<handler, current, spans, events, pc, consumed, answer, endpoint, tty>>
      BY <2>1 DEF bridgeVars, plugin, vars, loop
    <3>2. LineInv'
      BY <3>1 DEF DialogueInv, LineInv, Executed, EndsIn
    <3>3. PacketInv'
      BY <3>1 DEF DialogueInv, PacketInv, EndsIn
    <3> QED
      BY <3>1, <3>2, <3>3 DEF DialogueInv, AnswersInTime
  <2>2. CASE BridgeNext
    BY <2>2, DialogueHandler, DialogueBoard DEF BridgeNext
  <2> QED
    BY <2>1, <2>2
<1>3. BridgeSpec => [](TypeOK /\ OrderInv)
  BY BridgeImplementsVcp, TypeCorrect, OrderInvariant, PTL
<1>4. DialogueInv => AnswersInTime
  BY DEF DialogueInv
<1> QED
  BY <1>1, <1>2, <1>3, <1>4, BridgeOKInvariant, PTL DEF BridgeSpec
=============================================================================
