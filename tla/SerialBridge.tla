----------------------------- MODULE SerialBridge -----------------------------
(***************************************************************************)
(* The serial plugin's handler and the board, joined by the tty: the       *)
(* dialogue of plugin/libjanus_serial.c:549-572 with the main loop of      *)
(* example/stm32f4/src/main.c.  VcpLink gives the board; here its host is  *)
(* the handler's tty, and its answers have contents.                       *)
(*                                                                         *)
(* The tty is canonical and echoes, since the plugin clears ICANON and     *)
(* ECHO in c_iflag and leaves c_lflag as the driver gives it               *)
(* (libjanus_serial.c:256): read() waits for a whole line, and what the    *)
(* board sends goes back to it, as far as the driver has room.             *)
(*                                                                         *)
(* A request is a stretch of the host's stream and ends with the line end  *)
(* that the handler adds; json_dumps puts line ends of its own inside, and *)
(* the board drops all of them.  An answer is 256 bytes, one line and its  *)
(* padding, which leave the board in packets; a packet is named by the     *)
(* request it answers and by whether the line ends in it.                  *)
(***************************************************************************)
EXTENDS VcpLink

CONSTANTS
  MaxMessages,   \* bound on the messages popped
  AnswerPackets, \* packets an answer takes: 256 bytes, 64 each
  LinePackets,   \* those in which an answer's line may end
  EchoMax        \* bound on the bytes echoed for a packet

ASSUME BridgeAssumption ==
  /\ MaxMessages \in Nat /\ AnswerPackets \in Nat \ {0} /\ EchoMax \in Nat
  /\ LinePackets \subseteq 1..AnswerPackets

VARIABLES
  handler,  \* program counter of janus_serial_handler
  current,  \* the message in hand, or the last one
  written,  \* bytes of the stream written to the tty, echoes included
  spans,    \* the first and last byte of each request written
  answer,   \* what TxBuffer holds: the request it answers
  endpoint, \* packets of the answer under way that the host has yet to take
  tty,      \* packets the tty has received
  events    \* for each message served, the packets pushed as its answer

plugin == <<handler, current, written, spans, tty, events>>
bridgeVars == <<vars, plugin, answer, endpoint>>

BridgeInit ==
  /\ Init
  /\ handler = "pop" /\ current = 0 /\ written = 0 /\ spans = <<>>
  /\ answer = 0 /\ endpoint = <<>> /\ tty = <<>> /\ events = <<>>

-----------------------------------------------------------------------------
(***************************************************************************)
(* The handler.                                                            *)
(***************************************************************************)
HandlerMoves(from, to) ==
  /\ handler = from /\ handler' = to
  /\ UNCHANGED <<vars, answer, endpoint>>

\* A message is popped and tcflush(TCIFLUSH) empties the tty.
Pop ==
  /\ HandlerMoves("pop", "write")
  /\ current < MaxMessages /\ current' = current + 1
  /\ tty' = <<>>
  /\ UNCHANGED <<written, spans, events>>

\* A text ends with a brace, then comes the handler's line end.
Write ==
  /\ HandlerMoves("write", "drain")
  /\ \E last \in (written + 2)..MaxBytes :
       /\ last \in Newlines /\ last - 1 \notin Newlines
       /\ written' = last
       /\ spans' = Append(spans, [first |-> written + 1, last |-> last])
  /\ UNCHANGED <<current, tty, events>>

\* tcdrain returns when the board has accepted every packet.
Drain ==
  /\ HandlerMoves("drain", "read") /\ received = written
  /\ UNCHANGED <<current, written, spans, tty, events>>

\* The place of the first packet with a line end.
FirstLine == CHOOSE n \in DOMAIN tty : tty[n].ends /\ \A k \in 1..(n - 1) : ~ tty[k].ends

\* Mutant: read() gives whatever there is, as after ~ICANON in c_lflag.
ReadRaw ==
  /\ HandlerMoves("read", "flush") /\ tty # <<>>
  /\ LET n == IF Len(tty) < AnswerPackets THEN Len(tty) ELSE AnswerPackets IN
       /\ events' = Append(events, SubSeq(tty, 1, n))
       /\ tty' = SubSeq(tty, n + 1, Len(tty))
  /\ UNCHANGED <<current, written, spans>>

\* read() gives the first line, at most 256 bytes of it; until there is one it
\* fails and is tried again.
ReadAnswer ==
  /\ HandlerMoves("read", "flush")
  /\ \E n \in DOMAIN tty : tty[n].ends
  /\ LET n == IF FirstLine < AnswerPackets THEN FirstLine ELSE AnswerPackets IN
       /\ events' = Append(events, SubSeq(tty, 1, n))
       /\ tty' = SubSeq(tty, n + 1, Len(tty))
  /\ UNCHANGED <<current, written, spans>>

\* tcflush(TCIOFLUSH) discards the rest.
Flush ==
  /\ HandlerMoves("flush", "pop")
  /\ tty' = <<>>
  /\ UNCHANGED <<current, written, spans, events>>

Handler == Pop \/ Write \/ Drain \/ ReadAnswer \/ Flush

-----------------------------------------------------------------------------
(***************************************************************************)
(* The wire.                                                               *)
(***************************************************************************)
\* What the tty holds is cut into packets as the host's driver likes.
SendPacket ==
  /\ HostSends /\ sent' <= written
  /\ UNCHANGED <<plugin, answer, endpoint>>

\* The host takes a packet of the answer, and the tty echoes it as far as there
\* is room; the last one ends the transfer.
TakePacket ==
  /\ endpoint # <<>>
  /\ tty' = Append(tty, Head(endpoint)) /\ endpoint' = Tail(endpoint)
  /\ \E n \in 0..EchoMax : written' = written + n /\ written' <= MaxBytes
  /\ IF Len(endpoint) = 1 THEN DataIn ELSE UNCHANGED vars
  /\ UNCHANGED <<handler, current, spans, events, answer>>

-----------------------------------------------------------------------------
(***************************************************************************)
(* The board.                                                              *)
(***************************************************************************)
\* The text gathered holds all of the m-th request.
Carries(m) ==
  (spans[m].first..spans[m].last) \ Newlines \subseteq {request[n] : n \in DOMAIN request}

\* A whole request is answered, unless it is one of those without an answer or
\* the echoes around it spoil the parsing.  Pieces and echoes are no commands
\* and stand for command 0 on id 0, which has no answer either.
BoardExecutes ==
  /\ Executing
  /\ \/ \E m \in DOMAIN spans :
          Carries(m) /\ Answer /\ answer' = IF pc' = "transmit" THEN m ELSE answer
     \/ Silence /\ UNCHANGED answer
  /\ UNCHANGED <<plugin, endpoint>>

\* The controller copies the answer out of the buffer before it is cleared.
BoardTransmits ==
  /\ Transmit
  /\ \E line \in LinePackets :
       endpoint' = IF sending' = 1
                   THEN [n \in 1..AnswerPackets |-> [of |-> answer, ends |-> n = line]]
                   ELSE <<>>
  /\ UNCHANGED <<plugin, answer>>

BoardReset ==
  /\ Deconfigure
  /\ endpoint' = <<>>
  /\ UNCHANGED <<plugin, answer>>

BoardReceives == (Configure \/ DataOut) /\ UNCHANGED <<plugin, answer, endpoint>>

BoardLoop ==
  \/ (Read \/ Advance \/ EndOfPacket \/ Gathered) /\ UNCHANGED <<plugin, answer, endpoint>>
  \/ BoardExecutes \/ BoardTransmits

BridgeNext == \/ Handler \/ SendPacket \/ TakePacket
              \/ BoardReceives \/ BoardReset \/ BoardLoop

BridgeSpec == BridgeInit /\ [][BridgeNext]_bridgeVars

FairBridge == /\ BridgeSpec /\ WF_bridgeVars(Handler) /\ WF_bridgeVars(SendPacket)
              /\ WF_bridgeVars(TakePacket)
              /\ WF_bridgeVars(BoardReceives) /\ WF_bridgeVars(BoardLoop)

-----------------------------------------------------------------------------
Messages == 1..MaxMessages
Packet == [of : Messages, ends : BOOLEAN]
Packets == Seq(Packet)

BridgeTypeOK ==
  /\ TypeOK
  /\ handler \in {"pop", "write", "drain", "read", "flush"}
  /\ current \in 0..MaxMessages /\ written \in 0..MaxBytes
  /\ spans \in Seq([first : 1..MaxBytes, last : 1..MaxBytes])
  /\ answer \in {0} \cup Messages
  /\ endpoint \in Packets /\ tty \in Packets /\ events \in Seq(Packets)

\* Answers are not exchanged: an event never comes from a request further back
\* than the one before its own, of which it can hold padding only.  A line end
\* in it is the end of its own answer's line and of the event, and without one
\* the event is as long as an answer; however the packets, the echoes and the
\* host's resets fall.
AnswersInTime == \A m \in DOMAIN events :
  /\ events[m] # <<>>
  /\ events[m][Len(events[m])].ends \/ Len(events[m]) = AnswerPackets
  /\ \A n \in DOMAIN events[m] :
       /\ events[m][n].of \in {m - 1, m}
       /\ events[m][n].ends => events[m][n].of = m /\ n = Len(events[m])

\* Why.  Requests are written one by one, and their last bytes are no line ends.
SpanInv ==
  /\ Len(spans) = IF handler = "write" THEN current - 1 ELSE current
  /\ Len(events) = IF handler \in {"pop", "flush"} THEN current ELSE current - 1
  /\ \A m \in DOMAIN spans : /\ spans[m].first < spans[m].last
                             /\ spans[m].last - 1 \notin Newlines

\* So a request is executed once, and answered once.
Executed(m) == \E i \in DOMAIN consumed : consumed[i] = spans[m].last - 1

EndsIn(packets) == \E n \in DOMAIN packets : packets[n].ends

\* There is at most one line under way, that of the message in hand.
LineInv ==
  /\ \A m \in DOMAIN events : Executed(m)
  /\ pc = "transmit" \/ EndsIn(endpoint) => handler \in {"drain", "read"}
  /\ EndsIn(tty) => handler \in {"drain", "read", "flush"}
  /\ pc = "transmit" =>
       answer = current /\ Executed(current) /\ ~ EndsIn(endpoint) /\ ~ EndsIn(tty)
  /\ EndsIn(endpoint) => Executed(current) /\ ~ EndsIn(tty)
  /\ EndsIn(tty) => Executed(current)
  /\ \A n, k \in DOMAIN endpoint : endpoint[n].ends /\ endpoint[k].ends => n = k

\* Where the packets of an answer can be.
PacketInv ==
  /\ \A n \in DOMAIN endpoint : endpoint[n].of \in {Len(events), Len(events) + 1}
  /\ EndsIn(endpoint) \/ (EndsIn(tty) /\ handler # "flush") =>
       \A n \in DOMAIN endpoint : endpoint[n].of = current
  /\ handler \in {"write", "drain", "read"} =>
       \A n \in DOMAIN tty : /\ tty[n].of \in {current - 1, current}
                             /\ tty[n].ends => tty[n].of = current

\* "Active wait for MCU answer": what is pushed for a message answers it.
AnswerOwn == \A m \in DOMAIN events : \A n \in DOMAIN events[m] : events[m][n].of = m
=============================================================================
