---------------------------------- MODULE Rtcp ----------------------------------
(***************************************************************************)
(* janus-gateway/rtcp.c, and the echo plugin's use of it                   *)
(* (plugin/libjanus_serial2.c): compound packets that are queried, fixed,  *)
(* cut and capped in place, and the reports the gateway makes itself.      *)
(*                                                                         *)
(* A packet is the sequence of its 32-bit words.  The header of a message  *)
(* gives the number of words after it, and every function finds the next   *)
(* message by that number alone.  Sequence numbers, mantissas and the      *)
(* integers that a rate is decoded in keep a width, smaller than in the    *)
(* code.                                                                   *)
(***************************************************************************)
EXTENDS Integers, SequencesExt, FiniteSetsExt

CONSTANTS
  MaxBlocks,   \* messages in a compound packet
  SeqModulus,  \* sequence numbers, 2^16
  BlpBits,     \* bits of a NACK's bit mask, 16
  MaxLost,     \* bound on the numbers reported lost at once
  MaxMantissa, \* 0x3FFFF
  Exponents,   \* of the REMBs that peers send, any number of six bits
  WordBits,    \* of the integers a rate is decoded in, 32
  LongShift,   \* what the build makes of a shift by WordBits or more
  Bitrates,    \* values of "bitrate" in a request
  DefaultBitrate, MinBitrate, \* 512 * 1024, 64 * 1024
  CnameLength  \* of "janusvideo", 10

\* 1 << n.
Bit[n \in Nat] == IF n = 0 THEN 1 ELSE 2 * Bit[n - 1]
WordModulus == Bit[WordBits]

ASSUME ConstantsAssumption ==
  /\ MaxBlocks \in Nat /\ SeqModulus \in Nat \ {0} /\ BlpBits \in Nat /\ MaxLost \in Nat
  /\ MaxMantissa \in Nat \ {0} /\ Exponents \subseteq 0..63 /\ WordBits \in Nat \ {0}
\* The C standard leaves it open: x86 takes the low bits of the count, ARM's
\* result is zero.
ASSUME ShiftAssumption == LongShift \in {"low bits", "zero"}
\* janus_rtcp_sdes adds four bytes for padding, whatever is needed.
ASSUME CnameAssumption == CnameLength \in Nat /\ (CnameLength + 2) % 4 = 0
\* A bitrate, 63 bits of a JSON integer, always has an exponent.
ASSUME BitrateAssumption ==
  LET all == Bitrates \cup {MinBitrate, DefaultBitrate} IN
    all \subseteq Nat /\ \E n \in 0..63 : \A b \in all : b <= MaxMantissa * Bit[n]

VARIABLES
  packet,  \* the words in the buffer, up to the packet's length
  phase,   \* where the packet comes from or went
  bitrate, \* janus_serial_session.bitrate
  blocks,  \* history: the messages the packet should hold
  fixed,   \* history: the SSRCs written into it
  cap,     \* history: the bitrate it was capped to
  wanted   \* history: the numbers to report, and the buffer's words

vars == <<packet, phase, bitrate, blocks, fixed, cap, wanted>>

-----------------------------------------------------------------------------
\* Words and messages.
Data == [data |-> "any"]
Ssrc(x) == [ssrc |-> x]
Rate(e, m) == [exp |-> e, mantissa |-> m]
Message(type, fmt, body) == <<[type |-> type, fmt |-> fmt, length |-> Len(body)]>> \o body
Fill(n) == [i \in 1..n |-> Data]

IsNack(word) == word.type = "RTPFB" /\ word.fmt = 1

\* Mutant: the mantissa is rounded up.
EncodeUp(b) ==
  LET e == CHOOSE n \in 0..63 : b <= MaxMantissa * Bit[n] /\ \A k \in 0..(n - 1) : b > MaxMantissa * Bit[k]
  IN  Rate(e, (b + Bit[e] - 1) \div Bit[e])

\* The least exponent whose largest mantissa reaches the bitrate.
Encode(b) ==
  LET e == CHOOSE n \in 0..63 : b <= MaxMantissa * Bit[n] /\ \A k \in 0..(n - 1) : b > MaxMantissa * Bit[k]
  IN  Rate(e, b \div Bit[e])

\* A 32-bit mantissa is shifted by an exponent of six bits that the peer chose.
Decode(word) ==
  LET shift == IF LongShift = "low bits" THEN word.exp % WordBits ELSE word.exp IN
    IF shift < WordBits THEN (word.mantissa * Bit[shift]) % WordModulus ELSE 0

Remb(rate) == Message("PSFB", 15, <<Ssrc("none"), Ssrc("none"), [id |-> "REMB"], rate, Ssrc("none")>>)

SdesBytes == 12 + CnameLength + 2 + (IF (CnameLength + 2) % 4 # 0 THEN 4 ELSE 0)
Sdes == Message("SDES", 1, <<Ssrc("none")>> \o Fill(SdesBytes \div 4 - 2))
EmptyReport == Message("RR", 1, <<Ssrc("none"), Ssrc("none")>> \o Fill(5))

-----------------------------------------------------------------------------
(***************************************************************************)
(* The walk that every function makes: the places of the headers it meets. *)
(***************************************************************************)
After(p, o) == o + p[o].length + 1

\* A walk that meets a word that is no header ends there, and shows it.
EndsAt(p, o) == "length" \notin DOMAIN p[o] \/ p[o].length = 0 \/ After(p, o) > Len(p)

Walk(p) ==
  LET From[o \in DOMAIN p] == {o} \cup IF EndsAt(p, o) THEN {} ELSE From[After(p, o)]
  IN  IF p = <<>> THEN {} ELSE From[1]

\* The synchronisation source at the first of some places.
FirstOf(places, p) == IF places = {} THEN "none" ELSE p[Min(places)].ssrc

GetSenderSsrc(p) ==
  FirstOf({o + 1 : o \in {n \in Walk(p) : p[n].type \in {"SR", "RR", "RTPFB", "PSFB"}}}, p)

GetReceiverSsrc(p) ==
  FirstOf({o + (IF p[o].type = "SR" THEN 7 ELSE 2) :
             o \in {n \in Walk(p) : p[n].type \in {"SR", "RR"} /\ p[n].fmt > 0}}, p)

Named(word) == {word.pid} \cup {word.pid + b : b \in word.blp}
GetNacks(p) ==
  UNION {UNION {Named(p[o + 2 + i]) : i \in 1..(p[o].length - 2)} : o \in {n \in Walk(p) : IsNack(p[n])}}

\* The places of the rates in a packet's REMBs.
RembRates(p) ==
  {o + 4 : o \in {n \in Walk(p) : p[n].type = "PSFB" /\ p[n].fmt = 15 /\ p[n + 3] = [id |-> "REMB"]}}

GetRemb(p) == IF RembRates(p) = {} THEN 0 ELSE Decode(p[Min(RembRates(p))])

-----------------------------------------------------------------------------
(***************************************************************************)
(* The functions that change a packet in place.                            *)
(***************************************************************************)
\* Mutant: feedback messages keep their sender.
LocalWordsReports(h) == IF h.type \in {"FIR", "RTPFB", "PSFB"} THEN {} ELSE {1}

\* Words after the header that take the sender's SSRC, and the receiver's.
LocalWords(h) == IF h.type = "FIR" THEN {} ELSE {1}
RemoteWords(h, isRemb) ==
  CASE h.type = "SR" /\ h.fmt > 0 -> {7}
    [] h.type = "RR" /\ h.fmt > 0 -> {2}
    [] h.type = "FIR" -> {3} \cup (IF h.length >= 20 THEN {2} ELSE {})
    [] h.type = "RTPFB" -> IF h.fmt = 1 THEN {2} ELSE IF h.fmt = 3 THEN {3} ELSE {}
    [] h.type = "PSFB" -> CASE h.fmt = 1 -> {2} [] h.fmt = 4 -> {2, 3} [] h.fmt = 5 -> {3}
                            [] isRemb -> {5} [] OTHER -> {}
    [] OTHER -> {}

\* A word past the packet's end falls into the rest of the buffer.
FixSsrc(p, l, r) ==
  LET local == UNION {{o + k : k \in LocalWords(p[o])} : o \in Walk(p)}
      remote == UNION {{o + k : k \in RemoteWords(p[o], o + 4 \in RembRates(p))} : o \in Walk(p)}
  IN  [i \in DOMAIN p |-> IF l # "none" /\ i \in local THEN Ssrc(l)
                          ELSE IF r # "none" /\ i \in remote THEN Ssrc(r) ELSE p[i]]

\* Mutant: the header of the removed message is not counted.
RemoveNacksShort(p) ==
  LET nacks == {o \in Walk(p) : IsNack(p[o]) /\ p[o].length # 0} IN
    IF nacks = {} THEN p
    ELSE SubSeq(p, 1, Min(nacks) - 1) \o SubSeq(p, Min(nacks) + p[Min(nacks)].length, Len(p))

\* The first NACK goes and what follows it moves up.
RemoveNacks(p) ==
  LET nacks == {o \in Walk(p) : IsNack(p[o]) /\ p[o].length # 0}
      next == Min(nacks) + p[Min(nacks)].length + 1
  IN  IF nacks = {} \/ next > Len(p) + 1 THEN p
      ELSE SubSeq(p, 1, Min(nacks) - 1) \o SubSeq(p, next, Len(p))

CapRemb(p, b) ==
  [i \in DOMAIN p |-> IF b > 0 /\ i \in RembRates(p) /\ Decode(p[i]) > b THEN Encode(b) ELSE p[i]]

\* Mutant: the distance to the block's number is taken one too large.
AddLostLate(state, n, words) ==
  LET last == state[Len(state)] IN
    IF state = <<>> \/ n - last.pid < 1 THEN state
    ELSE IF n - last.pid > BlpBits + 1
         THEN IF Len(state) + 4 <= words THEN Append(state, [pid |-> n, blp |-> {}]) ELSE <<>>
         ELSE [state EXCEPT ![Len(state)].blp = @ \cup ({n - last.pid} \cap 1..BlpBits)]

\* One more number: named already, in a block of its own, or in the last
\* block's mask; no blocks are left when the buffer is too small.
AddLost(state, n, words) ==
  LET last == state[Len(state)] IN
    IF state = <<>> \/ n - last.pid < 1 THEN state
    ELSE IF n - last.pid > BlpBits
         THEN IF Len(state) + 4 <= words THEN Append(state, [pid |-> n, blp |-> {}]) ELSE <<>>
         ELSE [state EXCEPT ![Len(state)].blp = @ \cup ({n - last.pid} \cap 1..BlpBits)]

Nacks(list, words) ==
  LET Blocks[i \in DOMAIN list] == IF i = 1 THEN <<[pid |-> list[1], blp |-> {}]>>
                                   ELSE AddLost(Blocks[i - 1], list[i], words)
      found == Blocks[Len(list)]
  IN  IF found = <<>> THEN <<>>
      ELSE Message("RTPFB", 1, <<Ssrc("none"), Ssrc("none")>> \o found)

-----------------------------------------------------------------------------
(***************************************************************************)
(* The packets that come, and what is done with them.                      *)
(***************************************************************************)
Peer == Ssrc("peer")
NackWords == {[pid |-> 0, blp |-> {1, BlpBits}], [pid |-> SeqModulus \div 2, blp |-> {}]}

Incoming ==
  {Message("SR", 1, <<Peer>> \o Fill(5) \o <<Peer>> \o Fill(5)),
   Message("RR", 0, <<Peer>>),
   Message("SDES", 1, <<Peer>> \o Fill(2)),
   Message("FIR", 4, <<Peer, Peer, Peer, Data>>),
   Message("PSFB", 1, <<Peer, Peer>>)}
  \cup {Message("RTPFB", 1, <<Peer, Peer>> \o s) : s \in {<<x, y>> : x, y \in NackWords}}
  \cup {Message("PSFB", 15, <<Peer, Peer, [id |-> "REMB"], Rate(e, m), Peer>>) :
          e \in Exponents, m \in {1, MaxMantissa}}

\* The last message may be a BYE with nothing after its header.
Endings == {<<>>, <<Message("BYE", 0, <<>>)>>}

Init ==
  /\ packet = <<>> /\ phase = "idle" /\ bitrate = 0
  /\ blocks = <<>> /\ fixed = [l |-> "none", r |-> "none"] /\ cap = 0
  /\ wanted = [list |-> <<>>, words |-> 0]

Receive ==
  /\ phase = "idle" /\ phase' = "incoming"
  /\ \E n \in 1..MaxBlocks : \E bs \in [1..n -> Incoming], ending \in Endings :
       blocks' = bs \o ending
  /\ packet' = FlattenSeq(blocks')
  /\ UNCHANGED <<bitrate, fixed, cap, wanted>>

\* The gateway puts its own SSRCs into the packet.
Fix ==
  /\ phase = "incoming" /\ fixed = [l |-> "none", r |-> "none"]
  /\ \E l \in {"none", "local"}, r \in {"none", "remote"} :
       fixed' = [l |-> l, r |-> r] /\ packet' = FixSsrc(packet, l, r)
  /\ UNCHANGED <<phase, bitrate, blocks, cap, wanted>>

\* It retransmits what the NACKs name, and takes a NACK out.
Retransmit ==
  /\ phase = "incoming" /\ GetNacks(packet) # {}
  /\ packet' = RemoveNacks(packet)
  /\ LET nacks == {i \in DOMAIN blocks : IsNack(Head(blocks[i]))} IN
       blocks' = IF nacks = {} THEN blocks ELSE RemoveAt(blocks, Min(nacks))
  /\ UNCHANGED <<phase, bitrate, fixed, cap, wanted>>

\* janus_serial_incoming_rtcp.
IncomingRtcp ==
  /\ phase = "incoming" /\ phase' = "relayed"
  /\ packet' = CapRemb(packet, bitrate) /\ cap' = bitrate
  /\ UNCHANGED <<bitrate, blocks, fixed, wanted>>

\* A packet of the plugin's own carries its bitrate, which no REMB it stands
\* for was below.
Own(before, b) ==
  /\ phase' = "relayed" /\ packet' = FlattenSeq(before) \o Remb(Encode(b)) /\ cap' = b
  /\ blocks' = Append(before, Remb([exp |-> 0, mantissa |-> b + 1]))
  /\ UNCHANGED <<fixed, wanted>>

\* A "bitrate" in a request; hangup_media sets it to 0 without a packet.
Configure(b) ==
  /\ phase = "idle" /\ bitrate' = b
  /\ IF b > 0 THEN Own(<<>>, b) ELSE UNCHANGED <<packet, phase, blocks, fixed, cap, wanted>>

\* janus_serial_slow_link for video halves the bitrate.
SlowLink ==
  /\ phase = "idle"
  /\ bitrate' = Max({(IF bitrate > 0 THEN bitrate ELSE DefaultBitrate) \div 2, MinBitrate})
  /\ Own(<<EmptyReport, Sdes>>, bitrate')

\* The gateway reports numbers it has missed, from the oldest on.
Report ==
  /\ phase = "idle" /\ phase' = "reported"
  /\ \E n \in 1..MaxLost, first \in 0..(SeqModulus - 1), words \in 4..(MaxLost + 3) :
       \E late \in [1..n -> 0..(SeqModulus - 1)] :
         /\ late[1] = 0 /\ \A i, j \in 1..n : i < j => late[i] < late[j]
         /\ LET list == [i \in 1..n |-> (first + late[i]) % SeqModulus] IN
              wanted' = [list |-> list, words |-> words] /\ packet' = Nacks(list, words)
  /\ blocks' = IF packet' = <<>> THEN <<>> ELSE <<packet'>>
  /\ UNCHANGED <<bitrate, fixed, cap>>

Done ==
  /\ phase \in {"relayed", "reported"} /\ phase' = "idle" /\ packet' = <<>> /\ blocks' = <<>>
  /\ fixed' = [l |-> "none", r |-> "none"] /\ cap' = 0
  /\ wanted' = [list |-> <<>>, words |-> 0]
  /\ UNCHANGED bitrate

Next == \/ Receive \/ Fix \/ Retransmit \/ IncomingRtcp
        \/ (\E b \in Bitrates : Configure(b)) \/ SlowLink \/ Report \/ Done

Spec == Init /\ [][Next]_vars

-----------------------------------------------------------------------------
\* A packet without what the gateway may rewrite: SSRCs and rates.
Masked(p) == [i \in DOMAIN p |-> IF "ssrc" \in DOMAIN p[i] THEN Ssrc("any")
                                 ELSE IF "exp" \in DOMAIN p[i] THEN Rate(0, 0) ELSE p[i]]

\* Fixed, cut and capped in any order, a packet still holds its messages, whole
\* and in order, and nothing else: every in-place write of rtcp.c falls on the
\* word it means.
PacketIsBlocks == Masked(packet) = Masked(FlattenSeq(blocks))

\* After janus_rtcp_fix_ssrc the functions that tell peers apart find the new
\* SSRCs, never the peer's own (rtcp.c:23-111, 111-329).
SsrcFixed ==
  /\ fixed.l # "none" => GetSenderSsrc(packet) \in {"none", fixed.l}
  /\ fixed.r # "none" => GetReceiverSsrc(packet) \in {"none", fixed.r}

Value(word) == word.mantissa * Bit[word.exp]

\* After janus_rtcp_cap_remb the gateway reads no more than the cap out of the
\* packet; a REMB that asked for less is as it was, and of one that asked for more
\* the encoding loses at most the mantissa's last bits.  Only what no 32 bits hold
\* may pass as it is, though the receiver reads all of it (rtcp.c:512 and 556).
\* The gateway's own REMBs keep to the cap likewise.
CapHonest ==
  (phase = "relayed" /\ cap > 0) =>
    /\ GetRemb(packet) <= cap
    /\ \A i \in RembRates(packet) :
         LET asked == Value(FlattenSeq(blocks)[i])
             given == Value(packet[i])
         IN  IF asked <= cap THEN given = asked
             ELSE \/ given <= cap /\ (cap - given) * (MaxMantissa \div 2) <= cap
                  \/ asked >= WordModulus /\ given = asked

Ordered(list) == \A i, j \in DOMAIN list : i < j => list[i] < list[j]

\* A report names lost numbers only and fits its buffer.  A list that is ordered,
\* as janus_rtcp_nacks assumes (rtcp.c:728), is reported whole, and given up only
\* when no choice of blocks would have named it in that buffer.  (One that
\* starts over at 0 is not ordered: the numbers after the start are skipped.)
ReportComplete == phase = "reported" =>
  LET lost == Range(wanted.list) IN
    /\ GetNacks(packet) \subseteq lost /\ Len(packet) <= wanted.words
    /\ Ordered(wanted.list) =>
         \/ packet # <<>> /\ GetNacks(packet) = lost
         \/ packet = <<>> /\ \A pids \in SUBSET lost : Cardinality(pids) <= wanted.words - 3 =>
                               \E n \in lost : \A p \in pids : n - p \notin 0..BlpBits
=============================================================================
