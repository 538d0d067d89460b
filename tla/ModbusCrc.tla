----------------------------- MODULE ModbusCrc ------------------------------
(***************************************************************************)
(* modbus_crc.c at both ends of the line.  The sender runs modbus_crc16    *)
(* over the bytes it sends and appends the two bytes of the result; the    *)
(* receiver runs it over the bytes that come and compares.  (The bridge    *)
(* sends requests and receives replies; the slaves do the same.)  The two  *)
(* loops are followed in step, one byte or one shift at a time, and the    *)
(* line may invert bits in between.                                        *)
(*                                                                         *)
(* A byte or a register is the set of its bits that are 1, so that ^ is    *)
(* the symmetric difference.  Bits go out least significant first.         *)
(***************************************************************************)
EXTENDS Integers, Sequences

CONSTANTS
  Values,   \* what the bytes of a message may be
  MaxLen,   \* the greatest length of a message
  Damages   \* what the line may do: the bits it inverts, counted from 0

Byte == SUBSET (0 .. 7)

ASSUME CrcAssumption ==
  Values \subseteq Byte /\ MaxLen \in Nat /\ Damages \subseteq SUBSET Nat

VARIABLES
  data, received,   \* bytes sent and received so far, without the CRC
  crc, rx_crc,      \* crc of modbus_crc16 for each of them
  j,                \* its inner loop: shifts done with the last byte
  damage,           \* bits inverted in this frame
  quotient          \* history: what was divided off so far, as a polynomial

crc_vars == <<data, received, crc, rx_crc, j, damage, quotient>>

Xor(A, B) == (A \ B) \cup (B \ A)

-----------------------------------------------------------------------------
(* modbus_crc16.                                                           *)

\* Mutant: the register begins as 0.
Preset_Zero == {}

Preset == 0 .. 15       \* 0xFFFF

\* Mutant: the bit that is shifted out is not fed back.
ShiftBit_NoFeedback(c) == {k - 1 : k \in c \ {0}}

ShiftBit(c) ==
  LET shifted == {k - 1 : k \in c \ {0}}
  IN  IF 0 \in c THEN Xor(shifted, {15, 13, 0}) ELSE shifted      \* 0xA001

CrcStart ==
  /\ data = <<>> /\ received = <<>>
  /\ crc = Preset /\ rx_crc = Preset /\ j = 8
  /\ damage \in Damages /\ quotient = {}

\* What the line does to byte i of the frame, counted from 0.
Mask(i) == {k \in 0 .. 7 : 8 * i + k \in damage}

NextByte ==
  /\ j = 8 /\ j' = 0 /\ Len(data) < MaxLen
  /\ \E b \in Values :
       LET r == Xor(b, Mask(Len(data)))
       IN  /\ data' = Append(data, b) /\ crc' = Xor(crc, b)
           /\ received' = Append(received, r) /\ rx_crc' = Xor(rx_crc, r)
  /\ quotient' = {e + 8 : e \in quotient}
  /\ UNCHANGED damage

NextShift ==
  /\ j < 8 /\ j' = j + 1
  /\ crc' = ShiftBit(crc) /\ rx_crc' = ShiftBit(rx_crc)
  /\ quotient' = IF 0 \in crc THEN quotient \cup {7 - j} ELSE quotient
  /\ UNCHANGED <<data, received, damage>>

CrcNext == NextByte \/ NextShift
CrcSpec == CrcStart /\ [][CrcNext]_crc_vars

-----------------------------------------------------------------------------
(* The end of a frame, low byte first.                                     *)

Trailer == <<crc \cap (0 .. 7), {k - 8 : k \in crc \cap (8 .. 15)}>>

ReceivedTrailer == [i \in 1 .. 2 |-> Xor(Trailer[i], Mask(Len(data) + i - 1))]

\* The check of a received frame.
Accepted ==
  rx_crc = ReceivedTrailer[1] \cup {k + 8 : k \in ReceivedTrailer[2]}

-----------------------------------------------------------------------------
(* The definition of the CRC.  A polynomial over GF(2) is the set of its   *)
(* exponents, the generator is x^16 + x^15 + x^2 + 1.                      *)

TimesPower(P, n) == {e + n : e \in P}
TimesGenerator(P) ==
  Xor(Xor(TimesPower(P, 16), TimesPower(P, 15)), Xor(TimesPower(P, 2), P))

\* The message, first bit first, times x^16, with its first 16 bits inverted.
Dividend ==
  LET n == 8 * Len(data)
  IN  Xor(UNION {{n + 23 - 8 * i - k : k \in data[i]} : i \in 1 .. Len(data)},
          n .. n + 15)

\* Bit k of the register is the coefficient of x^(15 - k).
Polynomial(c) == {15 - k : k \in c}

\* Whatever the message and its length, modbus_crc16 returns the remainder of
\* its division by the generator: order of the bits, feedback and first value
\* agree.  (A remainder is what is left, with a degree below 16, after some
\* multiple of the generator is taken away.)
CrcIsRemainder ==
  j = 8 => /\ crc \subseteq 0 .. 15
           /\ Dividend = Xor(TimesGenerator(quotient), Polynomial(crc))

\* A frame that comes as it was sent is accepted, and one with any of the
\* damages of the set Damages is not, whatever the message (CrcOk of
\* Rs485Driver).  Damages is what a configuration says it is: inverted bits
\* further apart than 16 may go unnoticed, as with any CRC of 16 bits.
DamageDetected ==
  j = 8 => (Accepted <=> received \o ReceivedTrailer = data \o Trailer)
=============================================================================
