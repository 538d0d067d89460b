---------------------------- MODULE FrameProofs -----------------------------
(***************************************************************************)
(* Proofs about the frames: the lengths of FrameLengths, for any protocol  *)
(* id, and the CRC of ModbusCrc, for messages of any bytes and any length. *)
(***************************************************************************)
EXTENDS FrameLengths, ModbusCrc, SequenceTheorems, TLAPS

-----------------------------------------------------------------------------
\* Requests have the lengths that the server forwards.
LEMMA LongerForwarded ==
  LengthsSpec => [](request \in [protocol_id : ProtocolIds, unit : 0 .. 255,
                                 frame_len : ForwardedLen])
<1> DEFINE Forwarded == request \in [protocol_id : ProtocolIds,
                                     unit : 0 .. 255, frame_len : ForwardedLen]
<1>1. Shortest => Forwarded
  BY DEF Shortest, ForwardedLen, MODBUS_TCP_MAX_ADU_SIZE
<1>2. Forwarded /\ [Longer]_request => Forwarded'
  BY DEF Longer, ForwardedLen, MODBUS_TCP_MAX_ADU_SIZE
<1>3. QED
  BY <1>1, <1>2, PTL DEF LengthsSpec

\* STEP 1 accepts exactly the requests for protocol 0 and units 1 to 247 that
\* this server forwards, and no frame leaves its buffer, for any protocol id.
THEOREM FramesFit == LengthsSpec => []LengthsFit
<1>1. ASSUME NEW r \in [protocol_id : ProtocolIds, unit : 0 .. 255,
                        frame_len : ForwardedLen]
      PROVE  RequestFits(r) /\ ResponseFits(r.frame_len - 4)
  <2>1. r.unit \in 0 .. 255 /\ r.frame_len \in 8 .. 260
    <3>1. r.unit \in 0 .. 255
      OBVIOUS
    <3>2. r.frame_len \in 8 .. 260
      BY DEF ForwardedLen, MODBUS_TCP_MAX_ADU_SIZE
    <3>3. QED
      BY <3>1, <3>2
  <2>2. ~TooShort(r) /\ ~BadPdu(r)
    BY <2>1 DEF TooShort, BadPdu, PduLen, MODBUS_MBAP_HEADER_SIZE
  <2>3. /\ Validate(r) \notin {"too_short", "bad_pdu"}
        /\ Validate(r) = "accept" <=> r.protocol_id = 0 /\ r.unit \in 1 .. 247
    BY <2>1, <2>2 DEF Validate, BadProtocol, BadUnit
  <2>4. /\ RtuTxLen(r.frame_len) \in 4 .. MODBUS_RTU_MAX_ADU_SIZE
        /\ ResponseFits(r.frame_len - 4)
    BY <2>1 DEF RtuTxLen, PduLen, ResponseFits, TcpResponseLen,
       MODBUS_RTU_MAX_ADU_SIZE, MODBUS_TCP_MAX_ADU_SIZE, MODBUS_MBAP_HEADER_SIZE
  <2>5. QED
    BY <2>3, <2>4 DEF RequestFits
<1>2. request \in [protocol_id : ProtocolIds, unit : 0 .. 255,
                   frame_len : ForwardedLen] => LengthsFit
  BY <1>1 DEF LengthsFit
<1>3. QED
  BY <1>2, LongerForwarded, PTL

-----------------------------------------------------------------------------
(* What the operators of ModbusCrc hold, bit by bit.                       *)

LEMMA InXor ==
  ASSUME NEW A, NEW B, NEW x
  PROVE  (x \in Xor(A, B)) <=> ~((x \in A) <=> (x \in B))
  BY DEF Xor

LEMMA XorType ==
  ASSUME NEW S, NEW A \in SUBSET S, NEW B \in SUBSET S
  PROVE  Xor(A, B) \in SUBSET S
  BY DEF Xor

LEMMA InShiftBit ==
  ASSUME NEW c \in SUBSET (0 .. 15), NEW k \in Int
  PROVE  (k \in ShiftBit(c)) <=>
           ~((k >= 0 /\ k + 1 \in c) <=> (0 \in c /\ k \in {15, 13, 0}))
<1> DEFINE shifted == {i - 1 : i \in c \ {0}}
<1>1. (k \in shifted) <=> (k >= 0 /\ k + 1 \in c)
  OBVIOUS
<1>2. CASE 0 \in c
  <2>1. ShiftBit(c) = Xor(shifted, {15, 13, 0})
    BY <1>2 DEF ShiftBit
  <2>2. (k \in ShiftBit(c)) <=> ~((k \in shifted) <=> (k \in {15, 13, 0}))
    BY <2>1, InXor
  <2>3. QED
    BY <1>1, <1>2, <2>2
<1>3. CASE 0 \notin c
  <2>1. ShiftBit(c) = shifted
    BY <1>3 DEF ShiftBit
  <2>2. QED
    BY <1>1, <1>3, <2>1
<1>4. QED
  BY <1>2, <1>3

LEMMA ShiftBitType ==
  ASSUME NEW c \in SUBSET (0 .. 15)
  PROVE  ShiftBit(c) \in SUBSET (0 .. 15)
<1> DEFINE shifted == {k - 1 : k \in c \ {0}}
<1>1. shifted \in SUBSET (0 .. 15)
  OBVIOUS
<1>2. {15, 13, 0} \in SUBSET (0 .. 15)
  OBVIOUS
<1>3. ShiftBit(c) = shifted \/ ShiftBit(c) = Xor(shifted, {15, 13, 0})
  BY DEF ShiftBit
<1> HIDE DEF shifted
<1>4. Xor(shifted, {15, 13, 0}) \in SUBSET (0 .. 15)
  BY <1>1, <1>2 DEF Xor
<1>5. QED
  BY <1>1, <1>3, <1>4

LEMMA MaskType ==
  ASSUME NEW i
  PROVE  Mask(i) \in Byte
  BY DEF Mask, Byte

LEMMA InGenerator ==
  ASSUME NEW Q \in SUBSET Int, NEW e \in Int
  PROVE  (e \in TimesGenerator(Q)) <=>
           ~(~(~(e - 16 \in Q <=> e - 15 \in Q) <=> e - 2 \in Q) <=> e \in Q)
<1>1. ASSUME NEW n \in Int
      PROVE  (e \in TimesPower(Q, n)) <=> (e - n \in Q)
  BY DEF TimesPower
<1>2. /\ (e \in TimesPower(Q, 16)) <=> (e - 16 \in Q)
      /\ (e \in TimesPower(Q, 15)) <=> (e - 15 \in Q)
      /\ (e \in TimesPower(Q, 2)) <=> (e - 2 \in Q)
  BY <1>1
<1> DEFINE P == Xor(TimesPower(Q, 16), TimesPower(Q, 15))
           R == Xor(TimesPower(Q, 2), Q)
<1>3. /\ (e \in P) <=> ~(e - 16 \in Q <=> e - 15 \in Q)
      /\ (e \in R) <=> ~(e - 2 \in Q <=> e \in Q)
  BY <1>2, InXor
<1>4. TimesGenerator(Q) = Xor(P, R)
  BY DEF TimesGenerator
<1> HIDE DEF P, R
<1>5. (e \in TimesGenerator(Q)) <=> ~((e \in P) <=> (e \in R))
  BY <1>4, InXor
<1>6. QED
  BY <1>3, <1>5

-----------------------------------------------------------------------------
(* The values of the variables of ModbusCrc.                               *)

CrcTypeOK ==
  /\ data \in Seq(Byte) /\ received \in Seq(Byte) /\ Len(received) = Len(data)
  /\ crc \in SUBSET (0 .. 15) /\ rx_crc \in SUBSET (0 .. 15)
  /\ j \in 0 .. 8 /\ (j < 8 => Len(data) > 0)
  /\ damage \in SUBSET Nat /\ damage \in Damages
  /\ quotient \in SUBSET Nat

LEMMA CrcTypeStart == CrcStart => CrcTypeOK
  BY CrcAssumption DEF CrcStart, CrcTypeOK, Preset

LEMMA CrcTypeByte == CrcTypeOK /\ NextByte => CrcTypeOK'
<1> SUFFICES ASSUME CrcTypeOK, NextByte PROVE CrcTypeOK'
  OBVIOUS
<1>1. PICK b \in Values :
        /\ data' = Append(data, b) /\ crc' = Xor(crc, b)
        /\ received' = Append(received, Xor(b, Mask(Len(data))))
        /\ rx_crc' = Xor(rx_crc, Xor(b, Mask(Len(data))))
  BY DEF NextByte
<1> DEFINE r == Xor(b, Mask(Len(data)))
<1>2. b \in Byte /\ r \in Byte
  <2>1. b \in Byte
    BY CrcAssumption
  <2>2. b \in SUBSET (0 .. 7) /\ Mask(Len(data)) \in SUBSET (0 .. 7)
    BY <2>1, MaskType DEF Byte
  <2>3. r \in SUBSET (0 .. 7)
    BY <2>2, XorType
  <2>4. QED
    BY <2>1, <2>3 DEF Byte
<1> HIDE DEF r
<1>3. b \in SUBSET (0 .. 15) /\ r \in SUBSET (0 .. 15)
  BY <1>2 DEF Byte
<1>4. crc' \in SUBSET (0 .. 15) /\ rx_crc' \in SUBSET (0 .. 15)
  <2>1. crc \in SUBSET (0 .. 15) /\ rx_crc \in SUBSET (0 .. 15)
    BY DEF CrcTypeOK
  <2>2. Xor(crc, b) \in SUBSET (0 .. 15) /\ Xor(rx_crc, r) \in SUBSET (0 .. 15)
    BY <1>3, <2>1, XorType
  <2>3. QED
    BY <1>1, <2>2 DEF r
<1>5. /\ data' \in Seq(Byte) /\ received' \in Seq(Byte)
      /\ Len(received') = Len(data') /\ Len(data') > 0
  BY <1>1, <1>2 DEF CrcTypeOK, r
<1>6. quotient' \in SUBSET Nat
  BY DEF CrcTypeOK, NextByte
<1>7. j' \in 0 .. 8 /\ damage' = damage
  BY DEF NextByte
<1>8. QED
  BY <1>4, <1>5, <1>6, <1>7 DEF CrcTypeOK

LEMMA CrcTypeShift == CrcTypeOK /\ NextShift => CrcTypeOK'
<1> SUFFICES ASSUME CrcTypeOK, NextShift PROVE CrcTypeOK'
  OBVIOUS
<1>1. crc' \in SUBSET (0 .. 15) /\ rx_crc' \in SUBSET (0 .. 15)
  <2>1. crc \in SUBSET (0 .. 15) /\ rx_crc \in SUBSET (0 .. 15)
    BY DEF CrcTypeOK
  <2>2. /\ ShiftBit(crc) \in SUBSET (0 .. 15)
        /\ ShiftBit(rx_crc) \in SUBSET (0 .. 15)
    BY <2>1, ShiftBitType
  <2>3. QED
    BY <2>2 DEF NextShift
<1>2. j' \in 0 .. 8 /\ quotient' \in SUBSET Nat
  <2>1. j \in 0 .. 7 /\ j' = j + 1
    BY DEF CrcTypeOK, NextShift
  <2>2. quotient' = quotient \/ quotient' = quotient \cup {7 - j}
    BY DEF NextShift
  <2>3. quotient \in SUBSET Nat
    BY DEF CrcTypeOK
  <2>4. 7 - j \in Nat /\ j' \in 0 .. 8
    BY <2>1
  <2>5. QED
    BY <2>2, <2>3, <2>4
<1>3. Len(data) > 0
  BY DEF CrcTypeOK, NextShift
<1>4. QED
  BY <1>1, <1>2, <1>3 DEF CrcTypeOK, NextShift

LEMMA CrcTypeCorrect == CrcSpec => []CrcTypeOK
<1>1. CrcTypeOK /\ UNCHANGED crc_vars => CrcTypeOK'
  BY DEF CrcTypeOK, crc_vars
<1>2. QED
  BY <1>1, CrcTypeStart, CrcTypeByte, CrcTypeShift, PTL DEF CrcSpec, CrcNext

-----------------------------------------------------------------------------
(* The CRC is the remainder of the division.                               *)

\* What is left of the dividend, between two shifts: the register has 8 - j
\* places to go, and nothing below those places is divided off yet.
Rest == {23 - j - k : k \in crc}

RemInv ==
  /\ Dividend = Xor(TimesGenerator(quotient), Rest)
  /\ \A e \in quotient : e >= 8 - j

\* The dividend, bit by bit.
DividendBits ==
  /\ Dividend \in SUBSET Int
  /\ \A e \in Int :
       (e \in Dividend) <=>
         ~((\E i \in 1 .. Len(data) : 8 * Len(data) + 23 - 8 * i - e \in data[i])
           <=> (e \in 8 * Len(data) .. 8 * Len(data) + 15))

\* The other side of RemInv, bit by bit.
RestBits ==
  /\ Xor(TimesGenerator(quotient), Rest) \in SUBSET Int
  /\ \A e \in Int :
       (e \in Xor(TimesGenerator(quotient), Rest)) <=>
         ~((e \in TimesGenerator(quotient)) <=> (23 - j - e \in crc))

LEMMA InDividend ==
  CrcTypeOK =>
    \A e \in Int :
      (e \in Dividend) <=>
        ~((\E i \in 1 .. Len(data) : 8 * Len(data) + 23 - 8 * i - e \in data[i])
          <=> (e \in 8 * Len(data) .. 8 * Len(data) + 15))
<1> SUFFICES ASSUME CrcTypeOK, NEW e \in Int
             PROVE  (e \in Dividend) <=>
                      ~((\E i \in 1 .. Len(data) :
                           8 * Len(data) + 23 - 8 * i - e \in data[i])
                        <=> (e \in 8 * Len(data) .. 8 * Len(data) + 15))
  OBVIOUS
<1> DEFINE n == 8 * Len(data)
           M == UNION {{n + 23 - 8 * i - k : k \in data[i]} : i \in 1 .. Len(data)}
<1>1. n \in Nat /\ \A i \in 1 .. Len(data) : data[i] \in SUBSET (0 .. 7)
  BY DEF CrcTypeOK, Byte
<1>2. ASSUME NEW i \in 1 .. Len(data)
      PROVE  (e \in {n + 23 - 8 * i - k : k \in data[i]}) <=> (n + 23 - 8 * i - e \in data[i])
  <2>1. n \in Nat /\ i \in Nat /\ data[i] \in SUBSET (0 .. 7)
    BY <1>1
  <2> HIDE DEF n
  <2>2. QED
    BY <2>1
<1>3. (e \in M) <=> \E i \in 1 .. Len(data) : n + 23 - 8 * i - e \in data[i]
  <2>1. (e \in M) <=> \E i \in 1 .. Len(data) : e \in {n + 23 - 8 * i - k : k \in data[i]}
    OBVIOUS
  <2>2. QED
    BY <1>2, <2>1
<1>4. Dividend = Xor(M, n .. n + 15)
  BY DEF Dividend
<1> HIDE DEF M
<1>5. (e \in Dividend) <=> ~((e \in M) <=> (e \in n .. n + 15))
  BY <1>4, InXor
<1>6. QED
  BY <1>3, <1>5

LEMMA DividendType == CrcTypeOK => Dividend \in SUBSET Int
<1> SUFFICES ASSUME CrcTypeOK PROVE Dividend \in SUBSET Int
  OBVIOUS
<1> DEFINE n == 8 * Len(data)
           M == UNION {{n + 23 - 8 * i - k : k \in data[i]} : i \in 1 .. Len(data)}
<1>1. n \in Nat /\ \A i \in 1 .. Len(data) : data[i] \in SUBSET (0 .. 7)
  BY DEF CrcTypeOK, Byte
<1>2. M \in SUBSET Int
  <2>1. ASSUME NEW i \in 1 .. Len(data)
        PROVE  {n + 23 - 8 * i - k : k \in data[i]} \in SUBSET Int
    <3>1. n \in Nat /\ i \in Nat /\ data[i] \in SUBSET (0 .. 7)
      BY <1>1
    <3> HIDE DEF n
    <3>2. QED
      BY <3>1
  <2>2. QED
    BY <2>1
<1>3. n .. n + 15 \in SUBSET Int
  BY <1>1
<1>4. Dividend = Xor(M, n .. n + 15)
  BY DEF Dividend
<1> HIDE DEF M, n
<1>5. QED
  BY <1>2, <1>3, <1>4 DEF Xor

LEMMA DividendByBit == CrcTypeOK => DividendBits
  BY InDividend, DividendType DEF DividendBits

LEMMA GeneratorType ==
  ASSUME NEW Q \in SUBSET Int
  PROVE  TimesGenerator(Q) \in SUBSET Int
<1> DEFINE P == Xor(TimesPower(Q, 16), TimesPower(Q, 15))
           R == Xor(TimesPower(Q, 2), Q)
<1>1. /\ TimesPower(Q, 16) \in SUBSET Int /\ TimesPower(Q, 15) \in SUBSET Int
      /\ TimesPower(Q, 2) \in SUBSET Int
  BY DEF TimesPower
<1>2. P \in SUBSET Int /\ R \in SUBSET Int
  BY <1>1 DEF Xor
<1>3. TimesGenerator(Q) = Xor(P, R)
  BY DEF TimesGenerator
<1> HIDE DEF P, R
<1>4. QED
  BY <1>2, <1>3, XorType

LEMMA RestByBit == CrcTypeOK => RestBits
<1> SUFFICES ASSUME CrcTypeOK PROVE RestBits
  OBVIOUS
<1>1. crc \in SUBSET (0 .. 15) /\ j \in Nat /\ quotient \in SUBSET Int
  BY DEF CrcTypeOK
<1>2. ASSUME NEW e \in Int PROVE (e \in Rest) <=> (23 - j - e \in crc)
  BY <1>1 DEF Rest
<1>3. Rest \in SUBSET Int
  BY <1>1 DEF Rest
<1>4. Xor(TimesGenerator(quotient), Rest) \in SUBSET Int
  BY <1>1, <1>3, GeneratorType, XorType
<1>5. ASSUME NEW e \in Int
      PROVE  (e \in Xor(TimesGenerator(quotient), Rest)) <=>
                ~((e \in TimesGenerator(quotient)) <=> (23 - j - e \in crc))
  BY <1>2, InXor
<1>6. QED
  BY <1>4, <1>5 DEF RestBits

LEMMA RemStart == CrcStart => RemInv
<1> SUFFICES ASSUME CrcStart PROVE RemInv
  OBVIOUS
<1>1. DividendBits /\ RestBits
  BY CrcTypeStart, DividendByBit, RestByBit
<1>2. data = <<>> /\ crc = 0 .. 15 /\ j = 8 /\ quotient = {}
  BY DEF CrcStart, Preset
<1>3. ASSUME NEW e \in Int
      PROVE  (e \in Dividend) <=> (e \in Xor(TimesGenerator(quotient), Rest))
  <2>1. (e \in Dividend) <=> (e \in 0 .. 15)
    <3>1. Len(data) = 0
      BY <1>2
    <3>2. (e \in Dividend) <=> ~(FALSE <=> (e \in 0 .. 15))
      BY <1>1, <3>1 DEF DividendBits
    <3>3. QED
      BY <3>2
  <2>2. e \notin TimesGenerator(quotient)
    BY <1>2, InGenerator
  <2>3. (e \in Xor(TimesGenerator(quotient), Rest)) <=> (23 - j - e \in crc)
    BY <1>1, <2>2 DEF RestBits
  <2>4. (23 - j - e \in crc) <=> (e \in 0 .. 15)
    BY <1>2
  <2>5. QED
    BY <2>1, <2>3, <2>4
<1>4. Dividend = Xor(TimesGenerator(quotient), Rest)
  BY <1>1, <1>3 DEF DividendBits, RestBits
<1>5. QED
  BY <1>2, <1>4 DEF RemInv

\* A new byte moves everything up by 8 places and comes in below.
LEMMA RemByte == CrcTypeOK /\ CrcTypeOK' /\ RemInv /\ NextByte => RemInv'
<1> SUFFICES ASSUME CrcTypeOK, CrcTypeOK', RemInv, NextByte PROVE RemInv'
  OBVIOUS
<1>1. DividendBits /\ RestBits
  BY DividendByBit, RestByBit
<1>2. DividendBits' /\ RestBits'
  BY DividendByBit, RestByBit, PTL
<1> DEFINE n == 8 * Len(data)
<1>3. PICK b \in Values : data' = Append(data, b) /\ crc' = Xor(crc, b)
  BY DEF NextByte
<1>4. /\ b \in SUBSET (0 .. 7) /\ n \in Nat /\ Len(data) \in Nat
      /\ j = 8 /\ j' = 0 /\ quotient' = {e + 8 : e \in quotient}
      /\ quotient \in SUBSET Nat
  BY CrcAssumption DEF NextByte, CrcTypeOK, Byte
<1>5. Len(data') = Len(data) + 1 /\ 8 * Len(data') = n + 8
  <2>1. Len(data') = Len(data) + 1
    BY <1>3 DEF CrcTypeOK
  <2>2. QED
    BY <1>4, <2>1
<1>6. /\ data'[Len(data) + 1] = b
      /\ \A i \in 1 .. Len(data) : data'[i] = data[i] /\ data[i] \in SUBSET (0 .. 7)
  BY <1>3 DEF CrcTypeOK, Byte
<1> HIDE DEF n
<1>7. ASSUME NEW e \in Int
      PROVE  (e \in Dividend') <=> ~((e - 8 \in Dividend) <=> (23 - e \in b))
  <2> DEFINE Old == \E i \in 1 .. Len(data) : n + 23 - 8 * i - (e - 8) \in data[i]
             New == \E i \in 1 .. Len(data') : (n + 8) + 23 - 8 * i - e \in data'[i]
  <2>1. (e - 8 \in Dividend) <=> ~(Old <=> (e - 8 \in n .. n + 15))
    <3>1. e - 8 \in Int
      BY <1>4
    <3>2. (e - 8 \in Dividend) <=>
           ~((\E i \in 1 .. Len(data) : 8 * Len(data) + 23 - 8 * i - (e - 8) \in data[i])
             <=> (e - 8 \in 8 * Len(data) .. 8 * Len(data) + 15))
      BY <1>1, <3>1 DEF DividendBits
    <3>3. QED
      BY <3>2 DEF n
  <2>2. (e \in Dividend') <=> ~(New <=> (e \in n + 8 .. n + 8 + 15))
    <3>1. (e \in Dividend') <=>
           ~((\E i \in 1 .. Len(data') : 8 * Len(data') + 23 - 8 * i - e \in data'[i])
             <=> (e \in 8 * Len(data') .. 8 * Len(data') + 15))
      BY <1>2 DEF DividendBits
    <3>2. QED
      BY <1>5, <3>1
  <2>3. New <=> (Old \/ 23 - e \in b)
    <3>1. ASSUME NEW i \in 1 .. Len(data)
          PROVE  (n + 8) + 23 - 8 * i - e = n + 23 - 8 * i - (e - 8)
      BY <1>4
    <3>2. (n + 8) + 23 - 8 * (Len(data) + 1) - e = 23 - e
      BY <1>4 DEF n
    <3>3. 1 .. Len(data') = (1 .. Len(data)) \cup {Len(data) + 1}
      BY <1>4, <1>5
    <3>4. QED
      BY <1>6, <3>1, <3>2, <3>3
  <2>4. ~(Old /\ 23 - e \in b)
    <3> SUFFICES ASSUME NEW i \in 1 .. Len(data), n + 23 - 8 * i - (e - 8) \in data[i],
                        23 - e \in b
                 PROVE  FALSE
      OBVIOUS
    <3>1. n + 23 - 8 * i - (e - 8) \in 0 .. 7 /\ 23 - e \in 0 .. 7
      BY <1>4, <1>6
    <3>2. n >= 8 * i
      BY <1>4 DEF n
    <3>3. QED
      BY <1>4, <3>1, <3>2
  <2>5. (e - 8 \in n .. n + 15) <=> (e \in n + 8 .. n + 8 + 15)
    BY <1>4
  <2> HIDE DEF Old, New
  <2>6. QED
    BY <2>1, <2>2, <2>3, <2>4, <2>5
<1>8. ASSUME NEW e \in Int
      PROVE  (e \in TimesGenerator(quotient)') <=> (e - 8 \in TimesGenerator(quotient))
  <2>1. quotient \in SUBSET Int /\ quotient' \in SUBSET Int
    BY <1>4
  <2>2. ASSUME NEW x \in Int PROVE (x \in quotient') <=> (x - 8 \in quotient)
    BY <1>4
  <2>3. (e \in TimesGenerator(quotient')) <=>
           ~(~(~(e - 16 \in quotient' <=> e - 15 \in quotient')
               <=> e - 2 \in quotient') <=> e \in quotient')
    BY <2>1, InGenerator
  <2>4. (e - 8 \in TimesGenerator(quotient)) <=>
           ~(~(~(e - 8 - 16 \in quotient <=> e - 8 - 15 \in quotient)
               <=> e - 8 - 2 \in quotient) <=> e - 8 \in quotient)
    BY <2>1, InGenerator
  <2>5. /\ (e - 16 \in quotient') <=> (e - 8 - 16 \in quotient)
        /\ (e - 15 \in quotient') <=> (e - 8 - 15 \in quotient)
        /\ (e - 2 \in quotient') <=> (e - 8 - 2 \in quotient)
        /\ (e \in quotient') <=> (e - 8 \in quotient)
    BY <2>2
  <2>6. (e \in TimesGenerator(quotient')) <=> (e - 8 \in TimesGenerator(quotient))
    BY <2>3, <2>4, <2>5
  <2>7. QED
    BY <2>6 DEF TimesGenerator, TimesPower
<1>9. ASSUME NEW e \in Int
      PROVE  (23 - j' - e \in crc') <=> ~((23 - j - (e - 8) \in crc) <=> (23 - e \in b))
  <2>1. 23 - j' - e = 23 - e /\ 23 - j - (e - 8) = 23 - e
    BY <1>4
  <2>2. (23 - e \in crc') <=> ~((23 - e \in crc) <=> (23 - e \in b))
    BY <1>3, InXor
  <2>3. QED
    BY <2>1, <2>2
<1>10. ASSUME NEW e \in Int
      PROVE  (e \in Dividend') <=> (e \in Xor(TimesGenerator(quotient), Rest)')
  <2>1. (e - 8 \in Dividend) <=>
          ~((e - 8 \in TimesGenerator(quotient)) <=> (23 - j - (e - 8) \in crc))
    <3>1. e - 8 \in Int
      BY <1>4
    <3>2. QED
      BY <1>1, <3>1 DEF RemInv, RestBits
  <2>2. (e \in Xor(TimesGenerator(quotient), Rest)') <=>
          ~((e \in TimesGenerator(quotient)') <=> (23 - j' - e \in crc'))
    BY <1>2 DEF RestBits
  <2>3. QED
    BY <1>7, <1>8, <1>9, <2>1, <2>2
<1>11. (Dividend = Xor(TimesGenerator(quotient), Rest))'
  <2>1. Dividend' \in SUBSET Int
    BY <1>2 DEF DividendBits
  <2>2. Xor(TimesGenerator(quotient), Rest)' \in SUBSET Int
    BY <1>2 DEF RestBits
  <2>3. QED
    BY <1>10, <2>1, <2>2
<1>12. \A e \in quotient' : e >= 8 - j'
  BY <1>4 DEF RemInv
<1>13. QED
  BY <1>11, <1>12 DEF RemInv

\* A shift takes one multiple of the generator away, or none.
LEMMA RemShift == CrcTypeOK /\ CrcTypeOK' /\ RemInv /\ NextShift => RemInv'
<1> SUFFICES ASSUME CrcTypeOK, CrcTypeOK', RemInv, NextShift PROVE RemInv'
  OBVIOUS
<1>1. RestBits /\ RestBits' /\ DividendBits
  <2>1. RestBits /\ DividendBits
    BY RestByBit, DividendByBit
  <2>2. RestBits'
    BY RestByBit, PTL
  <2>3. QED
    BY <2>1, <2>2
<1>2. /\ j \in 0 .. 7 /\ j' = j + 1 /\ crc \in SUBSET (0 .. 15)
      /\ crc' = ShiftBit(crc) /\ quotient \in SUBSET Nat
  BY DEF CrcTypeOK, NextShift
<1>3. Dividend' = Dividend
  BY DEF NextShift, Dividend
<1>4. ASSUME NEW e \in Int
      PROVE  ~((e \in TimesGenerator(quotient)) <=> (23 - j - e \in crc))
               <=> ~((e \in TimesGenerator(quotient')) <=> (23 - j' - e \in crc'))
  <2> DEFINE m == 22 - j - e
  <2>1. 23 - j - e = m + 1 /\ 23 - j' - e = m /\ m \in Int
    BY <1>2
  <2>2. (m \in crc') <=> ~((m >= 0 /\ m + 1 \in crc) <=> (0 \in crc /\ m \in {15, 13, 0}))
    BY <1>2, <2>1, InShiftBit
  <2>3. (m + 1 \in crc) => m = -1 \/ m >= 0
    BY <1>2, <2>1
  <2>4. CASE 0 \notin crc
    <3>1. quotient' = quotient
      BY <2>4 DEF NextShift
    <3>2. m = -1 => m + 1 \notin crc
      BY <2>4
    <3>3. (m \in crc') <=> (m + 1 \in crc)
      BY <2>2, <2>3, <2>4, <3>2
    <3>4. QED
      BY <2>1, <3>1, <3>3
  <2>5. CASE 0 \in crc
    <3> DEFINE d == 7 - j
    <3>1. quotient' = quotient \cup {d} /\ d \notin quotient /\ d \in Nat
      BY <1>2, <2>5 DEF NextShift, RemInv
    <3>2. quotient \in SUBSET Int /\ quotient' \in SUBSET Int
      BY <1>2, <3>1
    <3>3. (e \in TimesGenerator(quotient)) <=>
            ~(~(~(e - 16 \in quotient <=> e - 15 \in quotient)
                <=> e - 2 \in quotient) <=> e \in quotient)
      BY <3>2, InGenerator
    <3>4. (e \in TimesGenerator(quotient')) <=>
            ~(~(~(e - 16 \in quotient' <=> e - 15 \in quotient')
                <=> e - 2 \in quotient') <=> e \in quotient')
      BY <3>2, InGenerator
    <3>5. /\ e - 16 = d <=> m = -1
          /\ e - 15 = d <=> m = 0
          /\ e - 2 = d <=> m = 13
          /\ e = d <=> m = 15
      BY <1>2
    <3>6. ASSUME NEW x \in Int
          PROVE  (x \in quotient') <=> ~((x \in quotient) <=> (x = d))
      BY <3>1
    <3>7. /\ (e - 16 \in quotient') <=> ~((e - 16 \in quotient) <=> (m = -1))
          /\ (e - 15 \in quotient') <=> ~((e - 15 \in quotient) <=> (m = 0))
          /\ (e - 2 \in quotient') <=> ~((e - 2 \in quotient) <=> (m = 13))
          /\ (e \in quotient') <=> ~((e \in quotient) <=> (m = 15))
      BY <3>5, <3>6
    <3>8. (e \in TimesGenerator(quotient')) <=>
            ~((e \in TimesGenerator(quotient)) <=> (m \in {-1, 0, 13, 15}))
      <4> HIDE DEF m, d
      <4>1. QED
        BY <2>1, <3>3, <3>4, <3>7
    <3>9. (m + 1 \in crc) <=> (m = -1 \/ (m >= 0 /\ m + 1 \in crc))
      <4>1. m = -1 => m + 1 \in crc
        BY <2>5
      <4>2. QED
        BY <2>3, <4>1
    <3>10. QED
      <4> HIDE DEF m, d
      <4>1. m \in {-1, 0, 13, 15} <=> ~(m = -1 <=> m \in {15, 13, 0})
        BY <2>1
      <4>2. m = -1 => ~(m >= 0)
        BY <2>1
      <4>3. ~((e \in TimesGenerator(quotient)) <=> (m + 1 \in crc))
              <=> ~((e \in TimesGenerator(quotient')) <=> (m \in crc'))
        BY <2>2, <2>5, <3>8, <3>9, <4>1, <4>2
      <4>4. QED
        BY <2>1, <4>3
  <2>6. QED
    BY <2>4, <2>5
<1>5. ASSUME NEW e \in Int
      PROVE  (e \in Dividend) <=> (e \in Xor(TimesGenerator(quotient), Rest)')
  <2>1. (e \in Dividend) <=>
          ~((e \in TimesGenerator(quotient)) <=> (23 - j - e \in crc))
    BY <1>1 DEF RemInv, RestBits
  <2>2. (e \in Xor(TimesGenerator(quotient), Rest)') <=>
          ~((e \in TimesGenerator(quotient)') <=> (23 - j' - e \in crc'))
    BY <1>1 DEF RestBits
  <2>3. TimesGenerator(quotient)' = TimesGenerator(quotient')
    BY DEF TimesGenerator, TimesPower
  <2>4. QED
    BY <1>4, <2>1, <2>2, <2>3
<1>6. (Dividend = Xor(TimesGenerator(quotient), Rest))'
  <2>1. Dividend \in SUBSET Int
    BY <1>1 DEF DividendBits
  <2>2. Xor(TimesGenerator(quotient), Rest)' \in SUBSET Int
    BY <1>1 DEF RestBits
  <2>3. QED
    BY <1>3, <1>5, <2>1, <2>2
<1>7. \A e \in quotient' : e >= 8 - j'
  BY <1>2 DEF NextShift, RemInv
<1>8. QED
  BY <1>6, <1>7 DEF RemInv

\* modbus_crc16 returns the remainder of the division of the message by the
\* generator, for messages of any bytes and any length.
THEOREM CrcRemainder == CrcSpec => []CrcIsRemainder
<1>1. RemInv /\ UNCHANGED crc_vars => RemInv'
  BY DEF RemInv, Rest, Dividend, TimesGenerator, TimesPower, crc_vars
<1>2. CrcTypeOK /\ CrcTypeOK' /\ RemInv /\ [CrcNext]_crc_vars => RemInv'
  BY <1>1, RemByte, RemShift DEF CrcNext
<1>3. CrcSpec => []RemInv
  BY <1>2, CrcTypeCorrect, RemStart, PTL DEF CrcSpec
<1>4. CrcTypeOK /\ RemInv => CrcIsRemainder
  <2> SUFFICES ASSUME CrcTypeOK, RemInv, j = 8 PROVE CrcIsRemainder
    BY DEF CrcIsRemainder
  <2>1. crc \in SUBSET (0 .. 15)
    BY DEF CrcTypeOK
  <2>2. Rest = Polynomial(crc)
    <3>1. ASSUME NEW k \in crc PROVE 23 - j - k = 15 - k
      BY <2>1
    <3>2. QED
      BY <3>1 DEF Rest, Polynomial
  <2>3. QED
    BY <2>1, <2>2 DEF RemInv, CrcIsRemainder
<1>5. QED
  BY <1>3, <1>4, CrcTypeCorrect, PTL

-----------------------------------------------------------------------------
(* No damage within 16 bits is accepted.                                   *)

\* The number of bits that are shifted out of the registers.
Done == 8 * Len(data) - 8 + j

\* In what the two registers differ.
Difference == Xor(crc, rx_crc)

\* The damage to the next 16 bits that is not in the register yet.
Coming == {k \in 0 .. 15 : Done + k \in damage /\ Done + k >= 8 * Len(data)}

\* The damage to the next 16 bits.
Near == {k \in 0 .. 15 : Done + k \in damage}

\* The two ends differ by the damage alone until the first damaged bit is
\* shifted out, and from then on by more than the damage to come.
BurstInv ==
  LET V == Xor(Difference, Coming)
  IN  /\ (\A d \in damage : d >= Done) => V = Near
      /\ (\E d \in damage : d < Done) => V # {}

\* Each byte comes as it was sent, but for the damage.
ReceivedInv ==
  \A i \in 1 .. Len(data) : received[i] = Xor(data[i], Mask(i - 1))

LEMMA ReceivedCorrect == CrcSpec => []ReceivedInv
<1>1. CrcStart => ReceivedInv
  BY DEF CrcStart, ReceivedInv
<1>2. CrcTypeOK /\ ReceivedInv /\ NextByte => ReceivedInv'
  <2> SUFFICES ASSUME CrcTypeOK, ReceivedInv, NextByte,
                      NEW i \in 1 .. Len(data')
               PROVE  received'[i] = Xor(data'[i], Mask(i - 1)')
    BY DEF ReceivedInv
  <2>1. PICK b \in Values : /\ data' = Append(data, b)
                            /\ received' = Append(received, Xor(b, Mask(Len(data))))
    BY DEF NextByte
  <2>2. Len(data') = Len(data) + 1 /\ Len(data) \in Nat /\ i \in Nat
    BY <2>1 DEF CrcTypeOK
  <2>3. Mask(i - 1)' = Mask(i - 1)
    BY DEF Mask, NextByte
  <2>4. CASE i = Len(data) + 1
    <3>1. data'[i] = b /\ received'[i] = Xor(b, Mask(Len(data)))
      BY <2>1, <2>4 DEF CrcTypeOK
    <3>2. i - 1 = Len(data)
      BY <2>2, <2>4
    <3>3. QED
      BY <2>3, <3>1, <3>2
  <2>5. CASE i \in 1 .. Len(data)
    <3>1. data'[i] = data[i] /\ received'[i] = received[i]
      BY <2>1, <2>5 DEF CrcTypeOK
    <3>2. QED
      BY <2>3, <2>5, <3>1 DEF ReceivedInv
  <2>6. QED
    BY <2>2, <2>4, <2>5
<1>3. ReceivedInv /\ (NextShift \/ UNCHANGED crc_vars) => ReceivedInv'
  BY DEF ReceivedInv, NextShift, Mask, crc_vars
<1>4. QED
  BY <1>1, <1>2, <1>3, CrcTypeCorrect, PTL DEF CrcSpec, CrcNext

\* The feedback is linear, and loses nothing.
LEMMA ShiftBitLinear ==
  ASSUME NEW A \in SUBSET (0 .. 15), NEW B \in SUBSET (0 .. 15)
  PROVE  ShiftBit(Xor(A, B)) = Xor(ShiftBit(A), ShiftBit(B))
<1> DEFINE X == Xor(A, B)
<1>1. X \in SUBSET (0 .. 15)
  BY DEF Xor
<1>2. \A x : (x \in X) <=> ~((x \in A) <=> (x \in B))
  BY InXor
<1> HIDE DEF X
<1>3. ASSUME NEW k \in Int
      PROVE  (k \in ShiftBit(X)) <=> (k \in Xor(ShiftBit(A), ShiftBit(B)))
  <2>1. (k \in ShiftBit(X)) <=>
           ~((k >= 0 /\ k + 1 \in X) <=> (0 \in X /\ k \in {15, 13, 0}))
    BY <1>1, InShiftBit
  <2>2. (k \in ShiftBit(A)) <=>
           ~((k >= 0 /\ k + 1 \in A) <=> (0 \in A /\ k \in {15, 13, 0}))
    BY InShiftBit
  <2>3. (k \in ShiftBit(B)) <=>
           ~((k >= 0 /\ k + 1 \in B) <=> (0 \in B /\ k \in {15, 13, 0}))
    BY InShiftBit
  <2>4. (k \in Xor(ShiftBit(A), ShiftBit(B))) <=>
          ~((k \in ShiftBit(A)) <=> (k \in ShiftBit(B)))
    BY InXor
  <2>5. QED
    BY <1>2, <2>1, <2>2, <2>3, <2>4
<1>4. ShiftBit(X) \in SUBSET (0 .. 15)
  BY <1>1, ShiftBitType
<1>5. Xor(ShiftBit(A), ShiftBit(B)) \in SUBSET (0 .. 15)
  <2>1. ShiftBit(A) \in SUBSET (0 .. 15) /\ ShiftBit(B) \in SUBSET (0 .. 15)
    BY ShiftBitType
  <2>2. QED
    BY <2>1 DEF Xor
<1>6. ShiftBit(X) = Xor(ShiftBit(A), ShiftBit(B))
  BY <1>3, <1>4, <1>5
<1>7. QED
  BY <1>6 DEF X

LEMMA ShiftBitKeeps ==
  ASSUME NEW c \in SUBSET (0 .. 15), c # {}
  PROVE  ShiftBit(c) # {}
<1>1. CASE 0 \in c
  <2>1. 15 \in ShiftBit(c)
    <3>1. 16 \notin c
      OBVIOUS
    <3>2. (15 \in ShiftBit(c)) <=>
            ~((15 >= 0 /\ 15 + 1 \in c) <=> (0 \in c /\ 15 \in {15, 13, 0}))
      BY InShiftBit
    <3>3. QED
      BY <1>1, <3>1, <3>2
  <2>2. QED
    BY <2>1
<1>2. CASE 0 \notin c
  <2>1. PICK k \in c : TRUE
    OBVIOUS
  <2>2. k \in 1 .. 15 /\ k - 1 \in Int /\ k - 1 >= 0 /\ (k - 1) + 1 = k
    BY <1>2, <2>1
  <2>3. (k - 1 \in ShiftBit(c)) <=>
          ~((k - 1 >= 0 /\ (k - 1) + 1 \in c) <=> (0 \in c /\ k - 1 \in {15, 13, 0}))
    BY <2>2, InShiftBit
  <2>4. k - 1 \in ShiftBit(c)
    BY <1>2, <2>1, <2>2, <2>3
  <2>5. QED
    BY <2>4
<1>3. QED
  BY <1>1, <1>2

LEMMA BurstStart == CrcStart => BurstInv
<1> SUFFICES ASSUME CrcStart PROVE BurstInv
  OBVIOUS
<1>1. Done = 0 /\ Len(data) = 0 /\ damage \in SUBSET Nat
  BY CrcAssumption DEF CrcStart, Done
<1>2. Difference = {}
  BY DEF CrcStart, Difference, Xor
<1>3. Coming = Near
  BY <1>1 DEF Coming, Near
<1>4. Xor(Difference, Coming) = Near
  BY <1>2, <1>3 DEF Xor
<1>5. \A d \in damage : ~(d < Done)
  BY <1>1
<1>6. QED
  BY <1>4, <1>5 DEF BurstInv

\* A byte comes into the register with its damage: nothing is gained or lost.
LEMMA BurstByte == CrcTypeOK /\ BurstInv /\ NextByte => BurstInv'
<1> SUFFICES ASSUME CrcTypeOK, BurstInv, NextByte PROVE BurstInv'
  OBVIOUS
<1> DEFINE n == 8 * Len(data)
<1>1. PICK b \in Values : /\ data' = Append(data, b) /\ crc' = Xor(crc, b)
                          /\ rx_crc' = Xor(rx_crc, Xor(b, Mask(Len(data))))
  BY DEF NextByte
<1>2. /\ n \in Nat /\ Len(data) \in Nat /\ Len(data') = Len(data) + 1
      /\ j = 8 /\ j' = 0 /\ damage' = damage /\ damage \in SUBSET Nat
  BY <1>1 DEF CrcTypeOK, NextByte
<1>3. Done = n /\ Done' = n /\ 8 * Len(data') = n + 8
  BY <1>2 DEF Done
<1> HIDE DEF n
<1>4. Near' = Near
  BY <1>2, <1>3 DEF Near
<1>5. ASSUME NEW k
      PROVE  (k \in Xor(Difference, Coming)') <=> (k \in Xor(Difference, Coming))
  <2>1. (k \in Mask(Len(data))) <=> (k \in 0 .. 7 /\ n + k \in damage)
    BY DEF Mask, n
  <2>2. (k \in Difference') <=> ~((k \in Difference) <=> (k \in Mask(Len(data))))
    <3>1. /\ (k \in crc') <=> ~((k \in crc) <=> (k \in b))
          /\ (k \in rx_crc') <=> ~((k \in rx_crc) <=> ~((k \in b) <=> (k \in Mask(Len(data)))))
      BY <1>1, InXor
    <3>2. (k \in Difference) <=> ~((k \in crc) <=> (k \in rx_crc))
      BY InXor DEF Difference
    <3>3. (k \in Difference') <=> ~((k \in crc') <=> (k \in rx_crc'))
      BY InXor DEF Difference
    <3>4. QED
      BY <3>1, <3>2, <3>3
  <2>3. (k \in Coming) <=> (k \in 0 .. 15 /\ n + k \in damage)
    BY <1>2, <1>3 DEF Coming, n
  <2>4. (k \in Coming') <=> (k \in 8 .. 15 /\ n + k \in damage)
    <3>1. (k \in Coming') <=> (k \in 0 .. 15 /\ n + k \in damage /\ n + k >= n + 8)
      BY <1>2, <1>3 DEF Coming
    <3>2. QED
      BY <1>2, <3>1
  <2>5. (k \in Coming) <=> ~((k \in Coming') <=> (k \in Mask(Len(data))))
    BY <2>1, <2>3, <2>4
  <2>6. (k \in Xor(Difference, Coming)) <=> ~((k \in Difference) <=> (k \in Coming))
    BY InXor
  <2>7. (k \in Xor(Difference', Coming')) <=> ~((k \in Difference') <=> (k \in Coming'))
    BY InXor
  <2>8. Xor(Difference, Coming)' = Xor(Difference', Coming')
    BY DEF Xor
  <2>9. QED
    BY <2>2, <2>5, <2>6, <2>7, <2>8
<1>6. Xor(Difference, Coming)' = Xor(Difference, Coming)
  BY <1>5
<1>7. QED
  BY <1>2, <1>3, <1>4, <1>6 DEF BurstInv

\* Every damage lies within 16 bits.
Bursts == \A E \in Damages : \A p, q \in E : q - p <= 15

\* A shift brings one more bit of the frame near.
LEMMA ShiftBringsOne ==
  ASSUME CrcTypeOK, NextShift
  PROVE  Xor(Difference, Coming)' =
           Xor(ShiftBit(Xor(Difference, Coming)), {k \in {15} : Done + 16 \in damage})
<1> DEFINE t == Done
           n == 8 * Len(data)
           Last == {k \in {15} : t + 16 \in damage}
<1>1. /\ j \in 0 .. 7 /\ j' = j + 1 /\ n \in Nat /\ n >= 8
      /\ damage' = damage /\ data' = data
      /\ crc \in SUBSET (0 .. 15) /\ rx_crc \in SUBSET (0 .. 15)
      /\ crc' = ShiftBit(crc) /\ rx_crc' = ShiftBit(rx_crc)
  BY DEF CrcTypeOK, NextShift
<1>2. t \in Nat /\ t < n /\ Done' = t + 1 /\ 8 * Len(data') = n
  BY <1>1 DEF Done
<1>3. /\ Difference \in SUBSET (0 .. 15) /\ Coming \in SUBSET (0 .. 15)
      /\ ShiftBit(Difference) \in SUBSET (0 .. 15)
      /\ ShiftBit(Coming) \in SUBSET (0 .. 15)
  <2>1. Difference \in SUBSET (0 .. 15)
    BY <1>1 DEF Difference, Xor
  <2>2. Coming \in SUBSET (0 .. 15)
    BY DEF Coming
  <2>3. QED
    BY <2>1, <2>2, ShiftBitType
<1>4. Difference' = ShiftBit(Difference)
  <2>1. Difference' = Xor(crc', rx_crc')
    BY DEF Difference, Xor
  <2>2. ShiftBit(Xor(crc, rx_crc)) = Xor(ShiftBit(crc), ShiftBit(rx_crc))
    BY <1>1, ShiftBitLinear
  <2>3. QED
    BY <1>1, <2>1, <2>2 DEF Difference
<1> HIDE DEF t, n
<1>5. Coming' = Xor(ShiftBit(Coming), Last)
  <2>1. ASSUME NEW k \in Int
        PROVE  (k \in Coming) <=> (k \in 0 .. 15 /\ t + k \in damage /\ t + k >= n)
    BY DEF Coming, t, n
  <2>2. ASSUME NEW k \in Int
        PROVE  (k \in Coming') <=> (k \in 0 .. 15 /\ (t + 1) + k \in damage /\ (t + 1) + k >= n)
    BY <1>1, <1>2 DEF Coming
  <2>3. 0 \notin Coming
    BY <1>2, <2>1
  <2>4. ASSUME NEW k \in Int
        PROVE  (k \in Coming') <=> (k \in Xor(ShiftBit(Coming), Last))
    <3>1. (k \in ShiftBit(Coming)) <=> (k >= 0 /\ k + 1 \in Coming)
      <4>1. (k \in ShiftBit(Coming)) <=>
               ~((k >= 0 /\ k + 1 \in Coming) <=> (0 \in Coming /\ k \in {15, 13, 0}))
        BY <1>3, InShiftBit
      <4>2. QED
        BY <2>3, <4>1
    <3>2. k + 1 \in Int /\ t + (k + 1) = (t + 1) + k
      BY <1>2
    <3>3. (k + 1 \in Coming) <=>
            (k + 1 \in 0 .. 15 /\ (t + 1) + k \in damage /\ (t + 1) + k >= n)
      BY <2>1, <3>2
    <3>4. (k \in Last) <=> (k = 15 /\ t + 16 \in damage)
      OBVIOUS
    <3>5. (k \in Xor(ShiftBit(Coming), Last)) <=> ~((k \in ShiftBit(Coming)) <=> (k \in Last))
      BY InXor
    <3>6. CASE k = 15
      <4>1. t + 16 = (t + 1) + k /\ (t + 1) + k >= n
        BY <1>1, <1>2, <3>6 DEF Done, t, n
      <4>2. k + 1 \notin 0 .. 15 /\ k \in 0 .. 15
        BY <3>6
      <4>3. QED
        BY <2>2, <3>1, <3>3, <3>4, <3>5, <3>6, <4>1, <4>2
    <3>7. CASE k # 15
      <4>1. (k \in 0 .. 15) <=> (k >= 0 /\ k + 1 \in 0 .. 15)
        BY <3>7
      <4>2. QED
        BY <2>2, <3>1, <3>3, <3>4, <3>5, <3>7, <4>1
    <3>8. QED
      BY <3>6, <3>7
  <2>5. Coming' \in SUBSET Int /\ Xor(ShiftBit(Coming), Last) \in SUBSET Int
    <3>1. Coming' \in SUBSET Int
      BY DEF Coming
    <3>2. Last \in SUBSET Int
      OBVIOUS
    <3>3. QED
      BY <1>3, <3>1, <3>2 DEF Xor
  <2>6. QED
    BY <2>4, <2>5
<1>6. Xor(Difference, Coming)' = Xor(Difference', Coming')
  BY DEF Xor
<1>7. ShiftBit(Xor(Difference, Coming)) = Xor(ShiftBit(Difference), ShiftBit(Coming))
  BY <1>3, ShiftBitLinear
<1> HIDE DEF Last
<1>8. Xor(ShiftBit(Difference), Xor(ShiftBit(Coming), Last)) =
        Xor(Xor(ShiftBit(Difference), ShiftBit(Coming)), Last)
  BY DEF Xor
<1>9. QED
  BY <1>4, <1>5, <1>6, <1>7, <1>8 DEF Last, t

LEMMA BurstShift == ASSUME Bursts
                    PROVE  CrcTypeOK /\ BurstInv /\ NextShift => BurstInv'
<1> SUFFICES ASSUME CrcTypeOK, BurstInv, NextShift PROVE BurstInv'
  OBVIOUS
<1> DEFINE t == Done
           V == Xor(Difference, Coming)
           Last == {k \in {15} : t + 16 \in damage}
<1>1. t \in Nat /\ Done' = t + 1
  <2>1. j \in 0 .. 7 /\ j' = j + 1 /\ data' = data /\ 8 * Len(data) >= 8 /\ 8 * Len(data) \in Nat
    BY DEF CrcTypeOK, NextShift
  <2>2. QED
    BY <2>1 DEF Done
<1>2. /\ damage' = damage /\ damage \in SUBSET Nat
      /\ \A p, q \in damage : q - p <= 15
  BY DEF CrcTypeOK, NextShift, Bursts
<1>3. V \in SUBSET (0 .. 15)
  BY DEF CrcTypeOK, Difference, Coming, Xor
<1>4. V' = Xor(ShiftBit(V), Last)
  BY ShiftBringsOne
<1>5. /\ (\A d \in damage : d >= t) => V = Near
      /\ (\E d \in damage : d < t) => V # {}
  BY DEF BurstInv
<1>6. ASSUME NEW k \in Int
      PROVE  /\ (k \in Near) <=> (k \in 0 .. 15 /\ t + k \in damage)
             /\ (k \in Near') <=> (k \in 0 .. 15 /\ (t + 1) + k \in damage)
  BY <1>1, <1>2 DEF Near
<1> HIDE DEF t, V
<1>7. CASE \E d \in damage : d < t
  <2>1. PICK d \in damage : d < t
    BY <1>7
  <2>2. t + 16 \notin damage
    BY <1>1, <1>2, <2>1
  <2>3. V' = ShiftBit(V)
    BY <1>4, <2>2 DEF Xor
  <2>4. V' # {}
    BY <1>3, <1>5, <1>7, <2>3, ShiftBitKeeps
  <2>5. \E x \in damage : x < t + 1
    BY <1>1, <1>2, <2>1
  <2>6. ~(\A x \in damage : x >= t + 1)
    BY <1>1, <1>2, <2>1
  <2>7. QED
    BY <1>1, <1>2, <2>4, <2>5, <2>6 DEF BurstInv, V
<1>8. CASE t \in damage
  <2>1. t + 16 \notin damage
    BY <1>1, <1>2, <1>8
  <2>2. \A d \in damage : d >= t \/ d < t
    BY <1>1, <1>2
  <2>3. V # {}
    <3>1. CASE \E d \in damage : d < t
      BY <1>5, <3>1
    <3>2. CASE \A d \in damage : d >= t
      <4>1. 0 \in Near
        BY <1>1, <1>6, <1>8
      <4>2. QED
        BY <1>5, <3>2, <4>1
    <3>3. QED
      BY <2>2, <3>1, <3>2
  <2>4. V' = ShiftBit(V)
    BY <1>4, <2>1 DEF Xor
  <2>5. V' # {}
    BY <1>3, <2>3, <2>4, ShiftBitKeeps
  <2>6. t < t + 1 /\ ~(t >= t + 1)
    BY <1>1
  <2>7. (\E d \in damage : d < t + 1) /\ ~(\A d \in damage : d >= t + 1)
    BY <1>8, <2>6
  <2>8. QED
    BY <1>1, <1>2, <2>5, <2>7 DEF BurstInv, V
<1>9. CASE \A d \in damage : d >= t + 1
  <2>1. \A d \in damage : d >= t /\ ~(d < t + 1)
    BY <1>1, <1>2, <1>9
  <2>2. V = Near
    BY <1>5, <2>1
  <2>3. 0 \notin V
    BY <1>1, <1>6, <1>9, <2>2
  <2>4. ASSUME NEW k \in Int PROVE (k \in V') <=> (k \in Near')
    <3>1. (k \in ShiftBit(V)) <=> (k >= 0 /\ k + 1 \in V)
      <4>1. (k \in ShiftBit(V)) <=>
               ~((k >= 0 /\ k + 1 \in V) <=> (0 \in V /\ k \in {15, 13, 0}))
        BY <1>3, InShiftBit
      <4>2. QED
        BY <2>3, <4>1
    <3>2. k + 1 \in Int /\ t + (k + 1) = (t + 1) + k
      BY <1>1
    <3>3. (k + 1 \in V) <=> (k + 1 \in 0 .. 15 /\ (t + 1) + k \in damage)
      BY <1>6, <2>2, <3>2
    <3>4. (k \in Last) <=> (k = 15 /\ t + 16 \in damage)
      OBVIOUS
    <3>5. (k \in Xor(ShiftBit(V), Last)) <=> ~((k \in ShiftBit(V)) <=> (k \in Last))
      BY InXor
    <3>6. (k \in Near') <=> (k \in 0 .. 15 /\ (t + 1) + k \in damage)
      BY <1>6
    <3>7. CASE k = 15
      <4>1. (t + 1) + k = t + 16 /\ k + 1 \notin 0 .. 15 /\ k \in 0 .. 15
        BY <1>1, <3>7
      <4>2. QED
        BY <1>4, <3>1, <3>3, <3>4, <3>5, <3>6, <3>7, <4>1
    <3>8. CASE k # 15
      <4>1. (k \in 0 .. 15) <=> (k >= 0 /\ k + 1 \in 0 .. 15)
        BY <3>8
      <4>2. QED
        BY <1>4, <3>1, <3>3, <3>4, <3>5, <3>6, <3>8, <4>1
    <3>9. QED
      BY <3>7, <3>8
  <2>5. V' \in SUBSET Int /\ Near' \in SUBSET Int
    <3>1. ShiftBit(V) \in SUBSET (0 .. 15)
      BY <1>3, ShiftBitType
    <3>2. V' \in SUBSET Int
      BY <1>4, <3>1 DEF Xor
    <3>3. Near' \in SUBSET Int
      BY DEF Near
    <3>4. QED
      BY <3>2, <3>3
  <2>6. V' = Near'
    BY <2>4, <2>5
  <2>7. QED
    BY <1>1, <1>2, <2>1, <2>6 DEF BurstInv, V
<1>10. QED
  <2>1. \A d \in damage : d < t \/ d = t \/ d >= t + 1
    BY <1>1, <1>2
  <2>2. QED
    BY <2>1, <1>7, <1>8, <1>9

\* The bits of the frame are all as they were sent.
Undamaged == \A d \in damage : d >= 8 * Len(data) + 16

LEMMA UndamagedMasks ==
  ASSUME CrcTypeOK
  PROVE  Undamaged <=> \A i \in 0 .. Len(data) + 1 : Mask(i) = {}
<1>1. damage \in SUBSET Nat /\ Len(data) \in Nat
  BY DEF CrcTypeOK
<1>2. ASSUME Undamaged, NEW i \in 0 .. Len(data) + 1 PROVE Mask(i) = {}
  BY <1>1, <1>2 DEF Undamaged, Mask
<1>3. ASSUME \A i \in 0 .. Len(data) + 1 : Mask(i) = {}, NEW d \in damage,
             ~(d >= 8 * Len(data) + 16)
      PROVE  FALSE
  <2> DEFINE i == d \div 8
             k == d % 8
  <2>1. d \in Nat /\ i \in Nat /\ k \in 0 .. 7 /\ 8 * i + k = d
    BY <1>1
  <2> HIDE DEF i, k
  <2>2. i \in 0 .. Len(data) + 1
    BY <1>1, <1>3, <2>1
  <2>3. k \in Mask(i)
    BY <2>1 DEF Mask
  <2>4. QED
    BY <1>3, <2>2, <2>3
<1>4. QED
  BY <1>2, <1>3 DEF Undamaged

LEMMA XorSame ==
  ASSUME NEW A, NEW B
  PROVE  (Xor(A, B) = A) <=> (B = {})
  BY DEF Xor

LEMMA ConcatPair ==
  ASSUME NEW S, NEW s \in Seq(S), NEW t \in Seq(S), Len(t) = 2
  PROVE  /\ s \o t \in Seq(S) /\ Len(s \o t) = Len(s) + 2
         /\ \A i \in 1 .. Len(s) : (s \o t)[i] = s[i]
         /\ (s \o t)[Len(s) + 1] = t[1]
         /\ (s \o t)[Len(s) + 2] = t[2]
<1>1. /\ s \o t \in Seq(S) /\ Len(s \o t) = Len(s) + Len(t)
      /\ \A i \in 1 .. Len(s) + Len(t) :
            (s \o t)[i] = IF i <= Len(s) THEN s[i] ELSE t[i - Len(s)]
  BY ConcatProperties
<1>2. Len(s) \in Nat
  OBVIOUS
<1> DEFINE st == s \o t
           l == Len(s)
<1> HIDE DEF st, l
<1>3. /\ st \in Seq(S) /\ Len(st) = l + 2 /\ l \in Nat
      /\ \A i \in 1 .. l + 2 : st[i] = IF i <= l THEN s[i] ELSE t[i - l]
  BY <1>1, <1>2 DEF st, l
<1>4. \A i \in 1 .. l : st[i] = s[i]
  BY <1>3
<1>5. st[l + 1] = t[1] /\ st[l + 2] = t[2]
  <2>1. /\ l + 1 \in 1 .. l + 2 /\ ~(l + 1 <= l) /\ (l + 1) - l = 1
        /\ l + 2 \in 1 .. l + 2 /\ ~(l + 2 <= l) /\ (l + 2) - l = 2
    BY <1>3
  <2>2. QED
    BY <1>3, <2>1
<1>6. QED
  BY <1>3, <1>4, <1>5 DEF st, l

\* The receiver gets the frame that was sent if the line left its bits alone.
LEMMA SameFrame ==
  ASSUME CrcTypeOK, ReceivedInv
  PROVE  (received \o ReceivedTrailer = data \o Trailer) <=> Undamaged
<1> DEFINE L == Len(data)
           R == received \o ReceivedTrailer
           D == data \o Trailer
<1>1. /\ data \in Seq(Byte) /\ received \in Seq(Byte)
      /\ L \in Nat /\ Len(received) = L
  BY DEF CrcTypeOK
<1>2. /\ Trailer \in Seq(SUBSET Int) /\ Len(Trailer) = 2
      /\ ReceivedTrailer \in Seq(SUBSET Int) /\ Len(ReceivedTrailer) = 2
  <2>1. /\ Trailer \in Seq(SUBSET Int) /\ Len(Trailer) = 2
        /\ Trailer[1] \in SUBSET Int /\ Trailer[2] \in SUBSET Int
    <3>1. crc \in SUBSET (0 .. 15)
      BY DEF CrcTypeOK
    <3> DEFINE low == crc \cap (0 .. 7)
               high == {k - 8 : k \in crc \cap (8 .. 15)}
    <3>2. low \in SUBSET Int /\ high \in SUBSET Int /\ Trailer = <<low, high>>
      BY <3>1 DEF Trailer
    <3> HIDE DEF low, high
    <3>3. /\ <<low, high>> \in Seq(SUBSET Int) /\ Len(<<low, high>>) = 2
          /\ <<low, high>>[1] = low /\ <<low, high>>[2] = high
      BY <3>2
    <3>4. QED
      BY <3>2, <3>3
  <2>2. ASSUME NEW i \in 1 .. 2
        PROVE  Xor(Trailer[i], Mask(Len(data) + i - 1)) \in SUBSET Int
    <3>1. Trailer[i] \in SUBSET Int /\ Mask(Len(data) + i - 1) \in SUBSET Int
      BY <2>1 DEF Mask
    <3>2. QED
      BY <3>1 DEF Xor
  <2>3. ReceivedTrailer \in [1 .. 2 -> SUBSET Int]
    BY <2>2 DEF ReceivedTrailer
  <2>4. ReceivedTrailer \in Seq(SUBSET Int)
    <3>1. Seq(SUBSET Int) = UNION {[1 .. n -> SUBSET Int] : n \in Nat}
      BY SeqDef, Zenon
    <3>2. QED
      BY <2>3, <3>1, Zenon
  <2>5. Len(ReceivedTrailer) = 2
    <3>1. DOMAIN ReceivedTrailer = 1 .. 2
      BY <2>3
    <3>2. DOMAIN ReceivedTrailer = 1 .. Len(ReceivedTrailer) /\ Len(ReceivedTrailer) \in Nat
      BY <2>4, LenProperties
    <3>3. QED
      BY <3>1, <3>2
  <2>6. QED
    BY <2>1, <2>4, <2>5
<1>3. /\ ReceivedTrailer[1] = Xor(Trailer[1], Mask(L))
      /\ ReceivedTrailer[2] = Xor(Trailer[2], Mask(L + 1))
  <2>1. Len(data) + 1 - 1 = L /\ Len(data) + 2 - 1 = L + 1
    BY <1>1
  <2>2. QED
    BY <2>1 DEF ReceivedTrailer
<1>4. (R = D) <=> /\ \A i \in 1 .. L : received[i] = data[i]
                  /\ ReceivedTrailer[1] = Trailer[1]
                  /\ ReceivedTrailer[2] = Trailer[2]
  <2>1. /\ \A i \in 1 .. L : R[i] = received[i] /\ D[i] = data[i]
        /\ R[L + 1] = ReceivedTrailer[1] /\ D[L + 1] = Trailer[1]
        /\ R[L + 2] = ReceivedTrailer[2] /\ D[L + 2] = Trailer[2]
    <3>1. data \in Seq(SUBSET Int) /\ received \in Seq(SUBSET Int)
      BY <1>1 DEF Byte
    <3>2. QED
      BY <1>1, <1>2, <3>1, ConcatPair
  <2>2. R = [i \in 1 .. L + 2 |-> R[i]] /\ D = [i \in 1 .. L + 2 |-> D[i]]
    <3>1. data \in Seq(SUBSET Int) /\ received \in Seq(SUBSET Int)
      BY <1>1 DEF Byte
    <3>2. /\ R \in Seq(SUBSET Int) /\ Len(R) = L + 2
          /\ D \in Seq(SUBSET Int) /\ Len(D) = L + 2
      BY <1>1, <1>2, <3>1, ConcatPair
    <3> HIDE DEF R, D, L
    <3>3. QED
      BY <3>2
  <2>3. 1 .. L + 2 = (1 .. L) \cup {L + 1, L + 2}
    BY <1>1
  <2> HIDE DEF R, D, L
  <2>4. (R = D) <=> \A i \in 1 .. L + 2 : R[i] = D[i]
    BY <2>2
  <2>5. QED
    BY <2>1, <2>3, <2>4
<1>5. (\A i \in 1 .. L : received[i] = data[i]) <=> \A i \in 1 .. L : Mask(i - 1) = {}
  BY XorSame DEF ReceivedInv
<1>6. /\ (ReceivedTrailer[1] = Trailer[1]) <=> (Mask(L) = {})
      /\ (ReceivedTrailer[2] = Trailer[2]) <=> (Mask(L + 1) = {})
  BY <1>3, XorSame
<1> HIDE DEF L, R, D
<1>7. (R = D) <=> \A i \in 0 .. L + 1 : Mask(i) = {}
  <2>1. ASSUME NEW i \in 0 .. L + 1
        PROVE  i = L \/ i = L + 1 \/ (i + 1 \in 1 .. L /\ (i + 1) - 1 = i)
    BY <1>1
  <2>2. /\ L \in 0 .. L + 1 /\ L + 1 \in 0 .. L + 1
        /\ \A i \in 1 .. L : i - 1 \in 0 .. L + 1
    BY <1>1
  <2>3. ASSUME R = D, NEW i \in 0 .. L + 1 PROVE Mask(i) = {}
    <3>1. Mask(L) = {} /\ Mask(L + 1) = {} /\ \A m \in 1 .. L : Mask(m - 1) = {}
      BY <1>4, <1>5, <1>6, <2>3
    <3>2. QED
      BY <2>1, <3>1
  <2>4. ASSUME \A i \in 0 .. L + 1 : Mask(i) = {} PROVE R = D
    <3>1. Mask(L) = {} /\ Mask(L + 1) = {} /\ \A m \in 1 .. L : Mask(m - 1) = {}
      BY <2>2, <2>4
    <3>2. QED
      BY <1>4, <1>5, <1>6, <3>1
  <2>5. QED
    BY <2>3, <2>4
<1>8. QED
  BY <1>7, UndamagedMasks DEF L, R, D

\* The receiver accepts the frame if its register differs from the sender's
\* by the damage to the CRC.
LEMMA AcceptedDifference ==
  ASSUME CrcTypeOK, j = 8
  PROVE  Accepted <=> Xor(Difference, Near) = {}
<1> DEFINE n == 8 * Len(data)
           RX == ReceivedTrailer[1] \cup {k + 8 : k \in ReceivedTrailer[2]}
<1>1. /\ Len(data) \in Nat /\ n \in Nat /\ Done = n /\ damage \in SUBSET Nat
      /\ crc \in SUBSET (0 .. 15) /\ rx_crc \in SUBSET (0 .. 15)
  BY DEF CrcTypeOK, Done
<1>2. /\ ReceivedTrailer[1] = Xor(Trailer[1], Mask(Len(data)))
      /\ ReceivedTrailer[2] = Xor(Trailer[2], Mask(Len(data) + 1))
  <2>1. Len(data) + 1 - 1 = Len(data) /\ Len(data) + 2 - 1 = Len(data) + 1
    BY <1>1
  <2>2. QED
    BY <2>1 DEF ReceivedTrailer
<1>3. 8 * (Len(data) + 1) = n + 8
  BY <1>1
<1> HIDE DEF n
<1>4. ASSUME NEW k \in Int
      PROVE  (k \in ReceivedTrailer[1]) <=>
               (k \in 0 .. 7 /\ ~((k \in crc) <=> (n + k \in damage)))
  <2>1. (k \in Trailer[1]) <=> (k \in 0 .. 7 /\ k \in crc)
    BY DEF Trailer
  <2>2. (k \in Mask(Len(data))) <=> (k \in 0 .. 7 /\ n + k \in damage)
    BY DEF Mask, n
  <2>3. (k \in ReceivedTrailer[1]) <=> ~((k \in Trailer[1]) <=> (k \in Mask(Len(data))))
    BY <1>2, InXor
  <2>4. QED
    BY <2>1, <2>2, <2>3
<1>5. ASSUME NEW k \in Int
      PROVE  (k - 8 \in ReceivedTrailer[2]) <=>
               (k \in 8 .. 15 /\ ~((k \in crc) <=> (n + k \in damage)))
  <2>1. (k - 8 \in Trailer[2]) <=> (k \in 8 .. 15 /\ k \in crc)
    BY <1>1 DEF Trailer
  <2>2. (k - 8 \in Mask(Len(data) + 1)) <=> (k \in 8 .. 15 /\ n + k \in damage)
    <3>1. (k - 8 \in Mask(Len(data) + 1)) <=>
            (k - 8 \in 0 .. 7 /\ (n + 8) + (k - 8) \in damage)
      BY <1>3 DEF Mask
    <3>2. (n + 8) + (k - 8) = n + k /\ (k - 8 \in 0 .. 7 <=> k \in 8 .. 15)
      BY <1>1
    <3>3. QED
      BY <3>1, <3>2
  <2>3. (k - 8 \in ReceivedTrailer[2]) <=>
          ~((k - 8 \in Trailer[2]) <=> (k - 8 \in Mask(Len(data) + 1)))
    BY <1>2, InXor
  <2>4. QED
    BY <2>1, <2>2, <2>3
<1>6. ReceivedTrailer[1] \in SUBSET Int /\ ReceivedTrailer[2] \in SUBSET Int
  <2>1. Trailer[1] \in SUBSET Int /\ Trailer[2] \in SUBSET Int
    BY <1>1 DEF Trailer
  <2>2. Mask(Len(data)) \in SUBSET Int /\ Mask(Len(data) + 1) \in SUBSET Int
    BY DEF Mask
  <2>3. QED
    BY <1>2, <2>1, <2>2 DEF Xor
<1>7. ASSUME NEW k \in Int
      PROVE  (k \in RX) <=> (k \in 0 .. 15 /\ ~((k \in crc) <=> (n + k \in damage)))
  <2>1. (k \in {x + 8 : x \in ReceivedTrailer[2]}) <=> (k - 8 \in ReceivedTrailer[2])
    BY <1>6
  <2>2. k \in 0 .. 15 <=> (k \in 0 .. 7 \/ k \in 8 .. 15)
    OBVIOUS
  <2>3. QED
    BY <1>4, <1>5, <2>1, <2>2
<1>8. RX = Xor(crc, Near)
  <2>1. ASSUME NEW k \in Int PROVE (k \in RX) <=> (k \in Xor(crc, Near))
    <3>1. (k \in Near) <=> (k \in 0 .. 15 /\ n + k \in damage)
      BY <1>1 DEF Near
    <3>2. (k \in Xor(crc, Near)) <=> ~((k \in crc) <=> (k \in Near))
      BY InXor
    <3>3. QED
      BY <1>1, <1>7, <3>1, <3>2
  <2>2. RX \in SUBSET Int
    BY <1>6
  <2>3. Xor(crc, Near) \in SUBSET Int
    <3>1. crc \in SUBSET Int /\ Near \in SUBSET Int
      BY <1>1 DEF Near
    <3>2. QED
      BY <3>1 DEF Xor
  <2> HIDE DEF RX
  <2>4. QED
    BY <2>1, <2>2, <2>3
<1>9. Accepted <=> rx_crc = RX
  BY DEF Accepted
<1> HIDE DEF RX
<1>10. (rx_crc = Xor(crc, Near)) <=> (Xor(Xor(crc, rx_crc), Near) = {})
  BY DEF Xor
<1>11. QED
  BY <1>8, <1>9, <1>10 DEF Difference

\* A frame with damage within 16 bits is never accepted, and a frame without
\* is, for messages of any bytes and any length.
THEOREM BurstsDetected == ASSUME Bursts
                          PROVE  CrcSpec => []DamageDetected
<1>1. BurstInv /\ UNCHANGED crc_vars => BurstInv'
  BY DEF BurstInv, Difference, Coming, Near, Done, Xor, crc_vars
<1>2. CrcTypeOK /\ BurstInv /\ [CrcNext]_crc_vars => BurstInv'
  BY <1>1, BurstByte, BurstShift DEF CrcNext
<1>3. CrcSpec => []BurstInv
  BY <1>2, CrcTypeCorrect, BurstStart, PTL DEF CrcSpec
<1>4. CrcTypeOK /\ BurstInv /\ ReceivedInv => DamageDetected
  <2> SUFFICES ASSUME CrcTypeOK, BurstInv, ReceivedInv, j = 8
               PROVE  Accepted <=> (received \o ReceivedTrailer = data \o Trailer)
    BY DEF DamageDetected
  <2> DEFINE n == 8 * Len(data)
             V == Xor(Difference, Coming)
  <2>1. n \in Nat /\ Done = n /\ damage \in SUBSET Nat
    BY DEF CrcTypeOK, Done
  <2> HIDE DEF n
  <2>2. Coming = Near
    BY <2>1 DEF Coming, Near, n
  <2>3. Accepted <=> V = {}
    BY <2>2, AcceptedDifference
  <2>4. /\ (\A d \in damage : d >= n) => V = Near
        /\ (\E d \in damage : d < n) => V # {}
    BY <2>1 DEF BurstInv
  <2> HIDE DEF V
  <2>5. ASSUME Undamaged PROVE V = {}
    <3>1. \A d \in damage : d >= n + 16
      BY <2>5 DEF Undamaged, n
    <3>2. \A d \in damage : d >= n
      BY <2>1, <3>1
    <3>3. Near = {}
      BY <2>1, <3>1 DEF Near
    <3>4. QED
      BY <2>4, <3>2, <3>3
  <2>6. ASSUME V = {} PROVE Undamaged
    <3>1. \A d \in damage : d >= n
      BY <2>1, <2>4, <2>6
    <3>2. Near = {}
      BY <2>4, <2>6, <3>1
    <3>3. ASSUME NEW d \in damage PROVE d >= n + 16
      <4>1. d \in Nat /\ d >= n
        BY <2>1, <3>1
      <4>2. CASE d < n + 16
        <5>1. d - n \in 0 .. 15 /\ n + (d - n) = d
          BY <2>1, <4>1, <4>2
        <5>2. d - n \in Near
          BY <2>1, <5>1 DEF Near
        <5>3. QED
          BY <3>2, <5>2
      <4>3. QED
        BY <2>1, <4>1, <4>2
    <3>4. QED
      BY <3>3 DEF Undamaged, n
  <2>7. QED
    BY <2>3, <2>5, <2>6, SameFrame
<1>5. QED
  BY <1>3, <1>4, CrcTypeCorrect, ReceivedCorrect, PTL
=============================================================================
