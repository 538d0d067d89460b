---------------------------- MODULE MCStandalone -----------------------------
(* The parts that call no other one, for TLC: the pure ones, whose inputs   *)
(* grow one at a time (every request that the TCP server can forward, byte  *)
(* by byte at the real lengths; messages, byte by byte, with each damage of *)
(* LineDamages to the shorter ones), and the port of lwIP to the kernel.    *)
EXTENDS FrameLengths, ModbusCrc, SysArch, TLC

CONSTANT MaxDamaged  \* greatest length of a message that is damaged

-----------------------------------------------------------------------------
(* Values.                                                                 *)

\* 0x00, 0x81 and 0xFF.
SomeBytes == {{}, {0, 7}, 0 .. 7}

\* Nothing; any damage within 8 bits; some within 16; any two bits.
LastBit == 8 * MaxDamaged + 15
LineDamages ==
  {{}} \cup {{p + s : p \in m \cup {0}} : m \in SUBSET (1 .. 7), s \in 0 .. LastBit}
       \cup {{p + s : p \in m \cup {0, 15}} : m \in {{}, {1}, {7, 8}, {1, 13}, 1 .. 14},
                                              s \in 0 .. LastBit}
       \cup {{p, q} : p, q \in 0 .. LastBit}

\* Threads are alike, and so are messages of a mailbox.
Symmetric == Permutations(Threads) \cup Permutations(Messages)

-----------------------------------------------------------------------------
(* One part moves, the others stay where they begin.                       *)

Smallest == [protocol_id |-> 0, unit |-> 0, frame_len |-> 8]
Undamaged == data = <<>> /\ damage = {}

StandaloneInit ==
  Shortest /\ CrcStart /\ Init /\ (damage # {} => request = Smallest)

Lengthen == Undamaged /\ Init /\ Longer /\ UNCHANGED <<crc_vars, vars>>

Crc ==
  /\ request = Smallest /\ Init
  /\ \/ NextByte /\ (damage # {} => Len(data) < MaxDamaged)
     \/ NextShift
  /\ UNCHANGED <<request, vars>>

Port == Undamaged /\ request = Smallest /\ Next /\ UNCHANGED <<request, crc_vars>>

StandaloneSpec ==
  StandaloneInit /\ [][Lengthen \/ Crc \/ Port]_<<request, crc_vars, vars>>
=============================================================================
