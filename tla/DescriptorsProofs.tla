-------------------------- MODULE DescriptorsProofs --------------------------
(***************************************************************************)
(* What make_seg_descriptor and make_gate_descriptor pack, the processor's *)
(* parse_descriptor unpacks, for every address, limit and attribute; and   *)
(* set_up_gdt_descriptor disturbs no descriptor that is already there.     *)
(***************************************************************************)
EXTENDS Descriptors, FiniteSetTheorems, TLAPS

(* The attribute bits of a descriptor's high dword.                        *)
SegAttr == SUBSET ((8 .. 15) \cup (20 .. 23))

LEMMA ShlBit ==
    ASSUME NEW r, NEW k \in Nat, NEW i \in Bit
    PROVE  i \in Shl(r, k) <=> i - k \in r
BY DEF Shl

LEMMA ShrBit ==
    ASSUME NEW r, NEW k \in Nat, NEW i \in Bit
    PROVE  i \in Shr(r, k) <=> i + k \in r
BY DEF Shr

(* The rotation and the byte swap bring the base's third byte to the       *)
(* bottom of the dword and leave the fourth at its top.                    *)
LEMMA Scatter ==
    ASSUME NEW base \in Dword
    PROVE  /\ Bswap(Rol(base \cap High, 8)) \subseteq (0 .. 7) \cup (24 .. 31)
           /\ \A i \in 0 .. 7 : i \in Bswap(Rol(base \cap High, 8)) <=> i + 16 \in base
           /\ \A i \in 24 .. 31 : i \in Bswap(Rol(base \cap High, 8)) <=> i \in base
<1> DEFINE from(i) == (8 * (3 - (i \div 8))) + (i % 8)
<1>1. \A i \in Bit : i \in Bswap(Rol(base \cap High, 8))
                        <=> from(i) \in Bit /\ ((from(i) - 8) % 32) \in base \cap High
  BY DEF Bswap, Rol, Bit
<1>2. \A i \in 0 .. 7 : from(i) = i + 24
  OBVIOUS
<1>3. \A i \in 8 .. 15 : from(i) = i + 8
  OBVIOUS
<1>4. \A i \in 16 .. 23 : from(i) = i - 8
  OBVIOUS
<1>5. \A i \in 24 .. 31 : from(i) = i - 24
  OBVIOUS
<1> HIDE DEF from
<1>6. \A i \in 0 .. 7 : i \in Bswap(Rol(base \cap High, 8)) <=> i + 16 \in base
  <2> TAKE i \in 0 .. 7
  <2>1. from(i) \in Bit /\ (from(i) - 8) % 32 = i + 16
    BY <1>2 DEF Bit
  <2> QED BY <1>1, <2>1 DEF Bit, High
<1>7. \A i \in 24 .. 31 : i \in Bswap(Rol(base \cap High, 8)) <=> i \in base
  <2> TAKE i \in 24 .. 31
  <2>1. from(i) \in Bit /\ (from(i) - 8) % 32 = i
    BY <1>5 DEF Bit
  <2> QED BY <1>1, <2>1 DEF Bit, High
<1>8. \A i \in 8 .. 23 : i \notin Bswap(Rol(base \cap High, 8))
  <2> TAKE i \in 8 .. 23
  <2>1. CASE i \in 8 .. 15
    <3>1. (from(i) - 8) % 32 = i
      BY <2>1, <1>3
    <3> QED BY <1>1, <2>1, <3>1 DEF Bit, High
  <2>2. CASE i \in 16 .. 23
    <3>1. (from(i) - 8) % 32 = i - 16
      BY <2>2, <1>4
    <3> QED BY <1>1, <2>2, <3>1 DEF Bit, High
  <2> QED BY <2>1, <2>2
<1>9. Bswap(Rol(base \cap High, 8)) \subseteq Bit
  BY DEF Bswap
<1> QED BY <1>6, <1>7, <1>8, <1>9 DEF Bit

(* s is what the processor makes of a base, a limit and attributes, and g  *)
(* of an offset, a selector and attributes.                                *)
SegmentIs(s, base, limit, attr) ==
    /\ s.base = base
    /\ s.limit_scaled = IF 23 \in attr THEN Shl(limit, 12) \cup 0 .. 11 ELSE limit
    /\ s.ar = { i \in 0 .. 7 : i + 8 \in attr }
    /\ s.flags = attr \cap 20 .. 23

GateIs(g, offset, selector, attr) ==
    /\ g.dest_selector = selector
    /\ g.dest_offset = offset
    /\ g.param_count = attr \cap 0 .. 4
    /\ g.ar = { i \in 0 .. 7 : i + 8 \in attr }

(* A segment descriptor means to the processor exactly the base, limit,    *)
(* access byte and flags it was made from: no bit is lost or spills into   *)
(* another field.                                                          *)
THEOREM SegmentRoundTrip ==
    ASSUME NEW base \in Dword, NEW limit \in SUBSET (0 .. 19), NEW attr \in SegAttr
    PROVE  SegmentIs(parse_segment(make_seg_descriptor(base, limit, attr)),
                     base, limit, attr)
<1> DEFINE b == Bswap(Rol(base \cap High, 8))
           d == make_seg_descriptor(base, limit, attr)
<1>1. d.lo = Shl(base, 16) \cup (limit \cap Low) /\ d.hi = b \cup (limit \ Low) \cup attr
  BY DEF make_seg_descriptor
<1>2. /\ b \subseteq (0 .. 7) \cup (24 .. 31)
      /\ \A i \in 0 .. 7 : i \in b <=> i + 16 \in base
      /\ \A i \in 24 .. 31 : i \in b <=> i \in base
  BY Scatter
<1>3. /\ \A i \in 0 .. 15 : i \in d.lo <=> i \in limit
      /\ \A i \in 16 .. 31 : i \in d.lo <=> i - 16 \in base
      /\ \A i \in Int : i \in d.lo => i \in Bit
  BY <1>1, ShlBit DEF Dword, Bit, Low, Shl
<1>4. /\ \A i \in 0 .. 7 : i \in d.hi <=> i + 16 \in base
      /\ \A i \in 8 .. 15 : i \in d.hi <=> i \in attr
      /\ \A i \in 16 .. 19 : i \in d.hi <=> i \in limit
      /\ \A i \in 20 .. 23 : i \in d.hi <=> i \in attr
      /\ \A i \in 24 .. 31 : i \in d.hi <=> i \in base
  BY <1>1, <1>2 DEF SegAttr, Low
<1> HIDE DEF d
<1>5. LimitField(d) = limit
  <2>1. \A i \in 0 .. 19 : i \in LimitField(d) <=> i \in limit
    <3> TAKE i \in 0 .. 19
    <3>1. CASE i \in 0 .. 15
      BY <3>1, <1>3 DEF LimitField, Low
    <3>2. CASE i \in 16 .. 19
      BY <3>2, <1>4 DEF LimitField, Low
    <3> QED BY <3>1, <3>2
  <2>2. LimitField(d) \subseteq 0 .. 19
    BY DEF LimitField, Low
  <2> QED BY <2>1, <2>2
<1>6. Shr(d.lo, 16) \cup Shl(d.hi \cap 0 .. 7, 16) \cup (d.hi \cap 24 .. 31) = base
  <2>1. \A i \in 0 .. 15 : i \in Shr(d.lo, 16) <=> i \in base
    BY <1>3, ShrBit DEF Bit
  <2>2. \A i \in 16 .. 31 : i \notin Shr(d.lo, 16)
    BY <1>3 DEF Shr, Bit
  <2>3. \A i \in 16 .. 23 : i \in Shl(d.hi \cap 0 .. 7, 16) <=> i \in base
    BY <1>4, ShlBit DEF Bit
  <2>4. Shl(d.hi \cap 0 .. 7, 16) \subseteq 16 .. 23 /\ Shr(d.lo, 16) \subseteq Bit
    BY DEF Shl, Shr, Bit
  <2>5. \A i \in Bit : i \in 0 .. 15 \/ i \in 16 .. 23 \/ i \in 24 .. 31
    BY DEF Bit
  <2> DEFINE u == Shr(d.lo, 16) \cup Shl(d.hi \cap 0 .. 7, 16) \cup (d.hi \cap 24 .. 31)
  <2>6. u \subseteq Bit
    BY <2>4 DEF Bit
  <2>7. \A i \in Bit : i \in u <=> i \in base
    <3> TAKE i \in Bit
    <3>1. CASE i \in 0 .. 15
      BY <3>1, <2>1, <2>4
    <3>2. CASE i \in 16 .. 23
      BY <3>2, <2>2, <2>3
    <3>3. CASE i \in 24 .. 31
      BY <3>3, <2>2, <2>4, <1>4
    <3> QED BY <3>1, <3>2, <3>3, <2>5
  <2> QED BY <2>6, <2>7 DEF Dword
<1>7. AR(d) = { i \in 0 .. 7 : i + 8 \in attr }
  BY <1>4 DEF AR
<1>8. d.hi \cap 20 .. 23 = attr \cap 20 .. 23 /\ (23 \in d.hi <=> 23 \in attr)
  BY <1>4
<1> QED BY <1>5, <1>6, <1>7, <1>8 DEF parse_segment, SegmentIs, d

(* A gate descriptor means to the processor the selector, the offset and   *)
(* the attributes it was made from.                                        *)
THEOREM GateRoundTrip ==
    ASSUME NEW offset \in Dword, NEW selector \in SUBSET Low,
           NEW attr \in SUBSET Low
    PROVE  GateIs(parse_gate(make_gate_descriptor(offset, selector, attr)),
                  offset, selector, attr)
<1> DEFINE d == make_gate_descriptor(offset, selector, attr)
<1>1. d.lo = (offset \cap Low) \cup Shl(selector, 16) /\ d.hi = (offset \cap High) \cup attr
  BY DEF make_gate_descriptor
<1>2. /\ \A i \in 0 .. 15 : i \in d.lo <=> i \in offset
      /\ \A i \in 16 .. 31 : i \in d.lo <=> i - 16 \in selector
      /\ \A i \in Int : i \in d.lo => i \in Bit
  BY <1>1 DEF Shl, Low, Bit
<1>3. /\ \A i \in 0 .. 15 : i \in d.hi <=> i \in attr
      /\ \A i \in 16 .. 31 : i \in d.hi <=> i \in offset
  BY <1>1 DEF Low, High
<1> HIDE DEF d
<1>4. Shr(d.lo, 16) = selector
  <2>1. \A i \in Low : i \in Shr(d.lo, 16) <=> i \in selector
    BY <1>2, ShrBit DEF Bit, Low
  <2>2. Shr(d.lo, 16) \subseteq Low
    BY <1>2 DEF Shr, Low, Bit
  <2> QED BY <2>1, <2>2
<1>5. (d.hi \cap High) \cup (d.lo \cap Low) = offset
  <2> DEFINE u == (d.hi \cap High) \cup (d.lo \cap Low)
  <2>1. \A i \in 0 .. 15 : i \in u <=> i \in offset
    BY <1>2 DEF Low, High
  <2>2. \A i \in 16 .. 31 : i \in u <=> i \in offset
    BY <1>3 DEF Low, High
  <2>3. u \subseteq Bit /\ offset \subseteq Bit
    BY DEF Low, High, Bit, Dword
  <2>4. \A i \in Bit : i \in 0 .. 15 \/ i \in 16 .. 31
    BY DEF Bit
  <2> HIDE DEF u
  <2>5. u = offset
    BY <2>1, <2>2, <2>3, <2>4
  <2> QED BY <2>5 DEF u
<1>6. d.hi \cap 0 .. 4 = attr \cap 0 .. 4
  BY <1>3
<1>7. AR(d) = { i \in 0 .. 7 : i + 8 \in attr }
  BY <1>3 DEF AR
<1> QED BY <1>4, <1>5, <1>6, <1>7 DEF parse_gate, GateIs, d

(* As long as the GDT is not full, the selector returned finds the new     *)
(* descriptor, is not null, and differs from every selector below the old  *)
(* limit, whose descriptors stay where and what they were.                 *)
THEOREM InstallKeeps ==
    ASSUME TableAssumption, NEW d, NEW want,
           pgdt \in Nat, pgdt >= 7, pgdt + 9 <= TableBytes, pgdt % 8 = 7,
           gdt \in [Offset -> Descriptor], SetUpGdt(d, want)
    PROVE  /\ LET sel == SelectorOf(pgdt')
              IN  sel # 0 /\ sel > pgdt /\ Fetchable(sel, pgdt') /\ gdt'[sel] = d
           /\ \A sel \in 0 .. pgdt : gdt'[sel] = gdt[sel]
           /\ \A sel \in Nat : Fetchable(sel, pgdt) => Fetchable(sel, pgdt')
           /\ pgdt' % 8 = 7
<1>1. TableBytes \in Nat /\ TableBytes % 8 = 0 /\ TableBytes >= 16
  BY DEF TableAssumption
<1>2. NewLimit(pgdt) = pgdt + 8 /\ NextOffset(pgdt) = pgdt + 1
  BY <1>1 DEF NewLimit, NextOffset
<1>3. pgdt' = pgdt + 8 /\ gdt' = [gdt EXCEPT ![pgdt + 1] = d]
  BY <1>2 DEF SetUpGdt, Installed
<1>4. SelectorOf(pgdt + 8) = pgdt + 1
  <2>1. PICK q \in Nat : pgdt = 8 * q + 7
    <3>1. pgdt = 8 * (pgdt \div 8) + 7 /\ pgdt \div 8 \in Nat
      BY <1>1
    <3> QED BY <3>1
  <2>2. (pgdt + 8) \div 8 = q + 1
    BY <2>1
  <2> QED BY <2>1, <2>2 DEF SelectorOf
<1>5. Fetchable(pgdt + 1, pgdt + 8)
  <2>1. ((pgdt + 1) \div 8) * 8 = pgdt + 1
    BY <1>1
  <2> QED BY <2>1, <1>1 DEF Fetchable
<1>6. pgdt + 1 \in Offset /\ \A sel \in 0 .. pgdt : sel \in Offset /\ sel # pgdt + 1
  BY <1>1 DEF Offset
<1>7. \A sel \in Nat : Fetchable(sel, pgdt) => Fetchable(sel, pgdt')
  BY <1>1, <1>3 DEF Fetchable
<1>8. pgdt' % 8 = 7
  BY <1>1, <1>3
<1> QED BY <1>1, <1>3, <1>4, <1>5, <1>6, <1>7, <1>8 DEF Offset

-----------------------------------------------------------------------------
(* Numbers and the bits of a register.                                     *)

LEMMA PowerIs ==
    /\ Power[1] = 1 /\ Power[2] = 2 /\ Power[3] = 4 /\ Power[4] = 8
    /\ Power[5] = 16 /\ Power[6] = 32 /\ Power[7] = 64 /\ Power[8] = 128
    /\ Power[9] = 256 /\ Power[10] = 512 /\ Power[11] = 1024 /\ Power[12] = 2048
    /\ Power[13] = 4096 /\ Power[14] = 8192 /\ Power[15] = 16384 /\ Power[16] = 32768
    /\ Power[17] = 65536 /\ Power[18] = 131072 /\ Power[19] = 262144 /\ Power[20] = 524288
BY DEF Power

LEMMA LowIs ==
    /\ 0 \in Low /\ 1 \in Low /\ 2 \in Low /\ 3 \in Low /\ 4 \in Low /\ 5 \in Low /\ 6 \in Low /\ 7 \in Low
    /\ 8 \in Low /\ 9 \in Low /\ 10 \in Low /\ 11 \in Low /\ 12 \in Low /\ 13 \in Low /\ 14 \in Low /\ 15 \in Low
    /\ 16 \notin Low /\ 17 \notin Low /\ 18 \notin Low /\ 19 \notin Low
BY DEF Low

(* The bit of weight k.                                                    *)
LEMMA DigitIs ==
    ASSUME NEW n \in Nat, NEW k \in Nat, k > 0, NEW i \in Low, Power[i + 1] = k
    PROVE  /\ n \div k \in Nat /\ (n \div k) % 2 \in Nat
           /\ (IF i \in Bits(n) THEN k ELSE 0) = k * ((n \div k) % 2)
<1>1. n \div k \in Nat
  BY SMT
<1>2. (n \div k) % 2 = 0 \/ (n \div k) % 2 = 1
  BY <1>1
<1>3. i \in Bits(n) <=> (n \div k) % 2 = 1
  BY DEF Bits
<1> HIDE DEF Bits
<1> QED BY <1>1, <1>2, <1>3

LEMMA FourDigits ==
    ASSUME NEW a \in Nat, NEW b \in Nat, NEW c \in Nat, NEW d \in Nat, NEW e \in Nat,
           NEW w \in Nat, NEW x \in Nat, NEW y \in Nat, NEW z \in Nat,
           a = 2 * b + w, b = 2 * c + x, c = 2 * d + y, d = 2 * e + z
    PROVE  a = w + 2 * x + 4 * y + 8 * z + 16 * e
OBVIOUS

LEMMA Half ==
    ASSUME NEW n \in Nat
    PROVE  n \div 2 \in Nat /\ n % 2 \in Nat /\ n = 2 * (n \div 2) + (n % 2)
OBVIOUS

(* Sixteen bits are enough for a limit.                                    *)
LEMMA NumberBits ==
    ASSUME NEW n \in Nat, n < 65536
    PROVE  Number(Bits(n)) = n
<1> DEFINE q(k) == n \div k
           w(i) == IF i \in Bits(n) THEN Power[i + 1] ELSE 0
<1>1. q(1) = n /\ q(65536) = 0 /\ n \in Nat
  OBVIOUS
<1>2. Number(Bits(n)) = (w(0) + w(1) + w(2) + w(3)) + (w(4) + w(5) + w(6) + w(7))
         + (w(8) + w(9) + w(10) + w(11)) + (w(12) + w(13) + w(14) + w(15))
         + (w(16) + w(17) + w(18) + w(19))
  BY DEF Number
<1>3. w(16) = 0 /\ w(17) = 0 /\ w(18) = 0 /\ w(19) = 0
  BY LowIs DEF Bits
<1>10. PICK d0 \in Nat : /\ w(0) = 1 * d0 /\ q(1) \in Nat /\ q(2) \in Nat
                       /\ q(1) = 2 * q(2) + d0
  <2>1. 0 \in Low /\ Power[0 + 1] = 1
    BY LowIs, PowerIs
  <2>2. q(1) \in Nat /\ q(1) % 2 \in Nat /\ w(0) = 1 * (q(1) % 2)
    BY <2>1, DigitIs
  <2>3. q(2) = q(1) \div 2
    OBVIOUS
  <2> HIDE DEF q, w
  <2> QED BY <2>2, <2>3, Half
<1>11. PICK d1 \in Nat : /\ w(1) = 2 * d1 /\ q(2) \in Nat /\ q(4) \in Nat
                       /\ q(2) = 2 * q(4) + d1
  <2>1. 1 \in Low /\ Power[1 + 1] = 2
    BY LowIs, PowerIs
  <2>2. q(2) \in Nat /\ q(2) % 2 \in Nat /\ w(1) = 2 * (q(2) % 2)
    BY <2>1, DigitIs
  <2>3. q(4) = q(2) \div 2
    OBVIOUS
  <2> HIDE DEF q, w
  <2> QED BY <2>2, <2>3, Half
<1>12. PICK d2 \in Nat : /\ w(2) = 4 * d2 /\ q(4) \in Nat /\ q(8) \in Nat
                       /\ q(4) = 2 * q(8) + d2
  <2>1. 2 \in Low /\ Power[2 + 1] = 4
    BY LowIs, PowerIs
  <2>2. q(4) \in Nat /\ q(4) % 2 \in Nat /\ w(2) = 4 * (q(4) % 2)
    BY <2>1, DigitIs
  <2>3. q(8) = q(4) \div 2
    OBVIOUS
  <2> HIDE DEF q, w
  <2> QED BY <2>2, <2>3, Half
<1>13. PICK d3 \in Nat : /\ w(3) = 8 * d3 /\ q(8) \in Nat /\ q(16) \in Nat
                       /\ q(8) = 2 * q(16) + d3
  <2>1. 3 \in Low /\ Power[3 + 1] = 8
    BY LowIs, PowerIs
  <2>2. q(8) \in Nat /\ q(8) % 2 \in Nat /\ w(3) = 8 * (q(8) % 2)
    BY <2>1, DigitIs
  <2>3. q(16) = q(8) \div 2
    OBVIOUS
  <2> HIDE DEF q, w
  <2> QED BY <2>2, <2>3, Half
<1>14. PICK d4 \in Nat : /\ w(4) = 16 * d4 /\ q(16) \in Nat /\ q(32) \in Nat
                       /\ q(16) = 2 * q(32) + d4
  <2>1. 4 \in Low /\ Power[4 + 1] = 16
    BY LowIs, PowerIs
  <2>2. q(16) \in Nat /\ q(16) % 2 \in Nat /\ w(4) = 16 * (q(16) % 2)
    BY <2>1, DigitIs
  <2>3. q(32) = q(16) \div 2
    OBVIOUS
  <2> HIDE DEF q, w
  <2> QED BY <2>2, <2>3, Half
<1>15. PICK d5 \in Nat : /\ w(5) = 32 * d5 /\ q(32) \in Nat /\ q(64) \in Nat
                       /\ q(32) = 2 * q(64) + d5
  <2>1. 5 \in Low /\ Power[5 + 1] = 32
    BY LowIs, PowerIs
  <2>2. q(32) \in Nat /\ q(32) % 2 \in Nat /\ w(5) = 32 * (q(32) % 2)
    BY <2>1, DigitIs
  <2>3. q(64) = q(32) \div 2
    OBVIOUS
  <2> HIDE DEF q, w
  <2> QED BY <2>2, <2>3, Half
<1>16. PICK d6 \in Nat : /\ w(6) = 64 * d6 /\ q(64) \in Nat /\ q(128) \in Nat
                       /\ q(64) = 2 * q(128) + d6
  <2>1. 6 \in Low /\ Power[6 + 1] = 64
    BY LowIs, PowerIs
  <2>2. q(64) \in Nat /\ q(64) % 2 \in Nat /\ w(6) = 64 * (q(64) % 2)
    BY <2>1, DigitIs
  <2>3. q(128) = q(64) \div 2
    OBVIOUS
  <2> HIDE DEF q, w
  <2> QED BY <2>2, <2>3, Half
<1>17. PICK d7 \in Nat : /\ w(7) = 128 * d7 /\ q(128) \in Nat /\ q(256) \in Nat
                       /\ q(128) = 2 * q(256) + d7
  <2>1. 7 \in Low /\ Power[7 + 1] = 128
    BY LowIs, PowerIs
  <2>2. q(128) \in Nat /\ q(128) % 2 \in Nat /\ w(7) = 128 * (q(128) % 2)
    BY <2>1, DigitIs
  <2>3. q(256) = q(128) \div 2
    OBVIOUS
  <2> HIDE DEF q, w
  <2> QED BY <2>2, <2>3, Half
<1>18. PICK d8 \in Nat : /\ w(8) = 256 * d8 /\ q(256) \in Nat /\ q(512) \in Nat
                       /\ q(256) = 2 * q(512) + d8
  <2>1. 8 \in Low /\ Power[8 + 1] = 256
    BY LowIs, PowerIs
  <2>2. q(256) \in Nat /\ q(256) % 2 \in Nat /\ w(8) = 256 * (q(256) % 2)
    BY <2>1, DigitIs
  <2>3. q(512) = q(256) \div 2
    OBVIOUS
  <2> HIDE DEF q, w
  <2> QED BY <2>2, <2>3, Half
<1>19. PICK d9 \in Nat : /\ w(9) = 512 * d9 /\ q(512) \in Nat /\ q(1024) \in Nat
                       /\ q(512) = 2 * q(1024) + d9
  <2>1. 9 \in Low /\ Power[9 + 1] = 512
    BY LowIs, PowerIs
  <2>2. q(512) \in Nat /\ q(512) % 2 \in Nat /\ w(9) = 512 * (q(512) % 2)
    BY <2>1, DigitIs
  <2>3. q(1024) = q(512) \div 2
    OBVIOUS
  <2> HIDE DEF q, w
  <2> QED BY <2>2, <2>3, Half
<1>20. PICK d10 \in Nat : /\ w(10) = 1024 * d10 /\ q(1024) \in Nat /\ q(2048) \in Nat
                       /\ q(1024) = 2 * q(2048) + d10
  <2>1. 10 \in Low /\ Power[10 + 1] = 1024
    BY LowIs, PowerIs
  <2>2. q(1024) \in Nat /\ q(1024) % 2 \in Nat /\ w(10) = 1024 * (q(1024) % 2)
    BY <2>1, DigitIs
  <2>3. q(2048) = q(1024) \div 2
    OBVIOUS
  <2> HIDE DEF q, w
  <2> QED BY <2>2, <2>3, Half
<1>21. PICK d11 \in Nat : /\ w(11) = 2048 * d11 /\ q(2048) \in Nat /\ q(4096) \in Nat
                       /\ q(2048) = 2 * q(4096) + d11
  <2>1. 11 \in Low /\ Power[11 + 1] = 2048
    BY LowIs, PowerIs
  <2>2. q(2048) \in Nat /\ q(2048) % 2 \in Nat /\ w(11) = 2048 * (q(2048) % 2)
    BY <2>1, DigitIs
  <2>3. q(4096) = q(2048) \div 2
    OBVIOUS
  <2> HIDE DEF q, w
  <2> QED BY <2>2, <2>3, Half
<1>22. PICK d12 \in Nat : /\ w(12) = 4096 * d12 /\ q(4096) \in Nat /\ q(8192) \in Nat
                       /\ q(4096) = 2 * q(8192) + d12
  <2>1. 12 \in Low /\ Power[12 + 1] = 4096
    BY LowIs, PowerIs
  <2>2. q(4096) \in Nat /\ q(4096) % 2 \in Nat /\ w(12) = 4096 * (q(4096) % 2)
    BY <2>1, DigitIs
  <2>3. q(8192) = q(4096) \div 2
    OBVIOUS
  <2> HIDE DEF q, w
  <2> QED BY <2>2, <2>3, Half
<1>23. PICK d13 \in Nat : /\ w(13) = 8192 * d13 /\ q(8192) \in Nat /\ q(16384) \in Nat
                       /\ q(8192) = 2 * q(16384) + d13
  <2>1. 13 \in Low /\ Power[13 + 1] = 8192
    BY LowIs, PowerIs
  <2>2. q(8192) \in Nat /\ q(8192) % 2 \in Nat /\ w(13) = 8192 * (q(8192) % 2)
    BY <2>1, DigitIs
  <2>3. q(16384) = q(8192) \div 2
    OBVIOUS
  <2> HIDE DEF q, w
  <2> QED BY <2>2, <2>3, Half
<1>24. PICK d14 \in Nat : /\ w(14) = 16384 * d14 /\ q(16384) \in Nat /\ q(32768) \in Nat
                       /\ q(16384) = 2 * q(32768) + d14
  <2>1. 14 \in Low /\ Power[14 + 1] = 16384
    BY LowIs, PowerIs
  <2>2. q(16384) \in Nat /\ q(16384) % 2 \in Nat /\ w(14) = 16384 * (q(16384) % 2)
    BY <2>1, DigitIs
  <2>3. q(32768) = q(16384) \div 2
    OBVIOUS
  <2> HIDE DEF q, w
  <2> QED BY <2>2, <2>3, Half
<1>25. PICK d15 \in Nat : /\ w(15) = 32768 * d15 /\ q(32768) \in Nat /\ q(65536) \in Nat
                       /\ q(32768) = 2 * q(65536) + d15
  <2>1. 15 \in Low /\ Power[15 + 1] = 32768
    BY LowIs, PowerIs
  <2>2. q(32768) \in Nat /\ q(32768) % 2 \in Nat /\ w(15) = 32768 * (q(32768) % 2)
    BY <2>1, DigitIs
  <2>3. q(65536) = q(32768) \div 2
    OBVIOUS
  <2> HIDE DEF q, w
  <2> QED BY <2>2, <2>3, Half
<1> HIDE DEF q, w
<1>30. q(1) = d0 + 2 * d1 + 4 * d2 + 8 * d3 + 16 * q(16)
  BY <1>10, <1>11, <1>12, <1>13, FourDigits
<1>40. w(0) + w(1) + w(2) + w(3) = 1 * (q(1) - 16 * q(16))
  BY <1>30, <1>10, <1>11, <1>12, <1>13
<1>31. q(16) = d4 + 2 * d5 + 4 * d6 + 8 * d7 + 16 * q(256)
  BY <1>14, <1>15, <1>16, <1>17, FourDigits
<1>41. w(4) + w(5) + w(6) + w(7) = 16 * (q(16) - 16 * q(256))
  BY <1>31, <1>14, <1>15, <1>16, <1>17
<1>32. q(256) = d8 + 2 * d9 + 4 * d10 + 8 * d11 + 16 * q(4096)
  BY <1>18, <1>19, <1>20, <1>21, FourDigits
<1>42. w(8) + w(9) + w(10) + w(11) = 256 * (q(256) - 16 * q(4096))
  BY <1>32, <1>18, <1>19, <1>20, <1>21
<1>33. q(4096) = d12 + 2 * d13 + 4 * d14 + 8 * d15 + 16 * q(65536)
  BY <1>22, <1>23, <1>24, <1>25, FourDigits
<1>43. w(12) + w(13) + w(14) + w(15) = 4096 * (q(4096) - 16 * q(65536))
  BY <1>33, <1>22, <1>23, <1>24, <1>25
<1>51. q(16) \in Nat /\ q(256) \in Nat /\ q(4096) \in Nat
  BY <1>14, <1>18, <1>22
<1> QED BY <1>1, <1>2, <1>3, <1>40, <1>41, <1>42, <1>43, <1>51

-----------------------------------------------------------------------------
(* The invariant.                                                          *)

(* The gates mounted and the programs whose LDT or TSS is in the GDT.      *)
Mounted == { a.want.base : a \in { b \in asked : b.want.gate } }
WithLdt == { p \in Program : tcb[p].ldt # 0 }
WithTss == { p \in Program : tcb[p].tss # 0 }

(* What is in the GDT, counted; TableAssumption says that there is room.   *)
Counted ==
    /\ Mounted \subseteq Gates
    /\ pgdt = 8 * (3 + Cardinality(Mounted) + Cardinality(WithLdt)
                     + Cardinality(WithTss)) - 1

(* The selectors of the descriptors behind the null descriptor.            *)
Selectors == { s \in Nat : s % 8 = 0 /\ s > 0 /\ s + 7 <= pgdt }

(* The bytes of p's LDT that are filled.                                   *)
Filled(p) == (tcb[p].limit + 1) % TableBytes

(* What a TCB holds, with selectors from sels.                             *)
TcbOf(sels) == [limit : 0 .. (TableBytes - 1), base : Dword,
                ldt : sels \cup {0}, tss : sels \cup {0}]

Tcbs ==
    /\ tcb \in [Program -> TcbOf(Selectors)]
    /\ \A p \in Program :
          /\ Filled(p) % 8 = 0 /\ Filled(p) <= 8 * Segments
          /\ tcb[p].tss # 0 => tcb[p].ldt # 0
          /\ tcb[p].ldt # 0 =>
                /\ tcb[p].limit = 8 * Segments - 1
                /\ parse_segment(gdt[tcb[p].ldt]).limit_scaled = Bits(tcb[p].limit)

(* The selectors returned for descriptors in the GDT, and those that       *)
(* select a TSS, which a task switch marks busy.                           *)
InGdt ==
    \A a \in asked : a.in = None =>
        /\ a.sel \in Selectors
        /\ Means(gdt[a.sel], a.want)
        /\ \A p \in Program : a.sel = tcb[p].tss => ~a.want.gate /\ a.want.attr = Tss

InLdt ==
    \A a \in asked : a.in # None =>
        /\ a.in \in Program
        /\ a.sel \in Nat /\ a.sel - 4 \in Nat /\ (a.sel - 4) % 8 = 0 /\ a.sel + 4 <= Filled(a.in)
        /\ ~a.want.gate /\ a.want.attr = Code3
        /\ Means(ldt[a.in][a.sel - 4], a.want)

Ldtr ==
    /\ ldtr.of \in Program \cup {None}
    /\ ldtr.of # None =>
          tcb[ldtr.of].ldt # 0 /\ ldtr.limit = tcb[ldtr.of].limit

Tables ==
    /\ gdt \in [Offset -> Descriptor]
    /\ ldt \in [Program -> [Offset -> Descriptor]]

IInv == Tables /\ Counted /\ Tcbs /\ InGdt /\ InLdt /\ Ldtr

-----------------------------------------------------------------------------
(* What descriptors mean.                                                  *)

LEMMA SegmentMeans ==
    ASSUME NEW base \in Dword, NEW limit \in SUBSET (0 .. 19), NEW attr \in SegAttr
    PROVE  Means(make_seg_descriptor(base, limit, attr),
                 [gate |-> FALSE, base |-> base, limit |-> limit, attr |-> attr])
<1>1. PICK s : s = parse_segment(make_seg_descriptor(base, limit, attr))
  OBVIOUS
<1>2. SegmentIs(s, base, limit, attr)
  BY <1>1, SegmentRoundTrip
<1> QED BY <1>1, <1>2 DEF Means, SegmentIs

LEMMA GateMeans ==
    ASSUME NEW entry \in Dword
    PROVE  Means(make_gate_descriptor(entry, CodeSel, CallGate3),
                 [gate |-> TRUE, base |-> entry, limit |-> {}, attr |-> CallGate3])
<1>1. CodeSel \in SUBSET Low /\ CallGate3 \in SUBSET Low
  BY DEF CodeSel, CallGate3, Low
<1>2. PICK g : g = parse_gate(make_gate_descriptor(entry, CodeSel, CallGate3))
  OBVIOUS
<1>3. GateIs(g, entry, CodeSel, CallGate3)
  BY <1>1, <1>2, GateRoundTrip
<1>4. CallGate3 \cap 0 .. 4 = {}
  BY DEF CallGate3
<1>5. { i \in 0 .. 7 : i + 8 \in CallGate3 } = {7, 6, 5, 3, 2}
  BY DEF CallGate3
<1>6. g = [dest_selector |-> CodeSel, dest_offset |-> entry,
           param_count |-> {}, ar |-> {7, 6, 5, 3, 2}]
  <2>1. g.ar = {7, 6, 5, 3, 2} /\ g.param_count = {}
    BY <1>3, <1>4, <1>5 DEF GateIs
  <2>2. g.dest_selector = CodeSel /\ g.dest_offset = entry
    BY <1>3 DEF GateIs
  <2> QED BY <1>2, <2>1, <2>2 DEF parse_gate
<1> QED BY <1>2, <1>6 DEF Means

(* Attributes the code uses.                                               *)
LEMMA Attributes ==
    /\ Code3 \in SegAttr /\ Ldt \in SegAttr /\ Tss \in SegAttr
    /\ Code0 \in SegAttr /\ Data0 \in SegAttr
    /\ 23 \notin Ldt /\ Code3 # Tss
    /\ Flat \in SUBSET (0 .. 19)
BY DEF SegAttr, Code3, Ldt, Tss, Code0, Data0, Flat

(* The processor's own bits: nothing but the access byte shows them.       *)
LEMMA OwnBit ==
    ASSUME NEW d \in Descriptor, NEW e \in Descriptor, NEW b \in {8, 9}, e.lo = d.lo,
           \A i \in Bit : i # b => (i \in e.hi <=> i \in d.hi)
    PROVE  /\ parse_segment(e).base = parse_segment(d).base
           /\ parse_segment(e).limit_scaled = parse_segment(d).limit_scaled
           /\ parse_segment(e).flags = parse_segment(d).flags
           /\ parse_segment(e).ar \ {b - 8} = parse_segment(d).ar \ {b - 8}
<1>1. \A i \in 0 .. 7 : i \in Bit /\ i # b
  BY DEF Bit
<1>2. \A i \in 16 .. 31 : i \in Bit /\ i # b
  BY DEF Bit
<1>3. e.hi \cap 0 .. 7 = d.hi \cap 0 .. 7
  BY <1>1
<1>4. e.hi \cap 16 .. 19 = d.hi \cap 16 .. 19
  BY <1>2
<1>5. e.hi \cap 20 .. 23 = d.hi \cap 20 .. 23
  BY <1>2
<1>6. e.hi \cap 24 .. 31 = d.hi \cap 24 .. 31
  BY <1>2
<1>7. 23 \in e.hi <=> 23 \in d.hi
  BY <1>2
<1>8. AR(e) \ {b - 8} = AR(d) \ {b - 8}
  <2>1. \A i \in 0 .. 7 : i # b - 8 => i + 8 \in Bit /\ i + 8 # b
    BY DEF Bit
  <2> QED BY <2>1 DEF AR
<1>9. LimitField(e) = LimitField(d)
  BY <1>4 DEF LimitField
<1> QED BY <1>3, <1>5, <1>6, <1>7, <1>8, <1>9 DEF parse_segment

LEMMA MeansStill ==
    ASSUME NEW d \in Descriptor, NEW e \in Descriptor, NEW b \in {8, 9}, e.lo = d.lo,
           \A i \in Bit : i # b => (i \in e.hi <=> i \in d.hi),
           NEW want, ~want.gate, want.attr = Tss <=> b = 9, Means(d, want)
    PROVE  Means(e, want)
<1>1. /\ parse_segment(e).base = parse_segment(d).base
      /\ parse_segment(e).limit_scaled = parse_segment(d).limit_scaled
      /\ parse_segment(e).flags = parse_segment(d).flags
      /\ parse_segment(e).ar \ {b - 8} = parse_segment(d).ar \ {b - 8}
  BY OwnBit
<1>2. (IF want.attr = Tss THEN {1} ELSE {0}) = {b - 8}
  OBVIOUS
<1> QED BY <1>1, <1>2 DEF Means

(* The descriptors that are installed are descriptors.                     *)
LEMMA DescriptorMade ==
    /\ \A base \in Dword, limit \in SUBSET (0 .. 19), attr \in SegAttr :
          make_seg_descriptor(base, limit, attr) \in Descriptor
    /\ \A entry \in Dword :
          make_gate_descriptor(entry, CodeSel, CallGate3) \in Descriptor
<1>1. ASSUME NEW base \in Dword, NEW limit \in SUBSET (0 .. 19), NEW attr \in SegAttr
      PROVE  make_seg_descriptor(base, limit, attr) \in Descriptor
  <2>1. Shl(base, 16) \subseteq Bit /\ Bswap(Rol(base \cap High, 8)) \subseteq Bit
    BY DEF Shl, Bswap
  <2>2. limit \subseteq Bit /\ attr \subseteq Bit
    BY DEF SegAttr, Bit
  <2> QED BY <2>1, <2>2 DEF make_seg_descriptor, Descriptor, Dword
<1>2. ASSUME NEW entry \in Dword
      PROVE  make_gate_descriptor(entry, CodeSel, CallGate3) \in Descriptor
  <2>1. Shl(CodeSel, 16) \subseteq Bit /\ CallGate3 \subseteq Bit /\ entry \subseteq Bit
    BY DEF Shl, CallGate3, Bit, Dword
  <2> QED BY <2>1 DEF make_gate_descriptor, Descriptor, Dword
<1> QED BY <1>1, <1>2

-----------------------------------------------------------------------------
(* Counting.                                                               *)

LEMMA Sizes ==
    ASSUME TableAssumption
    PROVE  /\ TableBytes \in Nat /\ TableBytes % 8 = 0
           /\ TableBytes >= 24 /\ TableBytes <= 65536
           /\ Segments \in Nat /\ 8 * Segments < TableBytes
           /\ Cardinality(Gates) \in Nat /\ Cardinality(Program) \in Nat
           /\ 8 * (3 + Cardinality(Gates) + 2 * Cardinality(Program)) <= TableBytes
<1>1. Cardinality(Gates) \in Nat /\ Cardinality(Program) \in Nat
  BY FS_CardinalityType DEF TableAssumption
<1> QED BY <1>1 DEF TableAssumption

(* There is room for one more, and the tables' limits stay below 2^16.     *)
LEMMA PartsCounted ==
    ASSUME TableAssumption, Mounted \subseteq Gates
    PROVE  /\ IsFiniteSet(Mounted) /\ Cardinality(Mounted) \in Nat
           /\ Cardinality(Mounted) <= Cardinality(Gates)
           /\ IsFiniteSet(WithLdt) /\ Cardinality(WithLdt) \in Nat
           /\ Cardinality(WithLdt) <= Cardinality(Program)
           /\ IsFiniteSet(WithTss) /\ Cardinality(WithTss) \in Nat
           /\ Cardinality(WithTss) <= Cardinality(Program)
<1>1. IsFiniteSet(Gates) /\ IsFiniteSet(Program)
  BY DEF TableAssumption
<1>2. WithLdt \subseteq Program /\ WithTss \subseteq Program
  BY DEF WithLdt, WithTss
<1>3. IsFiniteSet(Mounted) /\ Cardinality(Mounted) <= Cardinality(Gates)
  BY <1>1, FS_Subset
<1>4. IsFiniteSet(WithLdt) /\ Cardinality(WithLdt) <= Cardinality(Program)
  BY <1>1, <1>2, FS_Subset
<1>5. IsFiniteSet(WithTss) /\ Cardinality(WithTss) <= Cardinality(Program)
  BY <1>1, <1>2, FS_Subset
<1> QED BY <1>3, <1>4, <1>5, FS_CardinalityType

(* One more element.                                                       *)
LEMMA OneMore ==
    ASSUME NEW S, NEW T, IsFiniteSet(T), S \subseteq T, NEW x \in T, x \notin S
    PROVE  Cardinality(S \cup {x}) = Cardinality(S) + 1 /\ Cardinality(S) < Cardinality(T)
<1>1. IsFiniteSet(S)
  BY FS_Subset
<1>2. Cardinality(S \cup {x}) = Cardinality(S) + 1
  BY <1>1, FS_AddElement
<1>3. S \cup {x} \subseteq T
  OBVIOUS
<1>4. Cardinality(S \cup {x}) <= Cardinality(T)
  BY <1>3, FS_Subset
<1>5. Cardinality(S) \in Nat /\ Cardinality(T) \in Nat
  BY <1>1, FS_CardinalityType
<1> QED BY <1>2, <1>4, <1>5

(* The limit is that of a table of whole descriptors.                      *)
LEMMA LimitIs ==
    ASSUME TableAssumption, Counted
    PROVE  pgdt \in Nat /\ pgdt >= 23 /\ pgdt % 8 = 7 /\ pgdt < TableBytes
<1>1. PICK n \in Nat : /\ pgdt = 8 * (3 + n) - 1
                      /\ n <= Cardinality(Gates) + 2 * Cardinality(Program)
  <2> DEFINE n == Cardinality(Mounted) + Cardinality(WithLdt) + Cardinality(WithTss)
  <2>1. n \in Nat /\ n <= Cardinality(Gates) + 2 * Cardinality(Program)
    BY PartsCounted, Sizes DEF Counted
  <2>2. pgdt = 8 * (3 + n) - 1
    BY PartsCounted DEF Counted
  <2> HIDE DEF n
  <2> QED BY <2>1, <2>2
<1> QED BY <1>1, Sizes

(* Where set_up_gdt_descriptor puts a descriptor, and the selector for it. *)
LEMMA InstallIs ==
    ASSUME TableAssumption, Counted, pgdt + 9 <= TableBytes, NEW d, NEW want,
           SetUpGdt(d, want)
    PROVE  /\ SelectorOf(NewLimit(pgdt)) = pgdt + 1
           /\ pgdt' = pgdt + 8
           /\ gdt' = [gdt EXCEPT ![pgdt + 1] = d]
           /\ asked' = asked \cup {[in |-> None, sel |-> pgdt + 1, want |-> want]}
           /\ pgdt + 1 \in Offset
           /\ pgdt + 1 \notin Selectors
           /\ Selectors' = Selectors \cup {pgdt + 1}
<1>1. pgdt \in Nat /\ pgdt >= 23 /\ pgdt % 8 = 7 /\ pgdt < TableBytes
  BY LimitIs
<1>2. TableBytes \in Nat
  BY Sizes
<1>3. NewLimit(pgdt) = pgdt + 8 /\ NextOffset(pgdt) = pgdt + 1
  BY <1>1, <1>2 DEF NewLimit, NextOffset
<1>4. SelectorOf(pgdt + 8) = pgdt + 1
  BY <1>1 DEF SelectorOf
<1>5. pgdt' = pgdt + 8
  BY <1>3 DEF SetUpGdt
<1>6. Selectors' = Selectors \cup {pgdt + 1}
  <2>1. \A s \in Nat : s % 8 = 0 /\ s + 7 <= pgdt + 8 => s + 7 <= pgdt \/ s = pgdt + 1
    BY <1>1
  <2>2. pgdt + 1 \in Nat /\ (pgdt + 1) % 8 = 0 /\ pgdt + 1 > 0 /\ (pgdt + 1) + 7 <= pgdt + 8
    BY <1>1
  <2>3. \A s \in Nat : s + 7 <= pgdt => s + 7 <= pgdt + 8
    BY <1>1
  <2> QED BY <1>5, <2>1, <2>2, <2>3 DEF Selectors
<1>7. pgdt + 1 \notin Selectors
  BY <1>1 DEF Selectors
<1> QED BY <1>1, <1>2, <1>3, <1>4, <1>5, <1>6, <1>7 DEF SetUpGdt, Installed, Offset

-----------------------------------------------------------------------------
(* The steps.                                                              *)

LEMMA SelectorIs ==
    ASSUME TableAssumption, Counted
    PROVE  \A s \in Selectors : s \in Offset /\ s # 0 /\ s # pgdt + 1 /\ Fetchable(s, pgdt)
<1>1. pgdt \in Nat /\ pgdt < TableBytes /\ TableBytes \in Nat
  BY LimitIs, Sizes
<1>2. \A s \in Nat : s % 8 = 0 => (s \div 8) * 8 = s
  OBVIOUS
<1> QED BY <1>1, <1>2 DEF Selectors, Offset, Fetchable

(* Whoever gets the new selector for a TSS has asked for one.              *)
TssAsked(want) ==
    \A p \in Program :
        \/ tcb'[p].tss = tcb[p].tss
        \/ ~want.gate /\ want.attr = Tss /\ tcb'[p].tss = pgdt + 1

(* A descriptor more: nothing that was asked for before is lost.           *)
LEMMA GdtGrows ==
    ASSUME TableAssumption, IInv, pgdt + 9 <= TableBytes,
           NEW d \in Descriptor, NEW want, Means(d, want), SetUpGdt(d, want),
           TssAsked(want)
    PROVE  /\ gdt' \in [Offset -> Descriptor]
           /\ \A s \in Selectors : gdt'[s] = gdt[s]
           /\ gdt'[pgdt + 1] = d
           /\ InGdt'
<1>1. /\ gdt' = [gdt EXCEPT ![pgdt + 1] = d]
      /\ asked' = asked \cup {[in |-> None, sel |-> pgdt + 1, want |-> want]}
      /\ pgdt + 1 \in Offset
      /\ Selectors' = Selectors \cup {pgdt + 1}
  BY InstallIs DEF IInv
<1>2. gdt \in [Offset -> Descriptor]
  BY DEF IInv, Tables
<1>3. /\ gdt' \in [Offset -> Descriptor] /\ gdt'[pgdt + 1] = d
      /\ \A s \in Selectors : gdt'[s] = gdt[s]
  BY <1>1, <1>2, SelectorIs DEF IInv
<1>4. \A p \in Program : tcb[p].tss # pgdt + 1
  <2>1. pgdt \in Nat /\ \A s \in Selectors : s # pgdt + 1
    BY LimitIs, SelectorIs DEF IInv
  <2>2. \A p \in Program : tcb[p].tss \in Selectors \cup {0}
    BY DEF IInv, Tcbs, TcbOf
  <2> QED BY <2>1, <2>2
<1>5. ASSUME NEW a \in asked', a.in = None
      PROVE  /\ a.sel \in Selectors'
             /\ Means(gdt'[a.sel], a.want)
             /\ \A p \in Program : a.sel = tcb'[p].tss => ~a.want.gate /\ a.want.attr = Tss
  <2>1. CASE a \in asked
    <3>1. /\ a.sel \in Selectors
          /\ Means(gdt[a.sel], a.want)
          /\ \A p \in Program : a.sel = tcb[p].tss => ~a.want.gate /\ a.want.attr = Tss
      BY <1>5, <2>1 DEF IInv, InGdt
    <3>2. gdt'[a.sel] = gdt[a.sel] /\ a.sel # pgdt + 1
      BY <1>3, <3>1, SelectorIs DEF IInv
    <3> QED BY <1>1, <3>1, <3>2 DEF TssAsked
  <2>2. CASE a = [in |-> None, sel |-> pgdt + 1, want |-> want]
    <3>1. a.sel = pgdt + 1 /\ a.want = want
      BY <2>2
    <3>2. \A p \in Program : a.sel = tcb'[p].tss => ~want.gate /\ want.attr = Tss
      BY <1>4, <3>1 DEF TssAsked
    <3> QED BY <1>1, <1>3, <3>1, <3>2
  <2> QED BY <1>1, <2>1, <2>2
<1>6. InGdt'
  BY <1>5 DEF InGdt
<1> QED BY <1>3, <1>6

(* The LDTs' own state is not touched.                                     *)
LEMMA LdtsStay ==
    ASSUME TableAssumption, IInv, UNCHANGED ldt,
           \A p \in Program : tcb'[p].limit = tcb[p].limit,
           \A a \in asked' : a \in asked \/ a.in = None
    PROVE  InLdt'
<1>1. \A p \in Program : Filled(p)' = Filled(p)
  BY DEF Filled
<1> QED BY <1>1 DEF IInv, InLdt

LEMMA MountStep ==
    ASSUME TableAssumption, IInv, NEW entry \in Gates, MountGate(entry)
    PROVE  IInv'
<1>0. PICK want, d :
         /\ want = [gate |-> TRUE, base |-> entry, limit |-> {}, attr |-> CallGate3]
         /\ d = make_gate_descriptor(entry, CodeSel, CallGate3)
  OBVIOUS
<1>1. /\ SetUpGdt(d, want) /\ UNCHANGED <<ldt, tcb, ldtr>>
      /\ \A p \in Program : tcb'[p].tss = tcb[p].tss
  BY <1>0 DEF MountGate
<1>2. entry \in Dword
  BY DEF TableAssumption, Dword, Bit
<1>3. Means(d, want) /\ d \in Descriptor
  BY <1>0, <1>2, GateMeans, DescriptorMade
<1>4. entry \notin Mounted
  BY DEF MountGate, Mounted
<1>5. /\ Cardinality(Mounted \cup {entry}) = Cardinality(Mounted) + 1
      /\ Cardinality(Mounted) < Cardinality(Gates)
  BY <1>4, OneMore DEF TableAssumption, IInv, Counted
<1>6. pgdt + 9 <= TableBytes
  BY <1>5, PartsCounted, Sizes DEF IInv, Counted
<1>7. /\ pgdt' = pgdt + 8
      /\ asked' = asked \cup {[in |-> None, sel |-> pgdt + 1, want |-> want]}
      /\ Selectors' = Selectors \cup {pgdt + 1}
  BY <1>1, <1>6, InstallIs DEF IInv
<1>8. /\ gdt' \in [Offset -> Descriptor]
      /\ \A s \in Selectors : gdt'[s] = gdt[s]
      /\ InGdt'
  <2>1. SetUpGdt(d, want)
    BY <1>1
  <2>2. TssAsked(want)
    BY <1>1 DEF TssAsked
  <2> QED BY <2>1, <2>2, <1>3, <1>6, GdtGrows
<1>9. Mounted' = Mounted \cup {entry}
  <2>1. PICK r : r = [in |-> None, sel |-> pgdt + 1, want |-> want]
    OBVIOUS
  <2>2. r.want.gate /\ r.want.base = entry /\ asked' = asked \cup {r}
    BY <1>0, <1>7, <2>1
  <2> QED BY <2>2 DEF Mounted
<1>10. Counted'
  <2>1. WithLdt' = WithLdt /\ WithTss' = WithTss
    BY <1>1 DEF WithLdt, WithTss
  <2>2. pgdt' = 8 * (3 + (Cardinality(Mounted) + 1) + Cardinality(WithLdt)
                        + Cardinality(WithTss)) - 1
    BY <1>7, PartsCounted DEF IInv, Counted
  <2> QED BY <1>5, <1>9, <2>1, <2>2 DEF IInv, Counted
<1>11. Tcbs'
  <2>1. \A p \in Program : Filled(p)' = Filled(p)
    BY <1>1 DEF Filled
  <2>2. \A p \in Program : tcb[p].ldt \in Selectors \cup {0}
    BY DEF IInv, Tcbs, TcbOf
  <2>3. \A p \in Program : tcb[p].ldt # 0 => gdt'[tcb[p].ldt] = gdt[tcb[p].ldt]
    BY <1>8, <2>2
  <2>4. TcbOf(Selectors) \subseteq TcbOf(Selectors')
    BY <1>7 DEF TcbOf
  <2> QED BY <1>1, <2>1, <2>3, <2>4 DEF IInv, Tcbs
<1>12. InLdt'
  BY <1>1, <1>7, LdtsStay
<1>13. Tables' /\ Ldtr'
  BY <1>1, <1>8 DEF IInv, Tables, Ldtr
<1> QED BY <1>8, <1>10, <1>11, <1>12, <1>13 DEF IInv

(* The TCBs after one of them has changed, seen one by one.                *)
LEMMA TcbsGrow ==
    ASSUME TableAssumption, IInv, NEW p \in Program, NEW t \in TcbOf(Selectors'),
           tcb' = [tcb EXCEPT ![p] = t],
           Selectors \subseteq Selectors',
           \A s \in Selectors : parse_segment(gdt'[s]).limit_scaled
                                    = parse_segment(gdt[s]).limit_scaled,
           ((t.limit + 1) % TableBytes) % 8 = 0,
           (t.limit + 1) % TableBytes <= 8 * Segments,
           t.tss # 0 => t.ldt # 0,
           t.ldt # 0 => /\ t.limit = 8 * Segments - 1
                        /\ parse_segment(gdt'[t.ldt]).limit_scaled = Bits(t.limit)
    PROVE  Tcbs'
<1>1. tcb \in [Program -> TcbOf(Selectors)]
  BY DEF IInv, Tcbs
<1>2. TcbOf(Selectors) \subseteq TcbOf(Selectors')
  BY DEF TcbOf
<1>3. tcb' \in [Program -> TcbOf(Selectors')]
  BY <1>1, <1>2
<1>4. tcb'[p] = t /\ \A q \in Program : q # p => tcb'[q] = tcb[q]
  BY <1>1
<1>5. ASSUME NEW q \in Program
      PROVE  /\ Filled(q)' % 8 = 0 /\ Filled(q)' <= 8 * Segments
             /\ tcb'[q].tss # 0 => tcb'[q].ldt # 0
             /\ tcb'[q].ldt # 0 =>
                   /\ tcb'[q].limit = 8 * Segments - 1
                   /\ parse_segment(gdt'[tcb'[q].ldt]).limit_scaled = Bits(tcb'[q].limit)
  <2>1. CASE q = p
    BY <1>4, <2>1 DEF Filled
  <2>2. CASE q # p
    <3>1. tcb'[q] = tcb[q] /\ tcb[q] \in TcbOf(Selectors)
      BY <1>1, <1>4, <2>2
    <3>2. tcb[q].ldt # 0 => tcb[q].ldt \in Selectors
      BY <3>1 DEF TcbOf
    <3>3. Filled(q)' = Filled(q)
      BY <3>1 DEF Filled
    <3> QED BY <3>1, <3>2, <3>3 DEF IInv, Tcbs
  <2> QED BY <2>1, <2>2
<1> QED BY <1>3, <1>5 DEF Tcbs

(* A limit in 16 bits, as the limit of a descriptor.                       *)
LEMMA BitsOfLimit == \A n : Bits(n) \in SUBSET (0 .. 19) /\ Bits(n) \in SUBSET Low
BY DEF Bits, Low

LEMMA RegisterLdtStep ==
    ASSUME TableAssumption, IInv, NEW p \in Program, NEW base \in Bases,
           RegisterLdt(p, base)
    PROVE  IInv'
<1>0. PICK want, d :
         /\ want = [gate |-> FALSE, base |-> base, limit |-> Bits(tcb[p].limit),
                    attr |-> Ldt]
         /\ d = make_seg_descriptor(base, Bits(tcb[p].limit), Ldt)
  OBVIOUS
<1>1. /\ SetUpGdt(d, want) /\ UNCHANGED <<ldt, ldtr>>
      /\ tcb[p].ldt = 0 /\ tcb[p].limit = 8 * Segments - 1
      /\ tcb' = [tcb EXCEPT ![p].base = base, ![p].ldt = SelectorOf(NewLimit(pgdt))]
  BY <1>0 DEF RegisterLdt
<1>2. base \in Dword
  BY DEF TableAssumption, Dword, Bit
<1>3. Means(d, want) /\ d \in Descriptor
  BY <1>0, <1>2, SegmentMeans, DescriptorMade, BitsOfLimit, Attributes
<1>4. p \notin WithLdt
  BY <1>1 DEF WithLdt
<1>5. /\ Cardinality(WithLdt \cup {p}) = Cardinality(WithLdt) + 1
      /\ Cardinality(WithLdt) < Cardinality(Program)
  <2>1. WithLdt \subseteq Program
    BY DEF WithLdt
  <2> QED BY <2>1, <1>4, OneMore DEF TableAssumption
<1>6. pgdt + 9 <= TableBytes
  BY <1>5, PartsCounted, Sizes DEF IInv, Counted
<1>7. /\ pgdt' = pgdt + 8 /\ SelectorOf(NewLimit(pgdt)) = pgdt + 1
      /\ asked' = asked \cup {[in |-> None, sel |-> pgdt + 1, want |-> want]}
      /\ Selectors' = Selectors \cup {pgdt + 1}
      /\ pgdt + 1 # 0
  BY <1>1, <1>6, InstallIs, LimitIs DEF IInv
<1>8. PICK t : t = [tcb[p] EXCEPT !.base = base, !.ldt = pgdt + 1]
  OBVIOUS
<1>9. tcb \in [Program -> TcbOf(Selectors)] /\ tcb[p] \in TcbOf(Selectors)
  BY DEF IInv, Tcbs
<1>10. /\ t \in TcbOf(Selectors') /\ t.ldt = pgdt + 1
       /\ t.limit = tcb[p].limit /\ t.tss = tcb[p].tss
  BY <1>2, <1>7, <1>8, <1>9 DEF TcbOf
<1>11. tcb' = [tcb EXCEPT ![p] = t]
  BY <1>1, <1>7, <1>8, <1>9
<1>12. tcb'[p] = t /\ \A q \in Program : q # p => tcb'[q] = tcb[q]
  BY <1>9, <1>11
<1>13. /\ gdt' \in [Offset -> Descriptor]
       /\ \A s \in Selectors : gdt'[s] = gdt[s]
       /\ gdt'[pgdt + 1] = d
       /\ InGdt'
  <2>1. SetUpGdt(d, want)
    BY <1>1
  <2>2. TssAsked(want)
    BY <1>10, <1>12 DEF TssAsked
  <2> QED BY <2>1, <2>2, <1>3, <1>6, GdtGrows
<1>14. Mounted' = Mounted
  <2>1. PICK r : r = [in |-> None, sel |-> pgdt + 1, want |-> want]
    OBVIOUS
  <2>2. ~r.want.gate /\ asked' = asked \cup {r}
    BY <1>0, <1>7, <2>1
  <2> QED BY <2>2 DEF Mounted
<1>15. Counted'
  <2>1. WithLdt' = WithLdt \cup {p} /\ WithTss' = WithTss
    BY <1>7, <1>10, <1>12 DEF WithLdt, WithTss
  <2>2. pgdt' = 8 * (3 + Cardinality(Mounted) + (Cardinality(WithLdt) + 1)
                        + Cardinality(WithTss)) - 1
    BY <1>7, PartsCounted DEF IInv, Counted
  <2> QED BY <1>5, <1>14, <2>1, <2>2 DEF IInv, Counted
<1>16. Tcbs'
  <2>1. parse_segment(d).limit_scaled = Bits(t.limit)
    <3>1. want.limit = Bits(tcb[p].limit) /\ want.attr = Ldt /\ ~want.gate
      BY <1>0
    <3> QED BY <1>3, <1>10, <3>1, Attributes DEF Means
  <2>2. t.tss # 0 => t.ldt # 0
    BY <1>7, <1>10
  <2>3. /\ ((t.limit + 1) % TableBytes) % 8 = 0
        /\ (t.limit + 1) % TableBytes <= 8 * Segments
    BY <1>10 DEF IInv, Tcbs, Filled
  <2>4. Selectors \subseteq Selectors'
    BY <1>7
  <2>5. \A s \in Selectors : parse_segment(gdt'[s]).limit_scaled
                                = parse_segment(gdt[s]).limit_scaled
    BY <1>13
  <2>6. /\ t.limit = 8 * Segments - 1
        /\ parse_segment(gdt'[t.ldt]).limit_scaled = Bits(t.limit)
    BY <1>1, <1>10, <1>13, <2>1
  <2> QED BY <1>10, <1>11, <2>2, <2>3, <2>4, <2>5, <2>6, TcbsGrow
<1>17. InLdt'
  <2>1. \A q \in Program : tcb'[q].limit = tcb[q].limit
    BY <1>10, <1>12
  <2>2. \A a \in asked' : a \in asked \/ a.in = None
    BY <1>7
  <2>3. UNCHANGED ldt
    BY <1>1
  <2> QED BY <2>1, <2>2, <2>3, LdtsStay
<1>18. Tables' /\ Ldtr'
  <2>1. \A q \in Program : tcb'[q].limit = tcb[q].limit
    BY <1>10, <1>12
  <2>2. \A q \in Program : tcb[q].ldt # 0 => tcb'[q].ldt # 0
    BY <1>1, <1>12
  <2> QED BY <1>1, <1>13, <2>1, <2>2 DEF IInv, Tables, Ldtr
<1> QED BY <1>13, <1>15, <1>16, <1>17, <1>18 DEF IInv

LEMMA RegisterTssStep ==
    ASSUME TableAssumption, IInv, NEW p \in Program, NEW base \in Bases,
           RegisterTss(p, base)
    PROVE  IInv'
<1>0. PICK want, d :
         /\ want = [gate |-> FALSE, base |-> base, limit |-> Bits(103),
                    attr |-> Tss]
         /\ d = make_seg_descriptor(base, Bits(103), Tss)
  OBVIOUS
<1>1. /\ SetUpGdt(d, want) /\ UNCHANGED <<ldt, ldtr>>
      /\ tcb[p].ldt # 0 /\ tcb[p].tss = 0
      /\ tcb' = [tcb EXCEPT ![p].tss = SelectorOf(NewLimit(pgdt))]
  BY <1>0 DEF RegisterTss
<1>2. base \in Dword
  BY DEF TableAssumption, Dword, Bit
<1>3. Means(d, want) /\ d \in Descriptor
  BY <1>0, <1>2, SegmentMeans, DescriptorMade, BitsOfLimit, Attributes
<1>4. p \notin WithTss
  BY <1>1 DEF WithTss
<1>5. /\ Cardinality(WithTss \cup {p}) = Cardinality(WithTss) + 1
      /\ Cardinality(WithTss) < Cardinality(Program)
  <2>1. WithTss \subseteq Program
    BY DEF WithTss
  <2> QED BY <2>1, <1>4, OneMore DEF TableAssumption
<1>6. pgdt + 9 <= TableBytes
  BY <1>5, PartsCounted, Sizes DEF IInv, Counted
<1>7. /\ pgdt' = pgdt + 8 /\ SelectorOf(NewLimit(pgdt)) = pgdt + 1
      /\ asked' = asked \cup {[in |-> None, sel |-> pgdt + 1, want |-> want]}
      /\ Selectors' = Selectors \cup {pgdt + 1}
      /\ pgdt + 1 # 0
  BY <1>1, <1>6, InstallIs, LimitIs DEF IInv
<1>8. PICK t : t = [tcb[p] EXCEPT !.tss = pgdt + 1]
  OBVIOUS
<1>9. tcb \in [Program -> TcbOf(Selectors)] /\ tcb[p] \in TcbOf(Selectors)
  BY DEF IInv, Tcbs
<1>10. /\ t \in TcbOf(Selectors') /\ t.tss = pgdt + 1
       /\ t.limit = tcb[p].limit /\ t.ldt = tcb[p].ldt
  BY <1>2, <1>7, <1>8, <1>9 DEF TcbOf
<1>11. tcb' = [tcb EXCEPT ![p] = t]
  BY <1>1, <1>7, <1>8, <1>9
<1>12. tcb'[p] = t /\ \A q \in Program : q # p => tcb'[q] = tcb[q]
  BY <1>9, <1>11
<1>13. /\ gdt' \in [Offset -> Descriptor]
       /\ \A s \in Selectors : gdt'[s] = gdt[s]
       /\ gdt'[pgdt + 1] = d
       /\ InGdt'
  <2>1. SetUpGdt(d, want)
    BY <1>1
  <2>2. TssAsked(want)
    <3>1. want.attr = Tss /\ ~want.gate
      BY <1>0
    <3> QED BY <1>10, <1>12, <3>1 DEF TssAsked
  <2> QED BY <2>1, <2>2, <1>3, <1>6, GdtGrows
<1>14. Mounted' = Mounted
  <2>1. PICK r : r = [in |-> None, sel |-> pgdt + 1, want |-> want]
    OBVIOUS
  <2>2. ~r.want.gate /\ asked' = asked \cup {r}
    BY <1>0, <1>7, <2>1
  <2> QED BY <2>2 DEF Mounted
<1>15. Counted'
  <2>1. WithTss' = WithTss \cup {p} /\ WithLdt' = WithLdt
    BY <1>7, <1>10, <1>12 DEF WithTss, WithLdt
  <2>2. pgdt' = 8 * (3 + Cardinality(Mounted) + Cardinality(WithLdt)
                        + (Cardinality(WithTss) + 1)) - 1
    BY <1>7, PartsCounted DEF IInv, Counted
  <2> QED BY <1>5, <1>14, <2>1, <2>2 DEF IInv, Counted
<1>16. Tcbs'
  <2>2. t.tss # 0 => t.ldt # 0
    BY <1>1, <1>10
  <2>3. /\ ((t.limit + 1) % TableBytes) % 8 = 0
        /\ (t.limit + 1) % TableBytes <= 8 * Segments
    BY <1>10 DEF IInv, Tcbs, Filled
  <2>4. Selectors \subseteq Selectors'
    BY <1>7
  <2>5. \A s \in Selectors : parse_segment(gdt'[s]).limit_scaled
                                = parse_segment(gdt[s]).limit_scaled
    BY <1>13
  <2>6. /\ t.limit = 8 * Segments - 1
        /\ parse_segment(gdt'[t.ldt]).limit_scaled = Bits(t.limit)
    <3>1. t.ldt \in Selectors
      BY <1>1, <1>9, <1>10 DEF TcbOf
    <3> QED BY <1>1, <1>10, <1>13, <3>1 DEF IInv, Tcbs
  <2> QED BY <1>10, <1>11, <2>2, <2>3, <2>4, <2>5, <2>6, TcbsGrow
<1>17. InLdt'
  <2>1. \A q \in Program : tcb'[q].limit = tcb[q].limit
    BY <1>10, <1>12
  <2>2. \A a \in asked' : a \in asked \/ a.in = None
    BY <1>7
  <2>3. UNCHANGED ldt
    BY <1>1
  <2> QED BY <2>1, <2>2, <2>3, LdtsStay
<1>18. Tables' /\ Ldtr'
  <2>1. \A q \in Program : tcb'[q].limit = tcb[q].limit
    BY <1>10, <1>12
  <2>2. \A q \in Program : tcb[q].ldt # 0 => tcb'[q].ldt # 0
    BY <1>10, <1>12
  <2> QED BY <1>1, <1>13, <2>1, <2>2 DEF IInv, Tables, Ldtr
<1> QED BY <1>13, <1>15, <1>16, <1>17, <1>18 DEF IInv

(* Where fill_descriptor_in_ldt puts a descriptor: behind the last one,    *)
(* and at the start of a new LDT, whose limit is 0xffff.                   *)
LEMMA FillIs ==
    ASSUME TableAssumption, NEW limit \in Nat, limit < TableBytes, NEW f \in Nat,
           f = (limit + 1) % TableBytes, f % 8 = 0, f < 8 * Segments
    PROVE  /\ f + 8 <= 8 * Segments /\ f \in Offset
           /\ (((f + 8) % TableBytes) - 1) % TableBytes = f + 7
           /\ SelectorOf(f + 7) = f
           /\ (f + 8) % TableBytes = f + 8
<1>1. TableBytes \in Nat /\ Segments \in Nat /\ 8 * Segments < TableBytes
  BY Sizes
<1>2. f + 8 <= 8 * Segments
  BY <1>1
<1>3. (f + 8) % TableBytes = f + 8 /\ (f + 7) % TableBytes = f + 7
  BY <1>1, <1>2
<1>4. SelectorOf(f + 7) = f
  BY DEF SelectorOf
<1> QED BY <1>1, <1>2, <1>3, <1>4 DEF Offset

LEMMA FillStep ==
    ASSUME TableAssumption, IInv, NEW p \in Program, NEW base \in Bases,
           FillLdt(p, base)
    PROVE  IInv'
<1>0. PICK want, d, f :
         /\ want = [gate |-> FALSE, base |-> base, limit |-> Flat, attr |-> Code3]
         /\ d = make_seg_descriptor(base, Flat, Code3)
         /\ f = Filled(p)
  OBVIOUS
<1>1. tcb \in [Program -> TcbOf(Selectors)] /\ tcb[p] \in TcbOf(Selectors)
  BY DEF IInv, Tcbs
<1>2. /\ tcb[p].limit \in Nat /\ tcb[p].limit < TableBytes
      /\ f = (tcb[p].limit + 1) % TableBytes /\ f \in Nat /\ f % 8 = 0
      /\ f < 8 * Segments
  <2>1. tcb[p].limit \in Nat /\ tcb[p].limit < TableBytes
    BY <1>1, Sizes DEF TcbOf
  <2>2. f = (tcb[p].limit + 1) % TableBytes /\ f \in Nat
    BY <1>0, <2>1, Sizes DEF Filled
  <2> QED BY <1>0, <2>1, <2>2 DEF IInv, Tcbs, FillLdt
<1>3. /\ f + 8 <= 8 * Segments /\ f \in Offset
      /\ (((f + 8) % TableBytes) - 1) % TableBytes = f + 7
      /\ SelectorOf(f + 7) = f /\ (f + 8) % TableBytes = f + 8
  BY <1>2, FillIs
<1>4. /\ tcb[p].ldt = 0
      /\ ldt' = [ldt EXCEPT ![p][f] = d]
      /\ tcb' = [tcb EXCEPT ![p].limit = f + 7]
      /\ asked' = asked \cup {[in |-> p, sel |-> f + 4, want |-> want]}
      /\ UNCHANGED <<gdt, pgdt, ldtr>>
  BY <1>0, <1>2, <1>3 DEF FillLdt, LdtOffset
<1>5. base \in Dword
  BY DEF TableAssumption, Dword, Bit
<1>6. Means(d, want) /\ d \in Descriptor
  BY <1>0, <1>5, SegmentMeans, DescriptorMade, Attributes
<1>7. PICK t : t = [tcb[p] EXCEPT !.limit = f + 7]
  OBVIOUS
<1>8. /\ t \in TcbOf(Selectors) /\ t.limit = f + 7 /\ t.ldt = 0
      /\ t.tss = tcb[p].tss
  <2>1. f + 7 \in 0 .. (TableBytes - 1)
    BY <1>2, <1>3, Sizes
  <2> QED BY <1>1, <1>4, <1>7, <2>1 DEF TcbOf
<1>9. tcb' = [tcb EXCEPT ![p] = t]
  BY <1>1, <1>4, <1>7
<1>10. tcb'[p] = t /\ \A q \in Program : q # p => tcb'[q] = tcb[q]
  BY <1>1, <1>9
<1>11. Selectors' = Selectors
  BY <1>4 DEF Selectors
<1>12. Mounted' = Mounted
  <2>1. PICK r : r = [in |-> p, sel |-> f + 4, want |-> want]
    OBVIOUS
  <2>2. ~r.want.gate /\ asked' = asked \cup {r}
    BY <1>0, <1>4, <2>1
  <2> QED BY <2>2 DEF Mounted
<1>13. WithLdt' = WithLdt /\ WithTss' = WithTss
  BY <1>4, <1>8, <1>10 DEF WithLdt, WithTss
<1>14. Counted'
  BY <1>4, <1>12, <1>13 DEF IInv, Counted
<1>15. Tcbs'
  <2>1. t.tss = 0
    BY <1>4, <1>8 DEF IInv, Tcbs
  <2>2. (t.limit + 1) % TableBytes = f + 8
    BY <1>2, <1>3, <1>8
  <2>3. ((t.limit + 1) % TableBytes) % 8 = 0 /\ (t.limit + 1) % TableBytes <= 8 * Segments
    BY <2>2, <1>2, <1>3
  <2>4. t \in TcbOf(Selectors') /\ Selectors \subseteq Selectors'
    BY <1>8, <1>11
  <2>5. \A s \in Selectors : parse_segment(gdt'[s]).limit_scaled
                                = parse_segment(gdt[s]).limit_scaled
    BY <1>4
  <2> QED BY <1>8, <1>9, <2>1, <2>3, <2>4, <2>5, TcbsGrow
<1>16. InGdt'
  <2>1. ASSUME NEW a \in asked', a.in = None
        PROVE  a \in asked
    <3>1. p # None
      BY DEF TableAssumption
    <3> QED BY <1>4, <2>1, <3>1
  <2>2. \A q \in Program : tcb'[q].tss = tcb[q].tss
    BY <1>8, <1>10
  <2> QED BY <1>4, <1>11, <2>1, <2>2 DEF IInv, InGdt
<1>17. /\ ldt' \in [Program -> [Offset -> Descriptor]]
       /\ ldt'[p][f] = d
       /\ \A q \in Program, o \in Offset : q # p \/ o # f => ldt'[q][o] = ldt[q][o]
  <2>1. ldt \in [Program -> [Offset -> Descriptor]]
    BY DEF IInv, Tables
  <2>2. PICK l \in [Offset -> Descriptor] : l = [ldt[p] EXCEPT ![f] = d]
    BY <1>3, <1>6, <2>1
  <2>3. ldt' = [ldt EXCEPT ![p] = l]
    BY <1>4, <2>2
  <2>4. ldt'[p] = l /\ \A q \in Program : q # p => ldt'[q] = ldt[q]
    BY <2>1, <2>3
  <2>5. ldt' \in [Program -> [Offset -> Descriptor]]
    BY <2>1, <2>2, <2>3
  <2>6. l[f] = d /\ \A o \in Offset : o # f => l[o] = ldt[p][o]
    BY <1>3, <2>1, <2>2
  <2> QED BY <2>4, <2>5, <2>6
<1>18. InLdt'
  <2> SUFFICES ASSUME NEW a \in asked', a.in # None
               PROVE  /\ a.in \in Program
                      /\ a.sel \in Nat /\ a.sel - 4 \in Nat
                      /\ (a.sel - 4) % 8 = 0
                      /\ a.sel + 4 <= Filled(a.in)'
                      /\ ~a.want.gate /\ a.want.attr = Code3
                      /\ Means(ldt'[a.in][a.sel - 4], a.want)
    BY DEF InLdt
  <2>1. Filled(p)' = f + 8 /\ \A q \in Program : q # p => Filled(q)' = Filled(q)
    BY <1>2, <1>3, <1>8, <1>10 DEF Filled
  <2>2. CASE a \in asked
    <3>1. /\ a.in \in Program
          /\ a.sel \in Nat /\ a.sel - 4 \in Nat /\ (a.sel - 4) % 8 = 0 /\ a.sel + 4 <= Filled(a.in)
          /\ ~a.want.gate /\ a.want.attr = Code3
          /\ Means(ldt[a.in][a.sel - 4], a.want)
      BY <2>2 DEF IInv, InLdt
    <3>2. PICK k \in Nat : k = a.sel - 4 /\ a.sel + 4 = k + 8
      BY <3>1
    <3>3. Filled(a.in) \in Nat /\ Filled(a.in) <= 8 * Segments
      <4>1. tcb[a.in].limit \in 0 .. (TableBytes - 1)
        BY <1>1, <3>1 DEF TcbOf
      <4> QED BY <3>1, <4>1, Sizes DEF IInv, Tcbs, Filled
    <3>4. k \in Offset /\ (a.in = p => k # f)
      <4>1. PICK n \in Nat : n = Filled(a.in) /\ n <= 8 * Segments /\ k + 8 <= n
        BY <3>1, <3>2, <3>3
      <4>2. k \in Offset
        BY <4>1, Sizes DEF Offset
      <4>3. a.in = p => n = f
        BY <1>0, <4>1
      <4>4. f \in Nat
        BY <1>2
      <4> QED BY <4>1, <4>2, <4>3, <4>4
    <3>5. ldt'[a.in][k] = ldt[a.in][k]
      BY <1>17, <3>1, <3>4
    <3>6. a.sel + 4 <= Filled(a.in)'
      <4>1. CASE a.in = p
        <5>1. Filled(a.in) = f /\ Filled(a.in)' = f + 8 /\ f \in Nat
          BY <1>0, <1>2, <2>1, <4>1
        <5>2. k + 8 <= f
          BY <3>1, <3>2, <5>1
        <5> QED BY <3>2, <5>1, <5>2
      <4>2. CASE a.in # p
        BY <2>1, <3>1, <4>2
      <4> QED BY <4>1, <4>2
    <3> QED BY <3>1, <3>2, <3>5, <3>6
  <2>3. CASE a = [in |-> p, sel |-> f + 4, want |-> want]
    <3>1. a.in = p /\ a.sel = f + 4 /\ a.want = want
      BY <2>3
    <3>2. a.sel - 4 = f /\ a.sel + 4 = f + 8
      BY <1>2, <3>1
    <3>3. ~want.gate /\ want.attr = Code3
      BY <1>0
    <3> QED BY <1>2, <1>6, <1>17, <2>1, <3>1, <3>2, <3>3
  <2> QED BY <1>4, <2>2, <2>3
<1>19. Tables' /\ Ldtr'
  <2>1. ldtr.of # p
    BY <1>4 DEF IInv, Ldtr, TableAssumption
  <2> QED BY <1>4, <1>10, <1>17, <2>1 DEF IInv, Tables, Ldtr
<1> QED BY <1>14, <1>15, <1>16, <1>18, <1>19 DEF IInv

(* A task switch changes the busy bit of two descriptors, both of TSSes.   *)
LEMMA SwitchStep ==
    ASSUME TableAssumption, IInv, NEW p \in Program, SwitchTo(p)
    PROVE  IInv'
<1>1. /\ tcb[p].tss # 0 /\ UNCHANGED <<pgdt, ldt, tcb, asked>>
      /\ ldtr' = [of |-> p,
                  limit |-> Number(parse_segment(gdt[tcb[p].ldt]).limit_scaled)]
      /\ gdt' = [o \in Offset |->
                    IF o = tcb[p].tss
                    THEN [gdt[o] EXCEPT !.hi = @ \cup {9}]
                    ELSE IF ldtr.of # None /\ o = tcb[ldtr.of].tss
                    THEN [gdt[o] EXCEPT !.hi = @ \ {9}]
                    ELSE gdt[o]]
  BY DEF SwitchTo
<1>2. gdt \in [Offset -> Descriptor]
  BY DEF IInv, Tables
<1>3. 9 \in Bit
  BY DEF Bit
<1>4. ASSUME NEW o \in Offset
      PROVE  /\ gdt'[o] \in Descriptor /\ gdt'[o].lo = gdt[o].lo
             /\ \A i \in Bit : i # 9 => (i \in gdt'[o].hi <=> i \in gdt[o].hi)
             /\ gdt'[o] = gdt[o] \/ \E q \in Program : o = tcb[q].tss
  <2>1. gdt[o] \in Descriptor
    BY <1>2
  <2>2. CASE o = tcb[p].tss
    <3>1. gdt'[o] = [gdt[o] EXCEPT !.hi = @ \cup {9}]
      BY <1>1, <2>2
    <3> QED BY <1>3, <2>1, <2>2, <3>1 DEF Descriptor, Dword
  <2>3. CASE o # tcb[p].tss /\ ldtr.of # None /\ o = tcb[ldtr.of].tss
    <3>1. gdt'[o] = [gdt[o] EXCEPT !.hi = @ \ {9}]
      BY <1>1, <2>3
    <3>2. ldtr.of \in Program
      BY <2>3 DEF IInv, Ldtr
    <3> QED BY <1>3, <2>1, <2>3, <3>1, <3>2 DEF Descriptor, Dword
  <2>4. CASE o # tcb[p].tss /\ ~(ldtr.of # None /\ o = tcb[ldtr.of].tss)
    <3>1. gdt'[o] = gdt[o]
      BY <1>1, <2>4
    <3> QED BY <2>1, <3>1
  <2> QED BY <2>2, <2>3, <2>4
<1>5. gdt' \in [Offset -> Descriptor]
  BY <1>1, <1>4
<1>6. ASSUME NEW o \in Offset
      PROVE  parse_segment(gdt'[o]).limit_scaled = parse_segment(gdt[o]).limit_scaled
  <2>1. gdt[o] \in Descriptor
    BY <1>2
  <2> QED BY <1>4, <2>1, OwnBit
<1>7. Selectors' = Selectors /\ \A s \in Selectors : s \in Offset
  BY <1>1, SelectorIs DEF Selectors, IInv
<1>8. Counted'
  BY <1>1 DEF IInv, Counted, Mounted, WithLdt, WithTss
<1>9. /\ tcb \in [Program -> TcbOf(Selectors)]
      /\ \A q \in Program : tcb[q].ldt # 0 => tcb[q].ldt \in Offset
  <2>1. tcb \in [Program -> TcbOf(Selectors)]
    BY DEF IInv, Tcbs
  <2>2. \A q \in Program : tcb[q].ldt \in Selectors \cup {0}
    BY <2>1 DEF TcbOf
  <2> QED BY <1>7, <2>1, <2>2
<1>10. Tcbs'
  <2>1. \A q \in Program : Filled(q)' = Filled(q)
    BY <1>1 DEF Filled
  <2>2. \A q \in Program : tcb[q].ldt # 0 =>
           parse_segment(gdt'[tcb[q].ldt]).limit_scaled
             = parse_segment(gdt[tcb[q].ldt]).limit_scaled
    BY <1>6, <1>9
  <2> QED BY <1>1, <1>7, <1>9, <2>1, <2>2 DEF IInv, Tcbs
<1>11. InGdt'
  <2> SUFFICES ASSUME NEW a \in asked, a.in = None
               PROVE  /\ a.sel \in Selectors
                      /\ Means(gdt'[a.sel], a.want)
                      /\ \A q \in Program : a.sel = tcb[q].tss
                             => ~a.want.gate /\ a.want.attr = Tss
    BY <1>1, <1>7 DEF InGdt
  <2>1. /\ a.sel \in Selectors
        /\ Means(gdt[a.sel], a.want)
        /\ \A q \in Program : a.sel = tcb[q].tss => ~a.want.gate /\ a.want.attr = Tss
    BY DEF IInv, InGdt
  <2>2. PICK o \in Offset : o = a.sel
    BY <2>1, <1>7
  <2>3. CASE gdt'[o] = gdt[o]
    BY <2>1, <2>2, <2>3
  <2>4. CASE \E q \in Program : o = tcb[q].tss
    <3>1. ~a.want.gate /\ a.want.attr = Tss
      BY <2>1, <2>2, <2>4
    <3>2. PICK x \in Descriptor, y \in Descriptor : x = gdt[o] /\ y = gdt'[o]
      BY <1>2, <1>5
    <3>3. y.lo = x.lo /\ \A i \in Bit : i # 9 => (i \in y.hi <=> i \in x.hi)
      BY <1>4, <3>2
    <3>4. Means(x, a.want)
      BY <2>1, <2>2, <3>2
    <3>5. Means(y, a.want)
      BY <3>1, <3>3, <3>4, MeansStill
    <3> QED BY <2>1, <2>2, <3>2, <3>5
  <2> QED BY <1>4, <2>3, <2>4
<1>12. InLdt'
  <2>1. \A q \in Program : tcb'[q].limit = tcb[q].limit
    BY <1>1
  <2>2. \A a \in asked' : a \in asked \/ a.in = None
    BY <1>1
  <2>3. UNCHANGED ldt
    BY <1>1
  <2> QED BY <2>1, <2>2, <2>3, LdtsStay
<1>13. Ldtr'
  <2>1. tcb[p].ldt # 0 /\ parse_segment(gdt[tcb[p].ldt]).limit_scaled = Bits(tcb[p].limit)
    BY <1>1 DEF IInv, Tcbs
  <2>2. tcb[p].limit \in Nat /\ tcb[p].limit < 65536
    <3>1. tcb[p].limit \in 0 .. (TableBytes - 1)
      BY <1>9 DEF TcbOf
    <3> QED BY <3>1, Sizes
  <2>3. Number(Bits(tcb[p].limit)) = tcb[p].limit
    BY <2>2, NumberBits
  <2>4. ldtr'.of = p /\ ldtr'.limit = tcb[p].limit
    BY <1>1, <2>1, <2>3
  <2> QED BY <1>1, <2>1, <2>4 DEF Ldtr
<1>14. Tables'
  BY <1>1, <1>5 DEF IInv, Tables
<1> QED BY <1>8, <1>10, <1>11, <1>12, <1>13, <1>14 DEF IInv

(* Loading a segment register sets a bit the loader asked nothing of.      *)
LEMMA LoadSegmentStep ==
    ASSUME TableAssumption, IInv, NEW n \in 0 .. (Segments - 1), LoadSegment(8 * n + 4)
    PROVE  IInv'
<1>0. PICK q, f : q = ldtr.of /\ f = 8 * n
  OBVIOUS
<1>1. /\ q \in Program /\ f \in Offset
      /\ ldt' = [ldt EXCEPT ![q][f].hi = @ \cup {8}]
      /\ UNCHANGED <<gdt, pgdt, tcb, ldtr, asked>>
  <2>1. ((8 * n + 4) \div 8) * 8 = 8 * n
    BY Sizes
  <2>2. f \in Offset
    BY <1>0, Sizes DEF Offset
  <2>3. q \in Program
    BY <1>0 DEF LoadSegment, IInv, Ldtr
  <2> QED BY <1>0, <2>1, <2>2, <2>3 DEF LoadSegment
<1>2. ldt \in [Program -> [Offset -> Descriptor]]
  BY DEF IInv, Tables
<1>3. PICK x \in Descriptor, y \in Descriptor :
         /\ x = ldt[q][f] /\ y = [x EXCEPT !.hi = @ \cup {8}]
         /\ y.lo = x.lo /\ \A i \in Bit : i # 8 => (i \in y.hi <=> i \in x.hi)
  <2>1. PICK x \in Descriptor : x = ldt[q][f]
    BY <1>1, <1>2
  <2>2. PICK y : y = [x EXCEPT !.hi = @ \cup {8}]
    OBVIOUS
  <2>3. 8 \in Bit
    BY DEF Bit
  <2>4. y \in Descriptor /\ y.lo = x.lo /\ y.hi = x.hi \cup {8}
    BY <2>1, <2>2, <2>3 DEF Descriptor, Dword
  <2> QED BY <2>1, <2>2, <2>4
<1>4. /\ ldt' \in [Program -> [Offset -> Descriptor]]
      /\ ldt'[q][f] = y
      /\ \A r \in Program, o \in Offset : r # q \/ o # f => ldt'[r][o] = ldt[r][o]
  <2>1. PICK l \in [Offset -> Descriptor] : l = [ldt[q] EXCEPT ![f] = y]
    BY <1>1, <1>2, <1>3
  <2>2. ldt' = [ldt EXCEPT ![q] = l]
    BY <1>1, <1>2, <1>3, <2>1
  <2>3. ldt'[q] = l /\ \A r \in Program : r # q => ldt'[r] = ldt[r]
    BY <1>1, <1>2, <2>2
  <2>4. l[f] = y /\ \A o \in Offset : o # f => l[o] = ldt[q][o]
    BY <1>1, <1>2, <2>1
  <2>5. ldt' \in [Program -> [Offset -> Descriptor]]
    BY <1>2, <2>1, <2>2
  <2> QED BY <2>3, <2>4, <2>5
<1>5. InLdt'
  <2> SUFFICES ASSUME NEW a \in asked, a.in # None
               PROVE  /\ a.in \in Program
                      /\ a.sel \in Nat /\ a.sel - 4 \in Nat
                      /\ (a.sel - 4) % 8 = 0 /\ a.sel + 4 <= Filled(a.in)
                      /\ ~a.want.gate /\ a.want.attr = Code3
                      /\ Means(ldt'[a.in][a.sel - 4], a.want)
    BY <1>1 DEF InLdt, Filled
  <2>1. /\ a.in \in Program
        /\ a.sel \in Nat /\ a.sel - 4 \in Nat
        /\ (a.sel - 4) % 8 = 0 /\ a.sel + 4 <= Filled(a.in)
        /\ ~a.want.gate /\ a.want.attr = Code3
        /\ Means(ldt[a.in][a.sel - 4], a.want)
    BY DEF IInv, InLdt
  <2>2. a.sel - 4 \in Offset
    <3>1. Filled(a.in) \in Nat /\ Filled(a.in) <= 8 * Segments
      <4>1. tcb[a.in] \in TcbOf(Selectors)
        BY <2>1 DEF IInv, Tcbs
      <4>2. tcb[a.in].limit \in 0 .. (TableBytes - 1)
        BY <4>1 DEF TcbOf
      <4> QED BY <2>1, <4>2, Sizes DEF IInv, Tcbs, Filled
    <3> QED BY <2>1, <3>1, Sizes DEF Offset
  <2>3. CASE a.in = q /\ a.sel - 4 = f
    <3>1. Means(x, a.want) /\ a.want.attr # Tss
      BY <1>3, <2>1, <2>3, Attributes
    <3>2. Means(y, a.want)
      <4>1. 8 \in {8, 9} /\ (a.want.attr = Tss <=> 8 = 9)
        BY <3>1
      <4>2. ~a.want.gate
        BY <2>1
      <4>3. y.lo = x.lo /\ \A i \in Bit : i # 8 => (i \in y.hi <=> i \in x.hi)
        BY <1>3
      <4> QED BY <3>1, <4>1, <4>2, <4>3, MeansStill
    <3> QED BY <1>4, <2>1, <2>3, <3>2
  <2>4. CASE ~(a.in = q /\ a.sel - 4 = f)
    BY <1>4, <2>1, <2>2, <2>4
  <2> QED BY <2>3, <2>4
<1>6. Tables'
  BY <1>1, <1>4 DEF IInv, Tables
<1>7. Counted' /\ Tcbs' /\ InGdt' /\ Ldtr'
  <2>1. Selectors' = Selectors /\ \A r \in Program : Filled(r)' = Filled(r)
    BY <1>1 DEF Selectors, Filled
  <2>2. Counted'
    BY <1>1 DEF IInv, Counted, Mounted, WithLdt, WithTss
  <2>3. Tcbs'
    BY <1>1, <2>1 DEF IInv, Tcbs
  <2>4. InGdt' /\ Ldtr'
    BY <1>1, <2>1 DEF IInv, InGdt, Ldtr
  <2> QED BY <2>2, <2>3, <2>4
<1> QED BY <1>5, <1>6, <1>7 DEF IInv

-----------------------------------------------------------------------------
(* The beginning, and the theorems.                                        *)

LEMMA BootDescriptors ==
    ASSUME TableAssumption, Init
    PROVE  /\ gdt \in [Offset -> Descriptor]
           /\ gdt[8] = make_seg_descriptor({}, Flat, Code0)
           /\ gdt[16] = make_seg_descriptor({}, Flat, Data0)
<1>1. /\ \A i : i \notin Shl({}, 16) /\ i \notin Bswap(Rol({} \cap High, 8))
      /\ Flat \cap Low = 0 .. 15 /\ Flat \ Low = 16 .. 19
  BY DEF Shl, Bswap, Rol, Flat, Low
<1>2. make_seg_descriptor({}, Flat, Code0)
         = [lo |-> 0 .. 15, hi |-> {11, 12, 15, 22, 23} \cup 16 .. 19]
  BY <1>1 DEF make_seg_descriptor, Code0
<1>3. make_seg_descriptor({}, Flat, Data0)
         = [lo |-> 0 .. 15, hi |-> {9, 12, 15, 22, 23} \cup 16 .. 19]
  BY <1>1 DEF make_seg_descriptor, Data0
<1>4. 8 \in Offset /\ 16 \in Offset
  BY Sizes DEF Offset
<1>5. PICK x, y : /\ x = [lo |-> 0 .. 15, hi |-> {11, 12, 15, 22, 23} \cup 16 .. 19]
                  /\ y = [lo |-> 0 .. 15, hi |-> {9, 12, 15, 22, 23} \cup 16 .. 19]
  OBVIOUS
<1>7. /\ gdt = [o \in Offset |-> gdt[o]]
      /\ \A o \in Offset : gdt[o] = CASE o = 8 -> x [] o = 16 -> y [] OTHER -> Blank
  <2>1. \A o \in Offset :
           gdt[o] = CASE o = 8  -> [lo |-> 0 .. 15, hi |-> {11, 12, 15, 22, 23} \cup 16 .. 19]
                      [] o = 16 -> [lo |-> 0 .. 15, hi |-> {9, 12, 15, 22, 23} \cup 16 .. 19]
                      [] OTHER  -> Blank
    BY Zenon DEF Init
  <2>2. gdt = [o \in Offset |-> gdt[o]]
    BY DEF Init
  <2> QED BY <1>5, <2>1, <2>2
<1>6. /\ make_seg_descriptor({}, Flat, Code0) \in Descriptor
      /\ make_seg_descriptor({}, Flat, Data0) \in Descriptor
      /\ Blank \in Descriptor
  <2>1. {} \in Dword
    BY DEF Dword
  <2> QED BY <2>1, DescriptorMade, Attributes DEF Blank, Descriptor, Dword
<1>8. x \in Descriptor /\ y \in Descriptor
  BY <1>2, <1>3, <1>5, <1>6
<1>9. \A o \in Offset : gdt[o] \in Descriptor
  BY <1>6, <1>7, <1>8
<1>10. gdt[8] = x /\ gdt[16] = y
  BY <1>4, <1>7
<1> QED BY <1>2, <1>3, <1>5, <1>7, <1>9, <1>10

LEMMA InitInvariant ==
    ASSUME TableAssumption, Init
    PROVE  IInv
<1>1. /\ pgdt = 23
      /\ ldt = [p \in Program |-> [o \in Offset |-> Blank]]
      /\ tcb = [p \in Program |-> [limit |-> TableBytes - 1, base |-> {},
                                   ldt |-> 0, tss |-> 0]]
      /\ ldtr = [of |-> None, limit |-> 0]
      /\ asked = {[in |-> None, sel |-> sel,
                   want |-> [gate |-> FALSE, base |-> {}, limit |-> Flat,
                             attr |-> IF sel = 8 THEN Code0 ELSE Data0]] : sel \in {8, 16}}
  BY DEF Init
<1>2. \A a \in asked :
         /\ a.in = None /\ a.sel \in {8, 16} /\ ~a.want.gate
         /\ a.want = [gate |-> FALSE, base |-> {}, limit |-> Flat,
                      attr |-> IF a.sel = 8 THEN Code0 ELSE Data0]
  <2> TAKE a \in asked
  <2>1. PICK sel \in {8, 16} :
           a = [in |-> None, sel |-> sel,
                want |-> [gate |-> FALSE, base |-> {}, limit |-> Flat,
                          attr |-> IF sel = 8 THEN Code0 ELSE Data0]]
    BY <1>1, Zenon
  <2>2. /\ a.in = None /\ a.sel = sel
        /\ a.want = [gate |-> FALSE, base |-> {}, limit |-> Flat,
                     attr |-> IF sel = 8 THEN Code0 ELSE Data0]
    BY <2>1, Zenon
  <2>3. ~a.want.gate
    <3>1. PICK at : at = IF sel = 8 THEN Code0 ELSE Data0
      OBVIOUS
    <3>2. a.want = [gate |-> FALSE, base |-> {}, limit |-> Flat, attr |-> at]
      BY <2>2, <3>1, Zenon
    <3> QED BY <3>2
  <2> QED BY <2>2, <2>3, Zenon
<1>3. TableBytes \in Nat /\ TableBytes >= 24 /\ Segments \in Nat
  BY Sizes
<1>4. Tables
  <2>1. Blank \in Descriptor
    BY DEF Blank, Descriptor, Dword
  <2> QED BY <1>1, <2>1, BootDescriptors DEF Tables
<1>5. Counted
  <2>1. Mounted = {} /\ WithLdt = {} /\ WithTss = {}
    BY <1>1, <1>2 DEF Mounted, WithLdt, WithTss
  <2> QED BY <1>1, <2>1, FS_EmptySet DEF Counted
<1>6. Tcbs
  <2>1. \A p \in Program : Filled(p) = 0
    BY <1>1, <1>3 DEF Filled
  <2>2. tcb \in [Program -> TcbOf(Selectors)]
    BY <1>1, <1>3 DEF TcbOf, Dword
  <2>3. \A p \in Program : tcb[p].ldt = 0 /\ tcb[p].tss = 0
    BY <1>1
  <2> QED BY <1>3, <2>1, <2>2, <2>3 DEF Tcbs
<1>7. InGdt
  <2> SUFFICES ASSUME NEW a \in asked
               PROVE  /\ a.sel \in Selectors
                      /\ Means(gdt[a.sel], a.want)
                      /\ \A p \in Program : a.sel # tcb[p].tss
    BY DEF InGdt
  <2>1. a.sel \in Selectors
    BY <1>1, <1>2 DEF Selectors
  <2>2. PICK at \in SegAttr : at = IF a.sel = 8 THEN Code0 ELSE Data0
    BY Attributes
  <2>3. Means(make_seg_descriptor({}, Flat, at),
              [gate |-> FALSE, base |-> {}, limit |-> Flat, attr |-> at])
    <3>1. {} \in Dword
      BY DEF Dword
    <3> QED BY <3>1, SegmentMeans, Attributes
  <2>4. gdt[a.sel] = make_seg_descriptor({}, Flat, at)
    BY <1>2, <2>2, BootDescriptors
  <2>5. a.want = [gate |-> FALSE, base |-> {}, limit |-> Flat, attr |-> at]
    BY <1>2, <2>2
  <2>6. \A p \in Program : a.sel # tcb[p].tss
    BY <1>1, <1>2
  <2> QED BY <2>1, <2>3, <2>4, <2>5, <2>6
<1>8. InLdt
  BY <1>2 DEF InLdt
<1>9. Ldtr
  BY <1>1 DEF Ldtr
<1> QED BY <1>4, <1>5, <1>6, <1>7, <1>8, <1>9 DEF IInv

LEMMA StepKeeps ==
    ASSUME TableAssumption, IInv, [Next]_vars
    PROVE  IInv'
<1>1. CASE \E entry \in Gates : MountGate(entry)
  BY <1>1, MountStep
<1>2. CASE \E p \in Program, base \in Bases : FillLdt(p, base)
  BY <1>2, FillStep
<1>3. CASE \E p \in Program, base \in Bases : RegisterLdt(p, base)
  BY <1>3, RegisterLdtStep
<1>4. CASE \E p \in Program, base \in Bases : RegisterTss(p, base)
  BY <1>4, RegisterTssStep
<1>5. CASE \E p \in Program : SwitchTo(p)
  BY <1>5, SwitchStep
<1>6. CASE \E n \in 0 .. (Segments - 1) : LoadSegment(8 * n + 4)
  BY <1>6, LoadSegmentStep
<1>7. CASE UNCHANGED vars
  <2>1. Selectors' = Selectors /\ \A p \in Program : Filled(p)' = Filled(p)
    BY <1>7 DEF vars, Selectors, Filled
  <2>2. Mounted' = Mounted /\ WithLdt' = WithLdt /\ WithTss' = WithTss
    BY <1>7 DEF vars, Mounted, WithLdt, WithTss
  <2>3. Tables' /\ Counted' /\ Ldtr'
    BY <1>7, <2>2 DEF vars, IInv, Tables, Counted, Ldtr
  <2>4. Tcbs'
    BY <1>7, <2>1 DEF vars, IInv, Tcbs
  <2>5. InGdt'
    BY <1>7, <2>1 DEF vars, IInv, InGdt
  <2>6. InLdt'
    BY <1>7, <2>1 DEF vars, IInv, InLdt
  <2> QED BY <2>3, <2>4, <2>5, <2>6 DEF IInv
<1> QED BY <1>1, <1>2, <1>3, <1>4, <1>5, <1>6, <1>7 DEF Next

LEMMA InvariantTyped ==
    ASSUME TableAssumption, IInv
    PROVE  TypeOK
<1>1. pgdt \in 0 .. TableBytes - 1
  BY LimitIs, Sizes DEF IInv
<1>2. \A s \in Selectors \cup {0} : s \in 0 .. TableBytes - 1
  BY LimitIs, Sizes DEF IInv, Selectors
<1>3. ASSUME NEW p \in Program
      PROVE  /\ tcb[p].limit \in 0 .. TableBytes - 1
             /\ tcb[p].ldt \in Selectors \cup {0} /\ tcb[p].tss \in Selectors \cup {0}
  <2>1. tcb[p] \in TcbOf(Selectors)
    BY DEF IInv, Tcbs
  <2> QED BY <2>1 DEF TcbOf
<1> QED BY <1>1, <1>2, <1>3 DEF IInv, Tables, Ldtr, TypeOK

LEMMA InvariantDecodes ==
    ASSUME TableAssumption, IInv
    PROVE  GdtSelectorsDecode /\ LdtSelectorsDecode
<1>1. GdtSelectorsDecode
  BY SelectorIs DEF IInv, InGdt, GdtSelectorsDecode
<1>2. ASSUME NEW a \in asked, a.in # None, a.in = ldtr.of
      PROVE  /\ Fetchable(a.sel, ldtr.limit)
             /\ Means(ldt[a.in][(a.sel \div 8) * 8], a.want)
  <2>1. /\ a.in \in Program
        /\ a.sel \in Nat /\ a.sel - 4 \in Nat
        /\ (a.sel - 4) % 8 = 0 /\ a.sel + 4 <= Filled(a.in)
        /\ Means(ldt[a.in][a.sel - 4], a.want)
    BY <1>2 DEF IInv, InLdt
  <2>2. (a.sel \div 8) * 8 = a.sel - 4
    BY <2>1
  <2>3. ldtr.limit = 8 * Segments - 1 /\ Filled(a.in) <= 8 * Segments
    BY <1>2, <2>1 DEF IInv, Ldtr, Tcbs
  <2>4. Filled(a.in) \in Nat
    <3>1. tcb[a.in] \in TcbOf(Selectors)
      BY <2>1 DEF IInv, Tcbs
    <3>2. tcb[a.in].limit \in 0 .. (TableBytes - 1)
      BY <3>1 DEF TcbOf
    <3> QED BY <3>2, Sizes DEF Filled
  <2>5. a.sel - 4 + 7 <= ldtr.limit
    BY <2>1, <2>3, <2>4, Sizes
  <2> QED BY <2>1, <2>2, <2>5 DEF Fetchable
<1> QED BY <1>1, <1>2 DEF LdtSelectorsDecode

(* Nothing the code does leaves the tables of descriptors, the limits that *)
(* 16 bits hold and the selectors of the TCBs.                             *)
THEOREM TypeCorrect ==
    ASSUME TableAssumption
    PROVE  Spec => []TypeOK
<1>1. Init => IInv
  BY InitInvariant
<1>2. IInv /\ [Next]_vars => IInv'
  BY StepKeeps
<1>3. IInv => TypeOK
  BY InvariantTyped
<1> QED BY <1>1, <1>2, <1>3, PTL DEF Spec

(* Of however many services and programs: every selector ever returned by  *)
(* set_up_gdt_descriptor, and those of a running program's LDT, are within *)
(* the limit the processor compares them with, and mean to it what was     *)
(* asked for.                                                              *)
THEOREM SelectorsAlwaysDecode ==
    ASSUME TableAssumption
    PROVE  Spec => [](GdtSelectorsDecode /\ LdtSelectorsDecode)
<1>1. Init => IInv
  BY InitInvariant
<1>2. IInv /\ [Next]_vars => IInv'
  BY StepKeeps
<1>3. IInv => GdtSelectorsDecode /\ LdtSelectorsDecode
  BY InvariantDecodes
<1> QED BY <1>1, <1>2, <1>3, PTL DEF Spec

=============================================================================
