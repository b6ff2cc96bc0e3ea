---------------------------- MODULE AtaDiskProofs ----------------------------
(***************************************************************************)
(* For bytes of any size and a disk of any size and geometry: the sectors  *)
(* a program asks for are the ones the disk reads or writes, whatever the  *)
(* registers held before.                                                  *)
(***************************************************************************)
EXTENDS AtaDisk, TLAPS

(* Quotient and remainder.                                                 *)
LEMMA Divide ==
    ASSUME NEW n \in Nat, NEW d \in Nat, d > 0
    PROVE  /\ n \div d \in Nat
           /\ n % d \in Nat
           /\ n % d < d
           /\ n = ((n \div d) * d) + (n % d)
<1>1. n \div d \in Nat
  BY SMT
<1>2. n % d \in Nat /\ n % d < d
  BY SMT
<1>3. n = ((n \div d) * d) + (n % d)
  BY SMT
<1> QED BY <1>1, <1>2, <1>3

(* There is only one quotient, and one remainder.                          *)
LEMMA Unique ==
    ASSUME NEW d \in Nat, d > 0, NEW q \in Nat, NEW r \in Nat, r < d
    PROVE  /\ ((q * d) + r) \div d = q
           /\ ((q * d) + r) % d = r
<1> DEFINE n == (q * d) + r
           p == n \div d
           s == n % d
<1>1. n \in Nat
  BY SMT
<1>2. p \in Nat /\ s \in Nat /\ s < d /\ n = (p * d) + s
  BY <1>1, Divide
<1>3. (p * d) + s = (q * d) + r
  BY <1>2
<1> HIDE DEF n, p, s
<1>4. ASSUME p < q PROVE FALSE
  <2>1. PICK k \in Nat : q = p + 1 + k
    <3>1. q - p - 1 \in Nat /\ q = p + 1 + (q - p - 1)
      BY <1>2, <1>4
    <3> QED BY <3>1
  <2>2. q * d = (p * d) + d + (k * d)
    BY <1>2, <2>1, SMT
  <2>3. k * d \in Nat /\ p * d \in Nat
    BY <1>2, SMT
  <2> QED BY <1>2, <1>3, <2>2, <2>3
<1>5. ASSUME q < p PROVE FALSE
  <2>1. PICK k \in Nat : p = q + 1 + k
    <3>1. p - q - 1 \in Nat /\ p = q + 1 + (p - q - 1)
      BY <1>2, <1>5
    <3> QED BY <3>1
  <2>2. p * d = (q * d) + d + (k * d)
    BY <1>2, <2>1, SMT
  <2>3. k * d \in Nat /\ q * d \in Nat
    BY <1>2, SMT
  <2> QED BY <1>2, <1>3, <2>2, <2>3
<1>6. p = q
  BY <1>2, <1>4, <1>5
<1>7. q * d \in Nat
  BY SMT
<1>8. s = r
  BY <1>2, <1>3, <1>6, <1>7
<1> QED BY <1>6, <1>8 DEF n, p, s

(* The numbers below a * d have quotients below a.                         *)
LEMMA QuotientBelow ==
    ASSUME NEW d \in Nat, d > 0, NEW a \in Nat, NEW n \in Nat, n < a * d
    PROVE  n \div d < a
<1> DEFINE q == n \div d
<1>1. q \in Nat /\ n % d \in Nat /\ n = (q * d) + (n % d)
  BY Divide
<1> HIDE DEF q
<1>2. ASSUME q >= a PROVE FALSE
  <2>1. PICK k \in Nat : q = a + k
    <3>1. q - a \in Nat /\ q = a + (q - a)
      BY <1>1, <1>2
    <3> QED BY <3>1
  <2>2. q * d = (a * d) + (k * d)
    BY <2>1, SMT
  <2>3. k * d \in Nat /\ a * d \in Nat
    BY SMT
  <2> QED BY <1>1, <2>2, <2>3
<1>3. q < a
  BY <1>1, <1>2
<1> QED BY <1>3 DEF q

LEMMA Small ==
    ASSUME NEW d \in Nat, NEW n \in Nat, n < d
    PROVE  n \div d = 0 /\ n % d = n
<1>1. d > 0 /\ n = (0 * d) + n
  BY SMT
<1> QED BY <1>1, Unique

(* A number in two digits stays below the product.                         *)
LEMMA Below ==
    ASSUME NEW d \in Nat, NEW a \in Nat, NEW q \in Nat, q < a,
           NEW r \in Nat, r < d
    PROVE  (q * d) + r \in Nat /\ (q * d) + r < a * d
<1>1. PICK k \in Nat : a = q + 1 + k
  <2>1. a - q - 1 \in Nat /\ a = q + 1 + (a - q - 1)
    BY SMT
  <2> QED BY <2>1
<1>2. a * d = (q * d) + d + (k * d)
  BY <1>1, SMT
<1>3. k * d \in Nat /\ q * d \in Nat
  BY <1>1, SMT
<1> QED BY <1>2, <1>3

LEMMA Products ==
    ASSUME SizesAssumption
    PROVE  /\ Base \in Nat /\ Base > 1 /\ HeadBase \in Nat /\ HeadBase > 0
           /\ Base * Base \in Nat /\ Base * Base > 0
           /\ Base24 \in Nat /\ Base24 > 0 /\ Base24 = (Base * Base) * Base
           /\ Base28 \in Nat /\ Base28 = HeadBase * Base24
           /\ Base24 * Base24 \in Nat
           /\ Spt \in Nat /\ Spt > 0 /\ Spt < Base
           /\ Heads \in Nat /\ Heads > 0 /\ Heads <= HeadBase
           /\ Cylinders \in Nat /\ Cylinders > 0 /\ Cylinders <= Base * Base
           /\ Cylinders * Heads * Spt \in Nat /\ Heads * Spt \in Nat
<1>1. /\ Base \in Nat /\ Base > 1 /\ HeadBase \in Nat /\ HeadBase > 0
      /\ Spt \in Nat /\ Spt > 0 /\ Spt < Base
      /\ Heads \in Nat /\ Heads > 0 /\ Heads <= HeadBase
  BY DEF SizesAssumption
<1>2. \A a, b \in Nat : a * b \in Nat /\ (a > 0 /\ b > 0 => a * b > 0)
  BY SMT
<1>3. Base * Base \in Nat /\ Base * Base > 0
  BY <1>1, <1>2
<1>4. Base24 \in Nat /\ Base24 > 0 /\ Base24 = (Base * Base) * Base
  BY <1>1, <1>2, <1>3 DEF Base24
<1>5. Base28 \in Nat /\ Base28 = HeadBase * Base24 /\ Base24 * Base24 \in Nat
  BY <1>1, <1>2, <1>4 DEF Base28
<1>6. Cylinders \in Nat /\ Cylinders > 0 /\ Cylinders <= Base * Base
  BY <1>3 DEF SizesAssumption
<1>7. Cylinders * Heads * Spt \in Nat /\ Heads * Spt \in Nat
  BY <1>1, <1>2, <1>6
<1> QED BY <1>1, <1>3, <1>4, <1>5, <1>6, <1>7

-----------------------------------------------------------------------------
(* Numbers in bytes.                                                       *)

LEMMA ThreeBytes ==
    ASSUME SizesAssumption, NEW n \in Nat
    PROVE  /\ Byte0(n) \in ByteValues /\ Byte1(n) \in ByteValues
           /\ Byte2(n) \in ByteValues
           /\ n \div Base24 \in Nat /\ n % Base24 \in Nat /\ n % Base24 < Base24
           /\ n = ((n \div Base24) * Base24) + (n % Base24)
           /\ Join(Join(Byte2(n), Byte1(n)), Byte0(n)) = n % Base24
<1> DEFINE p == n \div Base
           q == p \div Base
           r == q \div Base
           x == n % Base
           y == p % Base
           z == q % Base
<1>1. Base \in Nat /\ Base > 0 /\ Base * Base \in Nat /\ Base * Base > 0
      /\ Base24 \in Nat /\ Base24 > 0 /\ Base24 = (Base * Base) * Base
  BY Products
<1>2. p \in Nat /\ x \in Nat /\ x < Base /\ n = (p * Base) + x
  BY <1>1, Divide
<1>3. q \in Nat /\ y \in Nat /\ y < Base /\ p = (q * Base) + y
  BY <1>1, <1>2, Divide
<1>4. r \in Nat /\ z \in Nat /\ z < Base /\ q = (r * Base) + z
  BY <1>1, <1>3, Divide
<1> HIDE DEF p, q, r, x, y, z
<1>5. (y * Base) + x \in Nat /\ (y * Base) + x < Base * Base
  BY <1>1, <1>2, <1>3, Below
<1>6. n = (q * (Base * Base)) + ((y * Base) + x)
  BY <1>1, <1>2, <1>3, SMT
<1>7. n \div (Base * Base) = q
  BY <1>1, <1>3, <1>5, <1>6, Unique
<1>8. (z * Base) + y \in Nat /\ (z * Base) + y < Base * Base
  BY <1>1, <1>3, <1>4, Below
<1> DEFINE l == (((z * Base) + y) * Base) + x
<1>9. l \in Nat /\ l < Base24
  BY <1>1, <1>2, <1>8, Below
<1>10. n = (r * Base24) + l
  BY <1>1, <1>2, <1>3, <1>4, SMT
<1> HIDE DEF l
<1>11. n \div Base24 = r /\ n % Base24 = l
  BY <1>1, <1>4, <1>9, <1>10, Unique
<1>12. Byte0(n) = x /\ Byte1(n) = y /\ Byte2(n) = z
  BY <1>7 DEF Byte0, Byte1, Byte2, p, q, x, y, z
<1>13. Join(Join(z, y), x) = l
  BY DEF Join, l
<1> QED BY <1>1, <1>2, <1>3, <1>4, <1>9, <1>10, <1>11, <1>12, <1>13 DEF ByteValues

LEMMA TwoBytes ==
    ASSUME SizesAssumption, NEW n \in Nat, n < Base * Base
    PROVE  Join(Byte1(n), Byte0(n)) = n
<1> DEFINE p == n \div Base
<1>1. Base \in Nat /\ Base > 0
  BY Products
<1>2. p \in Nat /\ n % Base \in Nat /\ n = (p * Base) + (n % Base)
  BY <1>1, Divide
<1>3. p < Base
  BY <1>1, QuotientBelow
<1> HIDE DEF p
<1>4. p % Base = p
  BY <1>1, <1>2, <1>3, Small
<1>5. Byte1(n) = p /\ Byte0(n) = n % Base
  BY <1>4 DEF Byte1, Byte0, p
<1> QED BY <1>2, <1>5 DEF Join

-----------------------------------------------------------------------------
(* What each operation leaves in the registers.                            *)

LEMMA Registers ==
    ASSUME NEW c \in Controller
    PROVE  /\ c.sc \in Pair /\ c.sn \in Pair /\ c.cl \in Pair /\ c.ch \in Pair
           /\ c.head \in 0 .. HeadBase - 1 /\ c.lba \in BOOLEAN /\ c.ext \in BOOLEAN
           /\ c.left \in 0 .. Base * Base /\ c.drq \in BOOLEAN /\ c.err \in BOOLEAN
           /\ c.buffer \in Int
BY DEF Controller

LEMMA PutPair ==
    ASSUME NEW p \in Pair, NEW b \in ByteValues
    PROVE  Put(p, b) \in Pair /\ Put(p, b)[1] = b /\ Put(p, b)[2] = p[1]
BY DEF Pair, Put

LEMMA LowPair ==
    ASSUME NEW p \in Pair, NEW b \in ByteValues
    PROVE  SetLow(p, b) \in Pair /\ SetLow(p, b)[1] = b /\ SetLow(p, b)[2] = p[2]
BY DEF Pair, SetLow

LEMMA HighPair ==
    ASSUME NEW p \in Pair, NEW b \in ByteValues
    PROVE  SetHigh(p, b) \in Pair /\ SetHigh(p, b)[1] = p[1] /\ SetHigh(p, b)[2] = b
BY DEF Pair, SetHigh

Written(d, c, sectors, n) ==
    /\ d \in Controller
    /\ d.sc = Put(c.sc, sectors) /\ d.sn = Put(c.sn, Byte0(n))
    /\ d.cl = Put(c.cl, Byte1(n)) /\ d.ch = Put(c.ch, Byte2(n))

LEMMA PutFields ==
    ASSUME SizesAssumption, NEW c \in Controller, NEW sectors \in ByteValues, NEW n \in Nat,
           NEW d, d = PutCountAndAddress(c, sectors, n)
    PROVE  Written(d, c, sectors, n)
<1>1. /\ Byte0(n) \in ByteValues /\ Byte1(n) \in ByteValues /\ Byte2(n) \in ByteValues
  BY ThreeBytes
<1> DEFINE sc == Put(c.sc, sectors)
           sn == Put(c.sn, Byte0(n))
           cl == Put(c.cl, Byte1(n))
           ch == Put(c.ch, Byte2(n))
<1>2. sc \in Pair /\ sn \in Pair /\ cl \in Pair /\ ch \in Pair
  BY <1>1, Registers, PutPair
<1>3. d = [c EXCEPT !.sc = sc, !.sn = sn, !.cl = cl, !.ch = ch]
  BY DEF PutCountAndAddress
<1> HIDE DEF sc, sn, cl, ch
<1>4. /\ d \in Controller /\ d.sc = sc /\ d.sn = sn /\ d.cl = cl /\ d.ch = ch
  BY <1>2, <1>3 DEF Controller
<1> QED BY <1>4 DEF sc, sn, cl, ch, Written

LEMMA HeadFields ==
    ASSUME NEW c \in Controller, NEW head \in 0 .. HeadBase - 1, NEW lba \in BOOLEAN,
           NEW d, d = SetHead(c, head, lba)
    PROVE  /\ d \in Controller
           /\ d.sc = c.sc /\ d.sn = c.sn /\ d.cl = c.cl /\ d.ch = c.ch
           /\ d.head = head /\ d.lba = lba
BY DEF SetHead, Controller

LEMMA CommandFields ==
    ASSUME NEW c \in Controller, NEW ext \in BOOLEAN, NEW left \in 0 .. Base * Base,
           NEW drq \in BOOLEAN, NEW err \in BOOLEAN,
           NEW d, d = [c EXCEPT !.drq = drq, !.err = err, !.ext = ext, !.left = left]
    PROVE  /\ d \in Controller
           /\ d.sc = c.sc /\ d.sn = c.sn /\ d.cl = c.cl /\ d.ch = c.ch
           /\ d.head = c.head /\ d.lba = c.lba /\ d.ext = ext /\ d.left = left
           /\ d.drq = drq /\ d.err = err
BY DEF Controller

Untouched(d, c) ==
    /\ d.sc = c.sc /\ d.lba = c.lba /\ d.ext = c.ext /\ d.left = c.left
    /\ d.drq = c.drq /\ d.err = c.err /\ d.buffer = c.buffer

LEMMA LowFields ==
    ASSUME SizesAssumption, NEW c \in Controller, NEW n \in Nat, NEW d, d = SetLow24(c, n)
    PROVE  /\ d \in Controller
           /\ d.sn = SetLow(c.sn, Byte0(n)) /\ d.cl = SetLow(c.cl, Byte1(n))
           /\ d.ch = SetLow(c.ch, Byte2(n))
           /\ d.head = c.head /\ Untouched(d, c)
<1> DEFINE sn == SetLow(c.sn, Byte0(n))
           cl == SetLow(c.cl, Byte1(n))
           ch == SetLow(c.ch, Byte2(n))
<1>1. sn \in Pair /\ cl \in Pair /\ ch \in Pair
  BY ThreeBytes, Registers, LowPair
<1>2. d = [c EXCEPT !.sn = sn, !.cl = cl, !.ch = ch]
  BY DEF SetLow24
<1> HIDE DEF sn, cl, ch
<1>3. /\ d \in Controller /\ d.sn = sn /\ d.cl = cl /\ d.ch = ch
      /\ d.sc = c.sc /\ d.head = c.head /\ d.lba = c.lba /\ d.ext = c.ext
      /\ d.left = c.left /\ d.drq = c.drq /\ d.err = c.err /\ d.buffer = c.buffer
  BY <1>1, <1>2 DEF Controller
<1> QED BY <1>3 DEF sn, cl, ch, Untouched

LEMMA HighFields ==
    ASSUME SizesAssumption, NEW c \in Controller, NEW n \in Nat, NEW d, d = SetHigh24(c, n)
    PROVE  /\ d \in Controller
           /\ d.sn = SetHigh(c.sn, Byte0(n)) /\ d.cl = SetHigh(c.cl, Byte1(n))
           /\ d.ch = SetHigh(c.ch, Byte2(n))
           /\ d.head = c.head /\ Untouched(d, c)
<1> DEFINE sn == SetHigh(c.sn, Byte0(n))
           cl == SetHigh(c.cl, Byte1(n))
           ch == SetHigh(c.ch, Byte2(n))
<1>1. sn \in Pair /\ cl \in Pair /\ ch \in Pair
  BY ThreeBytes, Registers, HighPair
<1>2. d = [c EXCEPT !.sn = sn, !.cl = cl, !.ch = ch]
  BY DEF SetHigh24
<1> HIDE DEF sn, cl, ch
<1>3. /\ d \in Controller /\ d.sn = sn /\ d.cl = cl /\ d.ch = ch
      /\ d.sc = c.sc /\ d.head = c.head /\ d.lba = c.lba /\ d.ext = c.ext
      /\ d.left = c.left /\ d.drq = c.drq /\ d.err = c.err /\ d.buffer = c.buffer
  BY <1>1, <1>2 DEF Controller
<1> QED BY <1>3 DEF sn, cl, ch, Untouched

-----------------------------------------------------------------------------
(* Addresses.                                                              *)

(* What the disk makes of the first and of the second bytes.               *)
LEMMA LowBytes ==
    ASSUME SizesAssumption, NEW c, NEW n \in Nat, c.sn[1] = Byte0(n),
           c.cl[1] = Byte1(n), c.ch[1] = Byte2(n)
    PROVE  Low24(c) = n % Base24
BY ThreeBytes DEF Low24, Cylinder

LEMMA HighBytes ==
    ASSUME SizesAssumption, NEW c, NEW n \in Nat, c.sn[2] = Byte0(n),
           c.cl[2] = Byte1(n), c.ch[2] = Byte2(n)
    PROVE  High24(c) = n % Base24
BY ThreeBytes DEF High24

InGeometry(c) == c.sn[1] \in 1 .. Spt /\ c.head < Heads /\ Cylinder(c) < Cylinders

Limit(c) ==
    IF ~c.lba THEN Cylinders * Heads * Spt
    ELSE IF c.ext THEN Base24 * Base24 ELSE Base28

(* The registers name sector s, and the m sectors from it on can be named. *)
Ahead(c, s, m) ==
    Address(c) = s /\ s + m <= Limit(c) /\ (~c.lba => InGeometry(c))

LEMMA Ahead28 ==
    ASSUME SizesAssumption, NEW c \in Controller, NEW s \in Nat, NEW m \in Nat, s + m <= Base28,
           c.lba, ~c.ext, c.sn[1] = Byte0(s), c.cl[1] = Byte1(s), c.ch[1] = Byte2(s),
           c.head = s \div Base24
    PROVE  Ahead(c, s, m)
<1>1. Low24(c) = s % Base24
  BY LowBytes
<1>2. Address(c) = (c.head * Base24) + Low24(c)
  BY DEF Address
<1>3. Address(c) = s
  BY <1>1, <1>2, ThreeBytes
<1> QED BY <1>3 DEF Ahead, Limit

LEMMA Ahead48 ==
    ASSUME SizesAssumption, NEW c \in Controller, NEW s \in Nat, NEW m \in Nat,
           s + m <= Base24 * Base24, s < Base24 * Base24,
           c.lba, c.ext, c.sn[1] = Byte0(s % Base24), c.cl[1] = Byte1(s % Base24),
           c.ch[1] = Byte2(s % Base24), c.sn[2] = Byte0(s \div Base24),
           c.cl[2] = Byte1(s \div Base24), c.ch[2] = Byte2(s \div Base24)
    PROVE  Ahead(c, s, m)
<1> DEFINE q == s \div Base24
           r == s % Base24
<1>1. q \in Nat /\ r \in Nat /\ r < Base24 /\ s = (q * Base24) + r
  BY ThreeBytes
<1>2. q < Base24
  BY Products, QuotientBelow
<1>3. Base24 \in Nat
  BY Products
<1> HIDE DEF q, r
<1>4. Low24(c) = r % Base24
  BY <1>1, LowBytes DEF r
<1>5. High24(c) = q % Base24
  BY <1>1, HighBytes DEF q
<1>6. r % Base24 = r /\ q % Base24 = q
  BY <1>1, <1>2, <1>3, Small
<1>7. Address(c) = (High24(c) * Base24) + Low24(c)
  BY DEF Address
<1>8. Address(c) = s
  BY <1>1, <1>4, <1>5, <1>6, <1>7
<1> QED BY <1>8 DEF Ahead, Limit

(* Splitting the 24 bits off twice.                                        *)
LEMMA BytesOfLow ==
    ASSUME SizesAssumption, NEW n \in Nat
    PROVE  /\ Byte0(n % Base24) = Byte0(n) /\ Byte1(n % Base24) = Byte1(n)
           /\ Byte2(n % Base24) = Byte2(n)
<1> DEFINE l == n % Base24
           x == Byte0(n)
           y == Byte1(n)
           z == Byte2(n)
<1>1. /\ Base \in Nat /\ Base > 0 /\ Base * Base \in Nat /\ Base * Base > 0
      /\ Base24 = (Base * Base) * Base
  BY Products
<1>2. x \in ByteValues /\ y \in ByteValues /\ z \in ByteValues
      /\ l = (((z * Base) + y) * Base) + x
  BY ThreeBytes DEF Join
<1> HIDE DEF l, x, y, z
<1>3. x \in Nat /\ x < Base /\ y \in Nat /\ y < Base /\ z \in Nat /\ z < Base
  BY <1>1, <1>2 DEF ByteValues
<1>4. (z * Base) + y \in Nat /\ (y * Base) + x \in Nat /\ (y * Base) + x < Base * Base
  BY <1>1, <1>3, Below
<1>5. l \div Base = (z * Base) + y /\ l % Base = x
  BY <1>1, <1>2, <1>3, <1>4, Unique
<1>6. ((z * Base) + y) % Base = y
  BY <1>1, <1>3, Unique
<1>7. l = (z * (Base * Base)) + ((y * Base) + x)
  BY <1>1, <1>2, <1>3, SMT
<1>8. l \div (Base * Base) = z
  BY <1>1, <1>3, <1>4, <1>7, Unique
<1>9. z % Base = z
  BY <1>1, <1>3, Small
<1> QED BY <1>5, <1>6, <1>8, <1>9 DEF l, x, y, z, Byte0, Byte1, Byte2

LEMMA AheadChs ==
    ASSUME SizesAssumption, NEW c \in Controller, NEW s \in Nat, NEW m \in Nat, m > 0,
           s + m <= Cylinders * Heads * Spt, ~c.lba,
           NEW track \in Nat, track = s \div Spt,
           NEW cylinder \in Nat, cylinder = track \div Heads,
           c.sn[1] = (s % Spt) + 1, c.head = track % Heads,
           c.cl[1] = Byte0(cylinder), c.ch[1] = Byte1(cylinder)
    PROVE  Ahead(c, s, m) /\ cylinder < Base * Base
<1>1. /\ Spt \in Nat /\ Spt > 0 /\ Heads \in Nat /\ Heads > 0 /\ Cylinders \in Nat
      /\ Cylinders <= Base * Base /\ Cylinders * Heads * Spt \in Nat
  BY Products
<1>2. s % Spt \in Nat /\ s % Spt < Spt /\ s = (track * Spt) + (s % Spt)
  BY <1>1, Divide
<1>3. /\ track % Heads \in Nat /\ track % Heads < Heads
      /\ track = (cylinder * Heads) + (track % Heads)
  BY <1>1, Divide
<1>4. s < (Cylinders * Heads) * Spt /\ Cylinders * Heads \in Nat
  BY <1>1, SMT
<1>5. track < Cylinders * Heads
  BY <1>1, <1>4, QuotientBelow
<1>6. cylinder < Cylinders
  BY <1>1, <1>5, QuotientBelow
<1>7. cylinder < Base * Base
  BY <1>1, <1>6, Products
<1>8. Cylinder(c) = cylinder
  BY <1>7, TwoBytes DEF Cylinder
<1>9. c.sn[1] \in 1 .. Spt
  BY <1>1, <1>2
<1>10. InGeometry(c)
  BY <1>3, <1>6, <1>8, <1>9 DEF InGeometry
<1>11. Address(c) = (((cylinder * Heads) + (track % Heads)) * Spt) + ((s % Spt) + 1) - 1
  BY <1>8 DEF Address
<1>12. track * Spt \in Nat
  BY <1>1, SMT
<1>13. Address(c) = s
  BY <1>2, <1>3, <1>11, <1>12
<1> QED BY <1>7, <1>10, <1>13 DEF Ahead, Limit

-----------------------------------------------------------------------------
(* The next sector.                                                        *)

LEMMA SameLimit ==
    ASSUME NEW c, NEW d, Untouched(d, c)
    PROVE  Limit(d) = Limit(c)
BY DEF Untouched, Limit

LEMMA AddressType ==
    ASSUME SizesAssumption, NEW c \in Controller
    PROVE  Cylinder(c) \in Nat /\ Low24(c) \in Nat /\ High24(c) \in Nat
           /\ Address(c) \in Int
<1>1. /\ c.sn[1] \in Nat /\ c.cl[1] \in Nat /\ c.ch[1] \in Nat /\ c.sn[2] \in Nat
      /\ c.cl[2] \in Nat /\ c.ch[2] \in Nat /\ c.head \in Nat
  <2>1. \A p \in Pair : p[1] \in Nat /\ p[2] \in Nat
    BY DEF Pair, ByteValues
  <2> QED BY <2>1, Registers
<1>2. \A a, b \in Nat : Join(a, b) \in Nat
  BY Products DEF Join
<1>3. Cylinder(c) \in Nat
  BY <1>1, <1>2 DEF Cylinder
<1>4. Low24(c) \in Nat /\ High24(c) \in Nat
  BY <1>1, <1>2, <1>3 DEF Low24, High24
<1>5. \A a, b \in Nat : a * b \in Nat
  BY SMT
<1>6. /\ (Cylinder(c) * Heads) + c.head \in Nat
      /\ High24(c) * Base24 \in Nat /\ c.head * Base24 \in Nat
  BY <1>1, <1>3, <1>4, <1>5, Products
<1>7. (((Cylinder(c) * Heads) + c.head) * Spt) \in Nat
  BY <1>5, <1>6, Products
<1> QED BY <1>1, <1>3, <1>4, <1>6, <1>7 DEF Address

LEMMA LbaStep ==
    ASSUME SizesAssumption, NEW c \in Controller, NEW s \in Nat, NEW m \in Nat \ {0},
           Ahead(c, s, m), c.lba, NEW d, d = NextLba(c)
    PROVE  d \in Controller /\ Untouched(d, c) /\ (m > 1 => Ahead(d, s + 1, m - 1))
<1> DEFINE n == s + 1
           q == n \div Base24
<1>1. Address(c) + 1 = n /\ n \in Nat
  BY DEF Ahead
<1> HIDE DEF n
<1>0. PICK l : l = SetLow24(c, n)
  OBVIOUS
<1>2. /\ l \in Controller
      /\ l.sn = SetLow(c.sn, Byte0(n)) /\ l.cl = SetLow(c.cl, Byte1(n))
      /\ l.ch = SetLow(c.ch, Byte2(n))
      /\ l.head = c.head /\ Untouched(l, c)
  BY <1>0, <1>1, LowFields
<1>3. /\ Byte0(n) \in ByteValues /\ Byte1(n) \in ByteValues /\ Byte2(n) \in ByteValues
      /\ q \in Nat
  BY <1>1, ThreeBytes
<1>4. l.sn[1] = Byte0(n) /\ l.cl[1] = Byte1(n) /\ l.ch[1] = Byte2(n)
  <2>1. c.sn \in Pair /\ c.cl \in Pair /\ c.ch \in Pair
    BY Registers
  <2>2. SetLow(c.sn, Byte0(n))[1] = Byte0(n)
    BY <1>3, <2>1, LowPair
  <2>3. SetLow(c.cl, Byte1(n))[1] = Byte1(n)
    BY <1>3, <2>1, LowPair
  <2>4. SetLow(c.ch, Byte2(n))[1] = Byte2(n)
    BY <1>3, <2>1, LowPair
  <2> QED BY <1>2, <2>2, <2>3, <2>4
<1> HIDE DEF q
<1>5. CASE ~c.ext
  <2> DEFINE head == q % HeadBase
  <2>1. d = [l EXCEPT !.head = head]
    BY <1>0, <1>1, <1>5 DEF NextLba, q
  <2>2. head \in 0 .. HeadBase - 1
    BY <1>3, Products, Divide
  <2> HIDE DEF head
  <2>3. /\ d \in Controller /\ d.sn = l.sn /\ d.cl = l.cl /\ d.ch = l.ch
        /\ d.head = head /\ Untouched(d, l)
    BY <1>2, <2>1, <2>2 DEF Controller, Untouched
  <2>4. Untouched(d, c)
    BY <1>2, <2>3 DEF Untouched
  <2>5. ASSUME m > 1 PROVE Ahead(d, s + 1, m - 1)
    <3>1. s + m <= Base28
      BY <1>5 DEF Ahead, Limit
    <3>2. n < HeadBase * Base24 /\ n + (m - 1) <= Base28
      BY <2>5, <3>1, Products DEF n
    <3>3. q < HeadBase
      BY <1>1, <3>2, Products, QuotientBelow DEF q
    <3>4. head = q
      BY <1>3, <3>3, Products, Small DEF head
    <3>5. d.lba /\ ~d.ext
      BY <1>5, <2>4 DEF Untouched
    <3>6. d.head = n \div Base24
      BY <2>3, <3>4 DEF q
    <3>7. d.sn[1] = Byte0(n) /\ d.cl[1] = Byte1(n) /\ d.ch[1] = Byte2(n)
      BY <1>4, <2>3
    <3>8. Ahead(d, n, m - 1)
      BY <1>1, <2>3, <3>2, <3>5, <3>6, <3>7, Ahead28
    <3> QED BY <3>8 DEF n
  <2> QED BY <2>3, <2>4, <2>5
<1>6. CASE c.ext
  <2> DEFINE h == q % Base24
  <2>1. d = SetHigh24(l, h)
    BY <1>0, <1>1, <1>6 DEF NextLba, q
  <2>2. h \in Nat
    BY <1>3, Products, Divide
  <2> HIDE DEF h
  <2>3. /\ d \in Controller
        /\ d.sn = SetHigh(l.sn, Byte0(h)) /\ d.cl = SetHigh(l.cl, Byte1(h))
        /\ d.ch = SetHigh(l.ch, Byte2(h)) /\ Untouched(d, l)
    BY <1>2, <2>1, <2>2, HighFields
  <2>4. Untouched(d, c)
    BY <1>2, <2>3 DEF Untouched
  <2>5. /\ d.sn[1] = Byte0(n) /\ d.cl[1] = Byte1(n) /\ d.ch[1] = Byte2(n)
        /\ d.sn[2] = Byte0(h) /\ d.cl[2] = Byte1(h) /\ d.ch[2] = Byte2(h)
    <3>1. l.sn \in Pair /\ l.cl \in Pair /\ l.ch \in Pair
      BY <1>2, Registers
    <3>2. Byte0(h) \in ByteValues /\ Byte1(h) \in ByteValues /\ Byte2(h) \in ByteValues
      BY <2>2, ThreeBytes
    <3>3. SetHigh(l.sn, Byte0(h))[1] = l.sn[1] /\ SetHigh(l.sn, Byte0(h))[2] = Byte0(h)
      BY <3>1, <3>2, HighPair
    <3>4. SetHigh(l.cl, Byte1(h))[1] = l.cl[1] /\ SetHigh(l.cl, Byte1(h))[2] = Byte1(h)
      BY <3>1, <3>2, HighPair
    <3>5. SetHigh(l.ch, Byte2(h))[1] = l.ch[1] /\ SetHigh(l.ch, Byte2(h))[2] = Byte2(h)
      BY <3>1, <3>2, HighPair
    <3> QED BY <1>4, <2>3, <3>3, <3>4, <3>5
  <2>6. ASSUME m > 1 PROVE Ahead(d, s + 1, m - 1)
    <3>1. s + m <= Base24 * Base24
      BY <1>6 DEF Ahead, Limit
    <3>2. n < Base24 * Base24 /\ n + (m - 1) <= Base24 * Base24
      BY <2>6, <3>1, Products DEF n
    <3>3. q < Base24
      BY <1>1, <3>2, Products, QuotientBelow DEF q
    <3>4. h = n \div Base24
      BY <1>3, <3>3, Products, Small DEF h, q
    <3>5. d.lba /\ d.ext
      BY <1>6, <2>4 DEF Untouched
    <3>6. /\ Byte0(n % Base24) = Byte0(n) /\ Byte1(n % Base24) = Byte1(n)
          /\ Byte2(n % Base24) = Byte2(n)
      BY <1>1, BytesOfLow
    <3>7. Ahead(d, n, m - 1)
      BY <1>1, <2>3, <2>5, <3>2, <3>4, <3>5, <3>6, Ahead48
    <3> QED BY <3>7 DEF n
  <2> QED BY <2>3, <2>4, <2>6
<1>7. c.ext \in BOOLEAN
  BY Registers
<1> QED BY <1>5, <1>6, <1>7

LEMMA ChsStep ==
    ASSUME SizesAssumption, NEW c \in Controller, NEW s \in Nat, NEW m \in Nat \ {0},
           Ahead(c, s, m), ~c.lba, NEW d, d = NextChs(c)
    PROVE  d \in Controller /\ Untouched(d, c) /\ (m > 1 => Ahead(d, s + 1, m - 1))
<1> DEFINE y == Cylinder(c)
           h == c.head
           n == c.sn[1]
           track(z, k) == ((z * Heads) + k) * Spt
<1>1. /\ s + m <= Cylinders * Heads * Spt /\ InGeometry(c) /\ Address(c) = s
  BY DEF Ahead, Limit
<1>2. /\ n \in 1 .. Spt /\ h < Heads /\ y < Cylinders /\ h \in 0 .. HeadBase - 1
  BY <1>1, Registers DEF InGeometry
<1>3. /\ Spt \in Nat /\ Spt > 0 /\ Spt < Base /\ Base \in Nat /\ Heads \in Nat
      /\ Heads <= HeadBase /\ HeadBase \in Nat /\ Heads > 0
      /\ Cylinders \in Nat /\ Cylinders <= Base * Base /\ Base * Base \in Nat
  BY Products
<1>4. y \in Nat /\ h \in Nat
  BY <1>2, <1>3, AddressType
<1>5. s = track(y, h) + n - 1
  BY <1>1 DEF Address
<1>6. ASSUME NEW z \in Nat, NEW k \in Nat PROVE track(z, k) \in Nat
  <2>1. \A a, b \in Nat : a * b \in Nat
    BY SMT
  <2>2. z * Heads \in Nat
    BY <1>3, <2>1
  <2>3. (z * Heads) + k \in Nat
    BY <2>2
  <2> QED BY <1>3, <2>1, <2>3
<1>7. ~d.lba /\ InGeometry(d) /\ Address(d) = s + 1 /\ Untouched(d, c) /\ m > 1
      => Ahead(d, s + 1, m - 1)
  BY <1>1 DEF Ahead, Limit
<1>8. CASE n < Spt
  <2> DEFINE sn == SetLow(c.sn, n + 1)
  <2>1. d = [c EXCEPT !.sn = sn]
    BY <1>8 DEF NextChs
  <2>2. n + 1 \in ByteValues /\ c.sn \in Pair
    BY <1>2, <1>3, <1>8, Registers DEF ByteValues
  <2> HIDE DEF n
  <2>3. sn \in Pair /\ sn[1] = n + 1
    BY <2>2, LowPair
  <2> HIDE DEF sn
  <2>4. /\ d \in Controller /\ d.sn = sn /\ d.cl = c.cl /\ d.ch = c.ch /\ d.head = c.head
        /\ Untouched(d, c)
    BY <2>1, <2>3 DEF Controller, Untouched
  <2>5. Cylinder(d) = y
    BY <2>4 DEF Cylinder
  <2>6. ~d.lba
    BY <2>4 DEF Untouched
  <2>7. Address(d) = track(y, h) + (n + 1) - 1
    BY <2>3, <2>4, <2>5, <2>6 DEF Address
  <2>8. track(y, h) \in Nat
    BY <1>4, <1>6
  <2> HIDE DEF track
  <2>9. Address(d) = s + 1
    BY <1>2, <1>5, <2>7, <2>8
  <2>10. InGeometry(d)
    BY <1>2, <1>3, <1>8, <2>3, <2>4, <2>5 DEF InGeometry
  <2> QED BY <1>7, <2>4, <2>6, <2>9, <2>10
<1>9. CASE n = Spt /\ h + 1 < Heads
  <2> DEFINE sn == SetLow(c.sn, 1)
             g == h + 1
  <2>1. d = [c EXCEPT !.sn = sn, !.head = g]
    BY <1>3, <1>9 DEF NextChs
  <2>2. 1 \in ByteValues /\ c.sn \in Pair
    BY <1>2, <1>3, Registers DEF ByteValues
  <2>3. sn \in Pair /\ sn[1] = 1
    BY <2>2, LowPair
  <2>4. g \in 0 .. HeadBase - 1 /\ g < Heads /\ g \in Nat
    BY <1>3, <1>4, <1>9
  <2>5. track(y, g) = track(y, h) + Spt
    BY <1>3, <1>4, SMT
  <2> HIDE DEF sn, g
  <2>6. /\ d \in Controller /\ d.sn = sn /\ d.cl = c.cl /\ d.ch = c.ch /\ d.head = g
        /\ Untouched(d, c)
    BY <2>1, <2>3, <2>4 DEF Controller, Untouched
  <2>7. Cylinder(d) = y
    BY <2>6 DEF Cylinder
  <2>8. ~d.lba
    BY <2>6 DEF Untouched
  <2>9. Address(d) = track(y, g) + 1 - 1
    BY <2>3, <2>6, <2>7, <2>8 DEF Address
  <2>10. track(y, h) \in Nat
    BY <1>4, <1>6
  <2> HIDE DEF track
  <2>11. Address(d) = s + 1
    BY <1>3, <1>5, <1>9, <2>5, <2>9, <2>10
  <2>12. InGeometry(d)
    BY <1>2, <1>3, <2>3, <2>4, <2>6, <2>7 DEF InGeometry
  <2> QED BY <1>7, <2>6, <2>8, <2>11, <2>12
<1>10. CASE n = Spt /\ h + 1 = Heads
  <2> DEFINE z == IF y + 1 < Cylinders THEN y + 1 ELSE Cylinders - 1
             sn == SetLow(c.sn, 1)
             cl == SetLow(c.cl, Byte0(z))
             ch == SetLow(c.ch, Byte1(z))
  <2>1. d = [c EXCEPT !.sn = sn, !.head = 0, !.cl = cl, !.ch = ch]
    BY <1>2, <1>3, <1>4, <1>10 DEF NextChs
  <2>2. z \in Nat /\ z < Cylinders /\ z < Base * Base
    BY <1>2, <1>3, <1>4
  <2>3. 1 \in ByteValues /\ c.sn \in Pair /\ c.cl \in Pair /\ c.ch \in Pair
    BY <1>2, <1>3, Registers DEF ByteValues
  <2>4. m > 1 => z = y + 1
    <3>1. track(y, h) = (((y + 1) * Heads) * Spt) - Spt
      BY <1>3, <1>4, <1>10, SMT
    <3>2. ASSUME y + 1 = Cylinders PROVE s = (Cylinders * Heads * Spt) - 1
      <4>1. track(y, h) = (Cylinders * Heads * Spt) - Spt
        BY <3>1, <3>2
      <4>2. Cylinders * Heads * Spt \in Nat
        BY Products
      <4> HIDE DEF track
      <4> QED BY <1>3, <1>5, <1>10, <4>1, <4>2
    <3>3. Cylinders * Heads * Spt \in Nat
      BY Products
    <3>4. m > 1 => y + 1 # Cylinders
      BY <1>1, <3>2, <3>3
    <3> QED BY <1>2, <1>3, <1>4, <3>4
  <2> HIDE DEF z
  <2>5. Byte0(z) \in ByteValues /\ Byte1(z) \in ByteValues /\ Join(Byte1(z), Byte0(z)) = z
    BY <2>2, ThreeBytes, TwoBytes
  <2>6. sn \in Pair /\ sn[1] = 1
    BY <2>3, LowPair
  <2>7. cl \in Pair /\ cl[1] = Byte0(z)
    BY <2>3, <2>5, LowPair
  <2>8. ch \in Pair /\ ch[1] = Byte1(z)
    BY <2>3, <2>5, LowPair
  <2>9. 0 \in 0 .. HeadBase - 1
    BY <1>3
  <2> HIDE DEF sn, cl, ch
  <2>10. /\ d \in Controller /\ d.sn = sn /\ d.cl = cl /\ d.ch = ch /\ d.head = 0
         /\ Untouched(d, c)
    BY <2>1, <2>6, <2>7, <2>8, <2>9 DEF Controller, Untouched
  <2>11. Cylinder(d) = z
    BY <2>5, <2>7, <2>8, <2>10 DEF Cylinder
  <2>12. ~d.lba
    BY <2>10 DEF Untouched
  <2>13. Address(d) = track(z, 0) + 1 - 1
    BY <2>6, <2>10, <2>11, <2>12 DEF Address
  <2>14. track(y + 1, 0) = track(y, h) + Spt
    BY <1>3, <1>4, <1>10, SMT
  <2>15. track(y, h) \in Nat /\ track(z, 0) \in Nat
    BY <1>4, <1>6, <2>2
  <2> HIDE DEF track
  <2>16. m > 1 => Address(d) = s + 1
    BY <1>3, <1>5, <1>10, <2>4, <2>13, <2>14, <2>15
  <2>17. InGeometry(d)
    BY <1>3, <2>2, <2>6, <2>10, <2>11 DEF InGeometry
  <2> QED BY <1>7, <2>10, <2>12, <2>16, <2>17
<1> QED BY <1>2, <1>3, <1>4, <1>8, <1>9, <1>10

-----------------------------------------------------------------------------
(* One sector passes.  A controller that counts m sectors from sector s    *)
(* on:                                                                     *)
Counting(c, s, m) ==
    /\ c.left = m /\ c.sc[1] = m
    /\ m > 0 => Ahead(c, s, m)

LEMMA IncrementStep ==
    ASSUME SizesAssumption, NEW c \in Controller, NEW s \in Nat, NEW m \in 1 .. Base - 1,
           Counting(c, s, m), NEW d, d = IncrementAddress(c)
    PROVE  /\ d \in Controller /\ Counting(d, s + 1, m - 1)
           /\ d.drq = c.drq /\ d.err = c.err /\ d.buffer = c.buffer
<1>1. PICK e : e = IF c.lba THEN NextLba(c) ELSE NextChs(c)
  OBVIOUS
<1>2. m \in Nat \ {0} /\ Ahead(c, s, m) /\ c.left = m /\ c.sc[1] = m
  BY Products DEF Counting
<1>3. e \in Controller /\ Untouched(e, c) /\ (m > 1 => Ahead(e, s + 1, m - 1))
  <2>1. CASE c.lba
    BY <1>1, <1>2, <2>1, LbaStep
  <2>2. CASE ~c.lba
    BY <1>1, <1>2, <2>2, ChsStep
  <2> QED BY <2>1, <2>2
<1> DEFINE k == m - 1
           sc == SetLow(e.sc, k)
<1>4. e.left = m /\ e.sc = c.sc /\ e.sc \in Pair
  BY <1>2, <1>3, Registers DEF Untouched
<1>5. k \in ByteValues /\ k \in 0 .. Base * Base /\ k \in Nat /\ k < Base /\ Base \in Nat
  <2>1. k \in Nat /\ k < Base /\ Base \in Nat
    BY Products
  <2>2. Base <= Base * Base
    BY Products, SMT
  <2> QED BY <2>1, <2>2, Products DEF ByteValues
<1>6. k % Base = k
  BY <1>5, Small
<1>7. d = [e EXCEPT !.left = k, !.sc = sc]
  <2>1. (e.sc[1] - 1) % Base = k
    BY <1>2, <1>4, <1>6
  <2>2. d = [e EXCEPT !.left = @ - 1, !.sc = SetLow(@, (@[1] - 1) % Base)]
    BY <1>1, Zenon DEF IncrementAddress
  <2> HIDE DEF k
  <2>3. SetLow(e.sc, (e.sc[1] - 1) % Base) = SetLow(e.sc, k)
    BY <2>1
  <2>4. e.left - 1 = k
    BY <1>4 DEF k
  <2> QED BY <2>2, <2>3, <2>4
<1> HIDE DEF k
<1>8. sc \in Pair /\ sc[1] = k
  BY <1>4, <1>5, LowPair
<1> HIDE DEF sc
<1>9. /\ d \in Controller /\ d.left = k /\ d.sc = sc /\ d.sn = e.sn /\ d.cl = e.cl
      /\ d.ch = e.ch /\ d.head = e.head /\ d.lba = e.lba /\ d.ext = e.ext
      /\ d.drq = e.drq /\ d.err = e.err /\ d.buffer = e.buffer
  BY <1>3, <1>5, <1>7, <1>8 DEF Controller
<1>10. Cylinder(d) = Cylinder(e) /\ Low24(d) = Low24(e) /\ High24(d) = High24(e)
  BY <1>9 DEF Cylinder, Low24, High24
<1>11. Address(d) = Address(e) /\ Limit(d) = Limit(e) /\ (InGeometry(d) <=> InGeometry(e))
  BY <1>9, <1>10 DEF Address, Limit, InGeometry
<1>12. Ahead(e, s + 1, k) => Ahead(d, s + 1, k)
  BY <1>9, <1>11 DEF Ahead
<1>13. k > 0 => Ahead(d, s + 1, k)
  BY <1>2, <1>3, <1>12 DEF k
<1>14. Counting(d, s + 1, k)
  BY <1>8, <1>9, <1>13 DEF Counting
<1> QED BY <1>3, <1>9, <1>14 DEF k, Untouched

(* Fields a command sets that are not part of the address.                 *)
Flagged(c, drq, err, buffer) ==
    [c EXCEPT !.drq = drq, !.err = err, !.buffer = buffer]

LEMMA Flags ==
    ASSUME NEW c \in Controller, NEW drq \in BOOLEAN, NEW err \in BOOLEAN, NEW buffer \in Int,
           NEW s, NEW m, Counting(c, s, m),
           NEW d, d = Flagged(c, drq, err, buffer)
    PROVE  /\ d \in Controller /\ Counting(d, s, m) /\ Address(d) = Address(c)
           /\ d.drq = drq /\ d.err = err /\ d.buffer = buffer
<1>1. /\ d \in Controller /\ d.left = c.left /\ d.sc = c.sc /\ d.sn = c.sn /\ d.cl = c.cl
      /\ d.ch = c.ch /\ d.head = c.head /\ d.lba = c.lba /\ d.ext = c.ext
      /\ d.drq = drq /\ d.err = err /\ d.buffer = buffer
  BY DEF Controller, Flagged
<1>2. Cylinder(d) = Cylinder(c) /\ Low24(d) = Low24(c) /\ High24(d) = High24(c)
  BY <1>1 DEF Cylinder, Low24, High24
<1>3. Address(d) = Address(c) /\ Limit(d) = Limit(c) /\ (InGeometry(d) <=> InGeometry(c))
  BY <1>1, <1>2 DEF Address, Limit, InGeometry
<1>4. Ahead(c, s, m) => Ahead(d, s, m)
  BY <1>1, <1>3 DEF Ahead
<1> QED BY <1>1, <1>3, <1>4 DEF Counting

-----------------------------------------------------------------------------
(* The controller's answers.                                               *)

(* Good(s), with the bad sectors in b.                                     *)
Fine(s, b) == s \in Sector \ b

(* It has sector s ready, the first of m, or it cannot be read.            *)
Loaded(c, s, m, contents, b) ==
    /\ Fine(s, b) => /\ c.drq /\ ~c.err /\ c.buffer = contents[s]
                     /\ Counting(c, s + 1, m - 1)
    /\ ~Fine(s, b) => ~c.drq /\ c.err

(* It is at rest.                                                          *)
Rests(c) == ~c.drq /\ ~c.err /\ c.left = 0 /\ c.sc[1] = 0

(* It takes sector s, the first of m, or nothing more.                     *)
Takes(c, s, m) == ~c.err /\ (c.drq <=> m # 0) /\ Counting(c, s, m)

LEMMA AbortFields ==
    ASSUME NEW c \in Controller, NEW d, d = Abort(c)
    PROVE  d \in Controller /\ ~d.drq /\ d.err
BY DEF Abort, Controller

LEMMA LoadStep ==
    ASSUME SizesAssumption, image \in [Sector -> Int], NEW c \in Controller, NEW s \in Nat,
           NEW m \in 1 .. Base - 1, Counting(c, s, m), NEW d, d = Load(c)
    PROVE  d \in Controller /\ Loaded(d, s, m, image, bad)
<1>1. Address(c) = s
  BY Products DEF Counting, Ahead
<1>2. CASE Fine(s, bad)
  <2> DEFINE e == [c EXCEPT !.drq = TRUE, !.err = FALSE, !.buffer = image[s]]
  <2>1. d = IncrementAddress(e)
    BY <1>1, <1>2 DEF Load, Reachable, Fine
  <2>2. image[s] \in Int
    BY <1>2 DEF Fine
  <2>3. e \in Controller /\ Counting(e, s, m) /\ e.drq /\ ~e.err /\ e.buffer = image[s]
    <3>1. PICK f : f = e
      OBVIOUS
    <3>2. PICK yes \in BOOLEAN : yes
      OBVIOUS
    <3>3. PICK no \in BOOLEAN : ~no
      OBVIOUS
    <3>4. f = Flagged(c, yes, no, image[s])
      BY <3>1, <3>2, <3>3 DEF Flagged
    <3> HIDE DEF e
    <3>5. f \in Controller /\ Counting(f, s, m) /\ f.drq = yes /\ f.err = no
          /\ f.buffer = image[s]
      BY <2>2, <3>4, Flags
    <3> QED BY <3>1, <3>2, <3>3, <3>5
  <2> HIDE DEF e
  <2>4. /\ d \in Controller /\ Counting(d, s + 1, m - 1)
        /\ d.drq = e.drq /\ d.err = e.err /\ d.buffer = e.buffer
    BY <2>1, <2>3, IncrementStep
  <2> QED BY <1>2, <2>3, <2>4 DEF Loaded
<1>3. CASE ~Fine(s, bad)
  <2>1. d = Abort(c)
    BY <1>1, <1>3 DEF Load, Reachable, Fine
  <2> QED BY <1>3, <2>1, AbortFields DEF Loaded
<1> QED BY <1>2, <1>3

LEMMA AfterReadStep ==
    ASSUME SizesAssumption, image \in [Sector -> Int], NEW c \in Controller, NEW s \in Nat,
           NEW m \in 0 .. Base - 1, Counting(c, s, m), NEW d, d = AfterRead(c)
    PROVE  /\ d \in Controller
           /\ m = 0 => Rests(d)
           /\ m > 0 => Loaded(d, s, m, image, bad)
<1>1. c.left = m /\ c.sc[1] = m
  BY DEF Counting
<1>2. CASE m = 0
  <2>1. d = [c EXCEPT !.drq = FALSE, !.err = FALSE]
    BY <1>1, <1>2 DEF AfterRead
  <2>2. d \in Controller /\ ~d.drq /\ ~d.err /\ d.left = c.left /\ d.sc = c.sc
    BY <2>1 DEF Controller
  <2> QED BY <1>1, <1>2, <2>2 DEF Rests
<1>3. CASE m > 0
  <2>1. d = Load(c) /\ m \in 1 .. Base - 1
    BY <1>1, <1>3, Products DEF AfterRead
  <2> QED BY <1>3, <2>1, LoadStep
<1> QED BY <1>2, <1>3, Products

LEMMA AfterWriteStep ==
    ASSUME SizesAssumption, NEW c \in Controller, NEW s \in Nat,
           NEW m \in 1 .. Base - 1, Takes(c, s, m), NEW d, d = AfterWrite(c)
    PROVE  /\ d \in Controller
           /\ Fine(s, bad) => Takes(d, s + 1, m - 1)
           /\ ~Fine(s, bad) => ~d.drq /\ d.err
<1>1. Counting(c, s, m) /\ Address(c) = s
  BY Products DEF Takes, Counting, Ahead
<1>2. CASE Fine(s, bad)
  <2>1. PICK e : e = IncrementAddress(c)
    OBVIOUS
  <2>2. d = [e EXCEPT !.drq = e.left # 0, !.err = FALSE]
    BY <1>1, <1>2, <2>1 DEF AfterWrite, Reachable, Fine
  <2>3. e \in Controller /\ Counting(e, s + 1, m - 1)
    BY <1>1, <2>1, IncrementStep
  <2>4. PICK more \in BOOLEAN : more <=> e.left # 0
    OBVIOUS
  <2>5. PICK no \in BOOLEAN : ~no
    OBVIOUS
  <2>6. d = Flagged(e, more, no, e.buffer)
    BY <2>2, <2>3, <2>4, <2>5 DEF Controller, Flagged
  <2>7. /\ d \in Controller /\ Counting(d, s + 1, m - 1) /\ d.drq = more /\ d.err = no
    <3>1. e.buffer \in Int
      BY <2>3, Registers
    <3>2. PICK t : t = s + 1
      OBVIOUS
    <3>3. PICK k : k = m - 1
      OBVIOUS
    <3>4. Counting(e, t, k)
      BY <2>3, <3>2, <3>3
    <3>5. Counting(d, t, k) /\ d \in Controller /\ d.drq = more /\ d.err = no
      BY <2>3, <2>6, <3>1, <3>4, Flags
    <3> QED BY <3>2, <3>3, <3>5
  <2>8. e.left = m - 1
    BY <2>3 DEF Counting
  <2> QED BY <1>2, <2>4, <2>5, <2>7, <2>8 DEF Takes
<1>3. CASE ~Fine(s, bad)
  <2>1. d = Abort(c)
    BY <1>1, <1>3 DEF AfterWrite, Reachable, Fine
  <2> QED BY <1>3, <2>1, AbortFields
<1> QED BY <1>2, <1>3

-----------------------------------------------------------------------------
(* Commands.                                                               *)

Commanded(d, c, ext) ==
    /\ d \in Controller
    /\ d.sc = c.sc /\ d.sn = c.sn /\ d.cl = c.cl /\ d.ch = c.ch /\ d.head = c.head
    /\ d.lba = c.lba /\ d.ext = ext /\ d.left = Sectors(c, ext)

LEMMA SectorsType ==
    ASSUME SizesAssumption, NEW c \in Controller, NEW ext \in BOOLEAN
    PROVE  Sectors(c, ext) \in 0 .. Base * Base
<1>1. Base \in Nat /\ Base > 1 /\ Base * Base \in Nat /\ Base <= Base * Base
  <2>1. Base \in Nat /\ Base > 1 /\ Base * Base \in Nat
    BY Products
  <2> QED BY <2>1, SMT
<1> DEFINE low == c.sc[1]
           high == c.sc[2]
<1>2. low \in Nat /\ low < Base /\ high \in Nat /\ high < Base
  <2>1. \A p \in Pair : p[1] \in Nat /\ p[1] < Base /\ p[2] \in Nat /\ p[2] < Base
    BY <1>1 DEF Pair, ByteValues
  <2> QED BY <2>1, Registers
<1>3. Join(high, low) \in Nat /\ Join(high, low) < Base * Base
  BY <1>1, <1>2, Below DEF Join
<1> QED BY <1>1, <1>2, <1>3 DEF Sectors

LEMMA ReadCommanded ==
    ASSUME SizesAssumption, NEW c \in Controller, NEW ext \in BOOLEAN
    PROVE  \E d : Commanded(d, c, ext) /\ ReadCommand(c, ext) = Load(d)
<1>1. PICK k \in 0 .. Base * Base : k = Sectors(c, ext)
  BY SectorsType
<1>2. PICK no \in BOOLEAN : no = FALSE
  OBVIOUS
<1> DEFINE e == [c EXCEPT !.err = no]
           d == [e EXCEPT !.ext = ext, !.left = k]
<1>3. e \in Controller /\ e.sc = c.sc /\ e.sn = c.sn /\ e.cl = c.cl /\ e.ch = c.ch
      /\ e.head = c.head /\ e.lba = c.lba
  BY DEF Controller
<1>4. Sectors(e, ext) = k
  BY <1>1, <1>3 DEF Sectors
<1> HIDE DEF e
<1>5. d \in Controller /\ d.sc = e.sc /\ d.sn = e.sn /\ d.cl = e.cl /\ d.ch = e.ch
      /\ d.head = e.head /\ d.lba = e.lba /\ d.ext = ext /\ d.left = k
  BY <1>3 DEF Controller
<1>6. Transform(e, ext) = d
  BY <1>4 DEF Transform
<1> HIDE DEF d
<1>7. ReadCommand(c, ext) = Load(d)
  BY <1>2, <1>6 DEF ReadCommand, e
<1>8. Commanded(d, c, ext)
  BY <1>1, <1>3, <1>5 DEF Commanded
<1> QED BY <1>7, <1>8

LEMMA WriteCommanded ==
    ASSUME SizesAssumption, NEW c \in Controller, NEW ext \in BOOLEAN,
           NEW d, d = WriteCommand(c, ext)
    PROVE  Commanded(d, c, ext) /\ d.drq /\ ~d.err
<1>1. PICK k \in 0 .. Base * Base : k = Sectors(c, ext)
  BY SectorsType
<1>2. PICK no \in BOOLEAN : no = FALSE
  OBVIOUS
<1>3. PICK yes \in BOOLEAN : yes = TRUE
  OBVIOUS
<1> DEFINE e == [c EXCEPT !.err = no, !.drq = yes]
<1>4. e \in Controller /\ e.sc = c.sc /\ e.sn = c.sn /\ e.cl = c.cl /\ e.ch = c.ch
      /\ e.head = c.head /\ e.lba = c.lba /\ e.err = no /\ e.drq = yes
  BY DEF Controller
<1>5. Sectors(e, ext) = k
  BY <1>1, <1>4 DEF Sectors
<1>6. d = Transform(e, ext)
  BY <1>2, <1>3 DEF WriteCommand
<1> HIDE DEF e
<1>7. d = [e EXCEPT !.ext = ext, !.left = k]
  BY <1>5, <1>6 DEF Transform
<1>8. d \in Controller /\ d.sc = e.sc /\ d.sn = e.sn /\ d.cl = e.cl /\ d.ch = e.ch
      /\ d.head = e.head /\ d.lba = e.lba /\ d.ext = ext /\ d.left = k
      /\ d.err = e.err /\ d.drq = e.drq
  BY <1>4, <1>7 DEF Controller
<1> QED BY <1>1, <1>2, <1>3, <1>4, <1>8 DEF Commanded

(* What read_hard_disk_0 writes into the registers, whatever they held,    *)
(* names the sector it was asked for.                                      *)
THEOREM KernelAddress ==
    ASSUME SizesAssumption, ctl \in Controller, NEW s \in Nat, s < Base28,
           NEW c, c = KernelRegisters(s)
    PROVE  c \in Controller /\ \A d : Commanded(d, c, FALSE) => Counting(d, s, 1)
<1>1. PICK b : b = PutCountAndAddress(ctl, 1, s)
  OBVIOUS
<1>2. PICK head : head = s \div Base24
  OBVIOUS
<1>3. PICK yes \in BOOLEAN : yes = TRUE
  OBVIOUS
<1>4. c = SetHead(b, head, yes)
  BY <1>1, <1>2, <1>3 DEF KernelRegisters
<1>5. head \in 0 .. HeadBase - 1
  <2>1. head \in Nat
    BY <1>2, ThreeBytes
  <2>2. head < HeadBase
    BY <1>2, Products, QuotientBelow
  <2> QED BY <2>1, <2>2, Products
<1>6. 1 \in ByteValues
  BY Products DEF ByteValues
<1>7. Written(b, ctl, 1, s)
  BY <1>1, <1>6, PutFields
<1>8. b \in Controller
  BY <1>7 DEF Written
<1>9. /\ c \in Controller
      /\ c.sc = b.sc /\ c.sn = b.sn /\ c.cl = b.cl /\ c.ch = b.ch
      /\ c.head = head /\ c.lba = yes
  BY <1>4, <1>5, <1>8, HeadFields
<1>10. ASSUME NEW d, Commanded(d, c, FALSE)
       PROVE  Counting(d, s, 1)
  <2>1. d.sc[1] = 1 /\ d.sn[1] = Byte0(s) /\ d.cl[1] = Byte1(s) /\ d.ch[1] = Byte2(s)
    BY <1>7, <1>9, <1>10 DEF Commanded, Written, Put
  <2>2. d.lba /\ ~d.ext /\ d.head = s \div Base24 /\ d \in Controller
    BY <1>2, <1>3, <1>9, <1>10 DEF Commanded
  <2>3. s + 1 <= Base28
    BY Products
  <2>4. Ahead(d, s, 1)
    BY <2>1, <2>2, <2>3, Ahead28
  <2>5. d.left = 1
    BY <1>7, <1>9, <1>10 DEF Commanded, Written, Sectors, Put
  <2> QED BY <2>1, <2>4, <2>5 DEF Counting
<1> QED BY <1>9, <1>10

LEMMA SmallCount ==
    ASSUME SizesAssumption, NEW n \in 1 .. Base - 1
    PROVE  n \in ByteValues /\ n \in Nat /\ n % Base = n /\ n \div Base = 0 /\ 0 \in ByteValues
<1>1. Base \in Nat /\ n \in Nat /\ n < Base
  BY Products
<1> QED BY <1>1, Small DEF ByteValues

(* The firmware's 28-bit command, when it chooses it: the same, for every  *)
(* address and count; the head field is big enough.                        *)
THEOREM FirmwareAddress28 ==
    ASSUME SizesAssumption, ctl \in Controller, NEW s \in Nat, NEW n \in 1 .. Base - 1,
           ~Extended(n, s), NEW c, c = BiosRegisters(n, s)
    PROVE  c \in Controller /\ \A d : Commanded(d, c, FALSE) => Counting(d, s, n)
<1>1. PICK low : low = s % Base24
  OBVIOUS
<1>2. PICK b : b = PutCountAndAddress(ctl, n, low)
  OBVIOUS
<1>3. PICK head : head = s \div Base24
  OBVIOUS
<1>4. PICK yes \in BOOLEAN : yes = TRUE
  OBVIOUS
<1>5. low \in Nat /\ head \in Nat
  BY <1>1, <1>3, ThreeBytes
<1>6. n \in ByteValues /\ n % Base = n
  BY SmallCount
<1>7. s + n <= Base28 /\ s < Base28
  BY Products DEF Extended
<1>8. head < HeadBase
  BY <1>3, <1>7, Products, QuotientBelow
<1>9. head \in 0 .. HeadBase - 1 /\ head % HeadBase = head
  BY <1>5, <1>8, Products, Small
<1>10. c = SetHead(b, head, yes)
  BY <1>1, <1>2, <1>3, <1>4, <1>6, <1>9 DEF BiosRegisters
<1>0. Written(b, ctl, n, low)
  BY <1>2, <1>5, <1>6, PutFields
<1>11. /\ b \in Controller
       /\ b.sc = Put(ctl.sc, n) /\ b.sn = Put(ctl.sn, Byte0(low))
       /\ b.cl = Put(ctl.cl, Byte1(low)) /\ b.ch = Put(ctl.ch, Byte2(low))
  BY <1>0 DEF Written
<1>12. /\ c \in Controller
       /\ c.sc = b.sc /\ c.sn = b.sn /\ c.cl = b.cl /\ c.ch = b.ch
       /\ c.head = head /\ c.lba = yes
  BY <1>9, <1>10, <1>11, HeadFields
<1>13. Byte0(low) = Byte0(s) /\ Byte1(low) = Byte1(s) /\ Byte2(low) = Byte2(s)
  BY <1>1, BytesOfLow
<1>14. ASSUME NEW d, Commanded(d, c, FALSE)
       PROVE  Counting(d, s, n)
  <2>1. d.sc[1] = n /\ d.sn[1] = Byte0(s) /\ d.cl[1] = Byte1(s) /\ d.ch[1] = Byte2(s)
    BY <1>11, <1>12, <1>13, <1>14 DEF Commanded, Put
  <2>2. d.lba /\ ~d.ext /\ d.head = s \div Base24 /\ d \in Controller
    BY <1>3, <1>4, <1>12, <1>14 DEF Commanded
  <2>3. Ahead(d, s, n)
    BY <1>7, <2>1, <2>2, Ahead28
  <2>4. d.left = n
    BY <1>11, <1>12, <1>14 DEF Commanded, Sectors, Put
  <2> QED BY <2>1, <2>3, <2>4 DEF Counting
<1> QED BY <1>12, <1>14

LEMMA WrittenTwice ==
    ASSUME SizesAssumption, ctl \in Controller, NEW s \in Nat, NEW n \in 1 .. Base - 1,
           Extended(n, s), NEW low, low = s % Base24, NEW high, high = s \div Base24,
           NEW c, c = BiosRegisters(n, s)
    PROVE  /\ c \in Controller /\ c.lba
           /\ c.sc[1] = n /\ c.sn[1] = Byte0(low) /\ c.cl[1] = Byte1(low)
           /\ c.ch[1] = Byte2(low)
           /\ c.sc[2] = 0 /\ c.sn[2] = Byte0(high) /\ c.cl[2] = Byte1(high)
           /\ c.ch[2] = Byte2(high)
<1>1. PICK a : a = PutCountAndAddress(ctl, 0, high)
  OBVIOUS
<1>2. PICK b : b = PutCountAndAddress(a, n, low)
  OBVIOUS
<1>3. PICK yes \in BOOLEAN : yes = TRUE
  OBVIOUS
<1>4. n \in ByteValues /\ 0 \in ByteValues
  BY SmallCount
<1>5. n % Base = n /\ n \div Base = 0 /\ n \in Nat
  BY SmallCount
<1>6. low \in Nat /\ high \in Nat
  BY ThreeBytes
<1>7. c = SetHead(b, 0, yes)
  BY <1>1, <1>2, <1>3, <1>5 DEF BiosRegisters
<1>8. Written(a, ctl, 0, high)
  BY <1>1, <1>4, <1>6, PutFields
<1>9. a \in Controller
  BY <1>8 DEF Written
<1>10. Written(b, a, n, low) /\ b \in Controller
  <2>1. Written(b, a, n, low)
    BY <1>2, <1>4, <1>6, <1>9, PutFields
  <2> QED BY <2>1 DEF Written
<1>11. 0 \in 0 .. HeadBase - 1
  BY Products
<1>12. /\ c \in Controller
       /\ c.sc = b.sc /\ c.sn = b.sn /\ c.cl = b.cl /\ c.ch = b.ch /\ c.lba = yes
  BY <1>7, <1>10, <1>11, HeadFields
<1> QED BY <1>3, <1>8, <1>10, <1>12 DEF Put, Written

(* The 48-bit command, which writes every register twice, high byte first: *)
(* the same, for every address of six bytes.                               *)
THEOREM FirmwareAddress48 ==
    ASSUME SizesAssumption, ctl \in Controller, NEW s \in Nat, NEW n \in 1 .. Base - 1,
           s + n <= Base24 * Base24, Extended(n, s),
           NEW c, c = BiosRegisters(n, s)
    PROVE  c \in Controller /\ \A d : Commanded(d, c, TRUE) => Counting(d, s, n)
<1>1. PICK low : low = s % Base24
  OBVIOUS
<1>2. PICK high : high = s \div Base24
  OBVIOUS
<1>3. /\ c \in Controller /\ c.lba
      /\ c.sc[1] = n /\ c.sn[1] = Byte0(low) /\ c.cl[1] = Byte1(low) /\ c.ch[1] = Byte2(low)
      /\ c.sc[2] = 0 /\ c.sn[2] = Byte0(high) /\ c.cl[2] = Byte1(high) /\ c.ch[2] = Byte2(high)
  BY <1>1, <1>2, WrittenTwice
<1>4. n \in Nat /\ n > 0
  BY Products
<1>5. s < Base24 * Base24
  BY <1>4, Products
<1>6. Join(0, n) = n
  BY <1>4, Products DEF Join
<1>7. ASSUME NEW d, Commanded(d, c, TRUE)
      PROVE  Counting(d, s, n)
  <2>1. /\ d \in Controller /\ d.lba /\ d.ext
        /\ d.sc[1] = n /\ d.sn[1] = Byte0(low) /\ d.cl[1] = Byte1(low)
        /\ d.ch[1] = Byte2(low)
        /\ d.sn[2] = Byte0(high) /\ d.cl[2] = Byte1(high) /\ d.ch[2] = Byte2(high)
    BY <1>3, <1>7 DEF Commanded
  <2>2. Ahead(d, s, n)
    BY <1>1, <1>2, <1>4, <1>5, <2>1, Ahead48
  <2>3. d.left = n
    BY <1>3, <1>4, <1>6, <1>7 DEF Commanded, Sectors
  <2> QED BY <2>1, <2>2, <2>3 DEF Counting
<1> QED BY <1>3, <1>7

(* Cylinder, head and sector.                                              *)
THEOREM FirmwareAddressChs ==
    ASSUME SizesAssumption, ctl \in Controller, NEW s \in Nat, NEW n \in 1 .. Base - 1,
           s + n <= Cylinders * Heads * Spt,
           NEW c, c = ChsRegisters(n, s)
    PROVE  c \in Controller /\ \A d : Commanded(d, c, FALSE) => Counting(d, s, n)
<1>1. PICK track : track = s \div Spt
  OBVIOUS
<1>2. PICK cylinder : cylinder = track \div Heads
  OBVIOUS
<1>3. PICK no \in BOOLEAN : no = FALSE
  OBVIOUS
<1>4. /\ Spt \in Nat /\ Spt > 0 /\ Spt < Base /\ Base \in Nat /\ Heads \in Nat /\ Heads > 0
      /\ Heads <= HeadBase /\ HeadBase \in Nat
  BY Products
<1>5. track \in Nat /\ s % Spt \in Nat /\ s % Spt < Spt
  BY <1>1, <1>4, Divide
<1>6. cylinder \in Nat /\ track % Heads \in Nat /\ track % Heads < Heads
  BY <1>2, <1>4, <1>5, Divide
<1> DEFINE sc == Put(ctl.sc, n)
           sn == Put(ctl.sn, (s % Spt) + 1)
           cl == Put(ctl.cl, Byte0(cylinder))
           ch == Put(ctl.ch, Byte1(cylinder))
           b == [ctl EXCEPT !.sc = sc, !.sn = sn, !.cl = cl, !.ch = ch]
<1>7. c = SetHead(b, track % Heads, no)
  BY <1>1, <1>2, <1>3 DEF ChsRegisters
<1>8. /\ n \in ByteValues /\ (s % Spt) + 1 \in ByteValues
      /\ Byte0(cylinder) \in ByteValues /\ Byte1(cylinder) \in ByteValues
  <2>1. (s % Spt) + 1 \in ByteValues
    BY <1>4, <1>5 DEF ByteValues
  <2>2. Byte0(cylinder) \in ByteValues /\ Byte1(cylinder) \in ByteValues
    BY <1>6, ThreeBytes
  <2> QED BY <2>1, <2>2, SmallCount
<1>9. ctl.sc \in Pair /\ ctl.sn \in Pair /\ ctl.cl \in Pair /\ ctl.ch \in Pair
  BY Registers
<1>10. sc \in Pair /\ sc[1] = n
  BY <1>8, <1>9, PutPair
<1>11. sn \in Pair /\ sn[1] = (s % Spt) + 1
  BY <1>8, <1>9, PutPair
<1>12. cl \in Pair /\ cl[1] = Byte0(cylinder)
  BY <1>8, <1>9, PutPair
<1>13. ch \in Pair /\ ch[1] = Byte1(cylinder)
  BY <1>8, <1>9, PutPair
<1> HIDE DEF sc, sn, cl, ch
<1>14. b \in Controller /\ b.sc = sc /\ b.sn = sn /\ b.cl = cl /\ b.ch = ch
  BY <1>10, <1>11, <1>12, <1>13 DEF Controller
<1>15. track % Heads \in 0 .. HeadBase - 1
  BY <1>4, <1>6
<1> HIDE DEF b
<1>16. /\ c \in Controller
       /\ c.sc = sc /\ c.sn = sn /\ c.cl = cl /\ c.ch = ch
       /\ c.head = track % Heads /\ c.lba = no
  BY <1>7, <1>14, <1>15, HeadFields
<1>17. n \in Nat /\ n > 0
  BY <1>4
<1>18. ASSUME NEW d, Commanded(d, c, FALSE)
       PROVE  Counting(d, s, n)
  <2>1. /\ d \in Controller /\ ~d.lba /\ d.sc[1] = n /\ d.sn[1] = (s % Spt) + 1
        /\ d.cl[1] = Byte0(cylinder) /\ d.ch[1] = Byte1(cylinder) /\ d.head = track % Heads
    BY <1>3, <1>10, <1>11, <1>12, <1>13, <1>16, <1>18 DEF Commanded
  <2>2. Ahead(d, s, n)
    BY <1>1, <1>2, <1>5, <1>6, <1>17, <2>1, AheadChs
  <2>3. d.left = n
    BY <1>10, <1>16, <1>17, <1>18 DEF Commanded, Sectors
  <2> QED BY <2>1, <2>2, <2>3 DEF Counting
<1> QED BY <1>16, <1>18

-----------------------------------------------------------------------------
(* The inductive invariant.                                                *)

Places == {"idle", "kernel_wait", "kernel_data", "bios_wait", "bios_data", "bios_status"}

Contents == [Sector -> Int]

Types ==
    /\ image \in Contents /\ before \in Contents
    /\ ctl \in Controller /\ pc \in Places
    /\ request \in Requests /\ memory \in Seq(Int)
    /\ current \in ByteValues /\ count \in 0 .. (Base * Base) - 1
    /\ result \in {0, 2, 3, 4, 5, 6, 7}

GoodTo(r, k, b) == \A i \in 1 .. k : Fine(r.lba + i - 1, b)

(* Where a request stands after k of its sectors.                          *)
At(place, r, k, n) ==
    /\ k \in 0 .. r.count /\ n = r.count - k
    /\ r.by = "kernel" <=> place \in {"kernel_wait", "kernel_data"}
    /\ place \in {"kernel_wait", "kernel_data", "bios_wait"} => k = 0
    /\ place = "bios_status" => k > 0

(* What the disk has to say then.  That an unreadable sector is written is *)
(* only found when it has been handed over.                                *)
ReadingAt(c, r, k, contents, b) ==
    /\ GoodTo(r, k, b)
    /\ k = r.count => Rests(c)
    /\ k < r.count => Loaded(c, r.lba + k, r.count - k, contents, b)

WritingAt(c, r, k, b) ==
    /\ GoodTo(r, k - 1, b)
    /\ k = 0 \/ Fine(r.lba + k - 1, b) => Takes(c, r.lba + k, r.count - k)
    /\ k > 0 /\ ~Fine(r.lba + k - 1, b) => ~c.drq /\ c.err

Served(place, c, r, k, n, contents, b) ==
    /\ At(place, r, k, n)
    /\ place \in {"kernel_data", "bios_data"} => c.drq /\ ~c.err
    /\ r.by \notin Writing => ReadingAt(c, r, k, contents, b)
    /\ r.by \in Writing => WritingAt(c, r, k, b)

Service == pc # "idle" => Served(pc, ctl, request, Len(memory), count, image, bad)

IInv ==
    /\ Types
    /\ ReadsWhatWasAsked /\ WritesWhatWasAsked
    /\ ResultIsTrue /\ AtRest
    /\ Service

-----------------------------------------------------------------------------
(* A request is made.                                                      *)

LEMMA RequestFacts ==
    ASSUME SizesAssumption, NEW r \in Requests
    PROVE  /\ r.lba \in Nat /\ r.count \in 1 .. Base - 1 /\ r.count \in Nat /\ r.count > 0
           /\ r.by \in By /\ Expressible(r)
<1>1. r.lba \in Nat /\ r.by \in By /\ Expressible(r)
  BY DEF SizesAssumption
<1>2. r.count \in 1 .. Base - 1
  BY <1>1 DEF Expressible
<1> QED BY <1>1, <1>2, Products

LEMMA FirmwareRegisters ==
    ASSUME SizesAssumption, ctl \in Controller, NEW r \in Requests, r.by # "kernel",
           NEW ext, ext = (r.by \notin Chs /\ Extended(r.count, r.lba)),
           NEW c, c = IF r.by \in Chs THEN ChsRegisters(r.count, r.lba)
                      ELSE BiosRegisters(r.count, r.lba)
    PROVE  /\ ext \in BOOLEAN /\ c \in Controller
           /\ \A d : Commanded(d, c, ext) => Counting(d, r.lba, r.count)
<1>1. r.lba \in Nat /\ r.count \in 1 .. Base - 1 /\ r.by \in By /\ Expressible(r)
  BY RequestFacts
<1>2. CASE r.by \in Chs
  <2>1. r.lba + r.count <= Cylinders * Heads * Spt
    BY <1>1, <1>2 DEF Expressible
  <2>2. ext = FALSE /\ c = ChsRegisters(r.count, r.lba)
    BY <1>2
  <2> QED BY <1>1, <2>1, <2>2, FirmwareAddressChs
<1>3. CASE r.by \notin Chs /\ ~Extended(r.count, r.lba)
  <2>1. ext = FALSE /\ c = BiosRegisters(r.count, r.lba)
    BY <1>3
  <2> QED BY <1>1, <1>3, <2>1, FirmwareAddress28
<1>4. CASE r.by \notin Chs /\ Extended(r.count, r.lba)
  <2>1. r.by \in {"bios_read", "bios_write"}
    BY <1>1, <1>4 DEF By, Chs
  <2>2. r.lba + r.count <= Base24 * Base24
    BY <1>1, <2>1 DEF Expressible
  <2>3. ext = TRUE /\ c = BiosRegisters(r.count, r.lba)
    BY <1>4
  <2> QED BY <1>1, <1>4, <2>2, <2>3, FirmwareAddress48
<1> QED BY <1>2, <1>3, <1>4

LEMMA AskKeeps ==
    ASSUME SizesAssumption, Types, NEW r \in Requests, Ask(r)
    PROVE  /\ request' = r /\ memory' = << >> /\ Len(memory') = 0 /\ memory' \in Seq(Int)
           /\ image' = image /\ bad' = bad /\ current' \in ByteValues /\ result' = 0
           /\ image' \in Contents /\ before' \in Contents /\ request' \in Requests
           /\ ReadsWhatWasAsked' /\ WritesWhatWasAsked'
<1>1. /\ request' = r /\ memory' = << >> /\ image' = image /\ bad' = bad
      /\ before' = image /\ current' = 0 /\ result' = 0
  BY DEF Ask
<1>2. 0 \in ByteValues
  BY Products DEF ByteValues
<1>3. Len(memory') = 0 /\ memory' \in Seq(Int)
  BY <1>1
<1>4. ReadsWhatWasAsked'
  BY <1>1, <1>3 DEF ReadsWhatWasAsked
<1>5. WritesWhatWasAsked'
  BY <1>1 DEF WritesWhatWasAsked
<1> QED BY <1>1, <1>2, <1>3, <1>4, <1>5 DEF Types

LEMMA NothingGood ==
    ASSUME NEW r
    PROVE  GoodTo(r, 0, bad)
BY DEF GoodTo

LEMMA KernelCommandKeeps ==
    ASSUME SizesAssumption, IInv, KernelCommand
    PROVE  IInv'
<1>1. PICK r \in Requests :
         /\ r.by = "kernel" /\ Ask(r)
         /\ ctl' = ReadCommand(KernelRegisters(r.lba), FALSE)
         /\ pc' = "kernel_wait" /\ count' = 1
  BY DEF KernelCommand
<1>2. Types
  BY DEF IInv
<1>3. r.lba \in Nat /\ r.count = 1 /\ r.lba < Base28
  BY <1>1, RequestFacts DEF Expressible
<1>4. PICK c : c = KernelRegisters(r.lba)
  OBVIOUS
<1>5. c \in Controller /\ \A d : Commanded(d, c, FALSE) => Counting(d, r.lba, 1)
  BY <1>2, <1>3, <1>4, KernelAddress DEF Types
<1>6. PICK d : Commanded(d, c, FALSE) /\ ReadCommand(c, FALSE) = Load(d)
  BY <1>5, ReadCommanded
<1>7. ctl' = Load(d) /\ d \in Controller /\ Counting(d, r.lba, 1)
  BY <1>1, <1>4, <1>5, <1>6 DEF Commanded
<1>8. ctl' \in Controller /\ Loaded(ctl', r.lba, 1, image, bad)
  <2>1. PICK one \in 1 .. Base - 1 : one = 1
    BY Products
  <2>2. image \in [Sector -> Int] /\ Counting(d, r.lba, one)
    BY <1>2, <1>7, <2>1 DEF Types, Contents
  <2> QED BY <1>3, <1>7, <2>1, <2>2, LoadStep
<1>9. /\ request' = r /\ Len(memory') = 0 /\ memory' \in Seq(Int)
      /\ image' = image /\ bad' = bad /\ current' \in ByteValues /\ result' = 0
      /\ image' \in Contents /\ before' \in Contents /\ request' \in Requests
      /\ ReadsWhatWasAsked' /\ WritesWhatWasAsked'
  BY <1>1, <1>2, AskKeeps
<1>10. Types'
  <2>1. 1 \in 0 .. (Base * Base) - 1
    BY Products, SMT
  <2> QED BY <1>1, <1>8, <1>9, <2>1 DEF Types, Places
<1>11. Served("kernel_wait", ctl', r, 0, 1, image, bad)
  <2>1. At("kernel_wait", r, 0, 1)
    BY <1>1, <1>3 DEF At
  <2>2. r.by \notin Writing
    BY <1>1 DEF Writing
  <2>3. r.lba + 0 = r.lba /\ r.count - 0 = 1
    BY <1>3
  <2>4. ReadingAt(ctl', r, 0, image, bad)
    BY <1>3, <1>8, <2>3, NothingGood DEF ReadingAt
  <2> QED BY <2>1, <2>2, <2>4 DEF Served
<1>12. Service'
  BY <1>1, <1>9, <1>11 DEF Service, Served
<1>13. ResultIsTrue' /\ AtRest'
  BY <1>1 DEF ResultIsTrue, AtRest
<1> QED BY <1>9, <1>10, <1>12, <1>13 DEF IInv

LEMMA BiosCommandKeeps ==
    ASSUME SizesAssumption, IInv, BiosCommand
    PROVE  IInv'
<1>0. PICK r \in Requests :
         LET ext == r.by \notin Chs /\ Extended(r.count, r.lba)
             c == IF r.by \in Chs THEN ChsRegisters(r.count, r.lba)
                  ELSE BiosRegisters(r.count, r.lba)
         IN  /\ r.by # "kernel" /\ Ask(r)
             /\ ctl' = IF r.by \in Writing THEN WriteCommand(c, ext)
                       ELSE ReadCommand(c, ext)
             /\ count' = IF ext THEN r.count % Base ELSE r.count
             /\ pc' = "bios_wait"
  BY DEF BiosCommand
<1>1. PICK ext, c :
         /\ r.by # "kernel" /\ Ask(r)
         /\ ext = (r.by \notin Chs /\ Extended(r.count, r.lba))
         /\ c = IF r.by \in Chs THEN ChsRegisters(r.count, r.lba)
                ELSE BiosRegisters(r.count, r.lba)
         /\ ctl' = IF r.by \in Writing THEN WriteCommand(c, ext) ELSE ReadCommand(c, ext)
         /\ count' = IF ext THEN r.count % Base ELSE r.count
         /\ pc' = "bios_wait"
  BY <1>0, Zenon
<1>2. Types
  BY DEF IInv
<1>3. r.lba \in Nat /\ r.count \in 1 .. Base - 1 /\ r.count \in Nat /\ r.count > 0
  BY RequestFacts
<1>4. /\ ext \in BOOLEAN /\ c \in Controller
      /\ \A d : Commanded(d, c, ext) => Counting(d, r.lba, r.count)
  BY <1>1, <1>2, FirmwareRegisters DEF Types
<1>5. count' = r.count /\ count' \in 0 .. (Base * Base) - 1
  <2>1. r.count % Base = r.count
    BY <1>3, SmallCount
  <2>2. Base \in Nat /\ r.count < Base
    BY <1>3, Products
  <2>3. Base <= Base * Base /\ Base * Base \in Nat
    BY <2>2, SMT
  <2> QED BY <1>1, <1>3, <2>1, <2>2, <2>3
<1>6. /\ request' = r /\ Len(memory') = 0 /\ memory' \in Seq(Int)
      /\ image' = image /\ bad' = bad /\ current' \in ByteValues /\ result' = 0
      /\ image' \in Contents /\ before' \in Contents /\ request' \in Requests
      /\ ReadsWhatWasAsked' /\ WritesWhatWasAsked'
  BY <1>1, <1>2, AskKeeps
<1>7. At("bios_wait", r, 0, r.count)
  BY <1>1, <1>3 DEF At
<1>8. ASSUME r.by \notin Writing
      PROVE  ctl' \in Controller /\ Served("bios_wait", ctl', r, 0, r.count, image, bad)
  <2>1. PICK d : Commanded(d, c, ext) /\ ReadCommand(c, ext) = Load(d)
    BY <1>4, ReadCommanded
  <2>2. ctl' = Load(d) /\ d \in Controller /\ Counting(d, r.lba, r.count)
    BY <1>1, <1>4, <1>8, <2>1 DEF Commanded
  <2>3. ctl' \in Controller /\ Loaded(ctl', r.lba, r.count, image, bad)
    <3>1. image \in [Sector -> Int]
      BY <1>2 DEF Types, Contents
    <3> QED BY <1>3, <2>2, <3>1, LoadStep
  <2>4. r.lba + 0 = r.lba /\ r.count - 0 = r.count
    BY <1>3
  <2>5. ReadingAt(ctl', r, 0, image, bad)
    BY <1>3, <2>3, <2>4, NothingGood DEF ReadingAt
  <2> QED BY <1>7, <1>8, <2>3, <2>5 DEF Served
<1>9. ASSUME r.by \in Writing
      PROVE  ctl' \in Controller /\ Served("bios_wait", ctl', r, 0, r.count, image, bad)
  <2>1. Commanded(ctl', c, ext) /\ ctl'.drq /\ ~ctl'.err
    BY <1>1, <1>4, <1>9, WriteCommanded
  <2>2. ctl' \in Controller /\ Counting(ctl', r.lba, r.count)
    BY <1>4, <2>1 DEF Commanded
  <2>3. Takes(ctl', r.lba, r.count)
    BY <1>3, <2>1, <2>2 DEF Takes
  <2>4. r.lba + 0 = r.lba /\ r.count - 0 = r.count
    BY <1>3
  <2>5. GoodTo(r, 0 - 1, bad)
    BY DEF GoodTo
  <2>6. WritingAt(ctl', r, 0, bad)
    BY <2>3, <2>4, <2>5 DEF WritingAt
  <2> QED BY <1>7, <1>9, <2>2, <2>6 DEF Served
<1>10. ctl' \in Controller /\ Served("bios_wait", ctl', r, 0, r.count, image, bad)
  BY <1>8, <1>9
<1>11. Service'
  BY <1>1, <1>5, <1>6, <1>10 DEF Service
<1>12. Types'
  BY <1>1, <1>5, <1>6, <1>10 DEF Types, Places
<1>13. ResultIsTrue' /\ AtRest'
  BY <1>1 DEF ResultIsTrue, AtRest
<1> QED BY <1>6, <1>11, <1>12, <1>13 DEF IInv

-----------------------------------------------------------------------------
(* The program goes on.                                                    *)

(* What is known of a request under way, by name.                          *)
LEMMA UnderWay ==
    ASSUME SizesAssumption, IInv, pc # "idle"
    PROVE  \E r \in Requests, k \in Nat, n \in Nat, s \in Nat :
             /\ r = request /\ k = Len(memory) /\ n = r.count - k /\ s = r.lba + k
             /\ count = n /\ k <= r.count /\ r.lba \in Nat
             /\ r.count \in 1 .. Base - 1 /\ r.count \in Nat /\ Base \in Nat /\ n < Base
             /\ At(pc, r, k, n)
             /\ pc \in {"kernel_data", "bios_data"} => ctl.drq /\ ~ctl.err
             /\ r.by \notin Writing => ReadingAt(ctl, r, k, image, bad)
             /\ r.by \in Writing => WritingAt(ctl, r, k, bad)
<1>1. PICK r \in Requests : r = request
  BY DEF IInv, Types
<1>2. Served(pc, ctl, r, Len(memory), count, image, bad)
  BY <1>1 DEF IInv, Service
<1>3. PICK k \in Nat : k = Len(memory)
  BY DEF IInv, Types
<1>4. r.lba \in Nat /\ r.count \in 1 .. Base - 1 /\ r.count \in Nat
  BY RequestFacts
<1>5. k <= r.count /\ count = r.count - k
  BY <1>2, <1>3, <1>4 DEF Served, At
<1>6. PICK n \in Nat : n = r.count - k
  BY <1>4, <1>5
<1>7. PICK s \in Nat : s = r.lba + k
  BY <1>4
<1>8. Base \in Nat /\ n < Base
  BY <1>4, <1>6, Products
<1>9. /\ At(pc, r, k, n)
      /\ pc \in {"kernel_data", "bios_data"} => ctl.drq /\ ~ctl.err
      /\ r.by \notin Writing => ReadingAt(ctl, r, k, image, bad)
      /\ r.by \in Writing => WritingAt(ctl, r, k, bad)
  BY <1>2, <1>3, <1>5, <1>6 DEF Served
<1> QED BY <1>1, <1>3, <1>4, <1>5, <1>6, <1>7, <1>8, <1>9

Fixed == UNCHANGED <<image, bad, memory, request, before>>

LEMMA FixedContents ==
    ASSUME ReadsWhatWasAsked, WritesWhatWasAsked, Fixed
    PROVE  ReadsWhatWasAsked' /\ WritesWhatWasAsked'
<1>1. ReadsWhatWasAsked'
  BY DEF ReadsWhatWasAsked, Fixed, Asked
<1>2. WritesWhatWasAsked'
  BY DEF WritesWhatWasAsked, Fixed, Asked
<1> QED BY <1>1, <1>2

LEMMA Outcome ==
    ASSUME NEW r \in Requests, request' = r, bad' = bad,
           (result' = 0) <=> GoodTo(r, r.count, bad)
    PROVE  ResultIsTrue'
BY DEF ResultIsTrue, GoodTo, Fine, Good, Asked

LEMMA KernelWaitKeeps ==
    ASSUME SizesAssumption, IInv, KernelWait
    PROVE  IInv'
<1>1. /\ pc = "kernel_wait" /\ pc' = IF ctl.drq THEN "kernel_data" ELSE "kernel_wait"
      /\ ctl' = ctl /\ count' = count /\ current' = current /\ result' = result /\ Fixed
  BY DEF KernelWait, Fixed, jobVars
<1>2. PICK r \in Requests, k \in Nat, n \in Nat, s \in Nat :
        /\ r = request /\ k = Len(memory) /\ n = r.count - k /\ s = r.lba + k
        /\ count = n /\ k <= r.count /\ r.lba \in Nat
        /\ r.count \in 1 .. Base - 1 /\ r.count \in Nat /\ Base \in Nat /\ n < Base
        /\ At(pc, r, k, n)
        /\ pc \in {"kernel_data", "bios_data"} => ctl.drq /\ ~ctl.err
        /\ r.by \notin Writing => ReadingAt(ctl, r, k, image, bad)
        /\ r.by \in Writing => WritingAt(ctl, r, k, bad)
  BY <1>1, UnderWay
<1>3. r.by = "kernel" /\ r.by \notin Writing /\ k = 0
  BY <1>1, <1>2 DEF At, Writing
<1>4. ctl.drq => ~ctl.err
  <2>1. Loaded(ctl, s, n, image, bad)
    BY <1>2, <1>3 DEF ReadingAt
  <2> QED BY <2>1 DEF Loaded
<1>5. At(pc', r, k, n)
  BY <1>1, <1>2 DEF At
<1>6. Served(pc', ctl, r, k, n, image, bad)
  BY <1>1, <1>2, <1>3, <1>4, <1>5 DEF Served
<1>7. Service'
  BY <1>1, <1>2, <1>6 DEF Service, Fixed
<1>8. Types'
  BY <1>1 DEF IInv, Types, Places, Fixed
<1>9. ReadsWhatWasAsked' /\ WritesWhatWasAsked'
  BY <1>1, FixedContents DEF IInv
<1>10. ResultIsTrue' /\ AtRest'
  BY <1>1 DEF ResultIsTrue, AtRest
<1> QED BY <1>7, <1>8, <1>9, <1>10 DEF IInv

LEMMA BiosWaitKeeps ==
    ASSUME SizesAssumption, IInv, BiosWait
    PROVE  IInv'
<1>1. /\ pc = "bios_wait"
      /\ \/ ctl.err /\ pc' = "idle" /\ result' = 2
         \/ ~ctl.err /\ ~ctl.drq /\ pc' = "idle" /\ result' = 3
         \/ ~ctl.err /\ ctl.drq /\ pc' = "bios_data" /\ result' = result
      /\ ctl' = ctl /\ count' = count /\ current' = current /\ Fixed
  BY DEF BiosWait, Returns, Fixed, jobVars
<1>2. PICK r \in Requests, k \in Nat, n \in Nat, s \in Nat :
        /\ r = request /\ k = Len(memory) /\ n = r.count - k /\ s = r.lba + k
        /\ count = n /\ k <= r.count /\ r.lba \in Nat
        /\ r.count \in 1 .. Base - 1 /\ r.count \in Nat /\ Base \in Nat /\ n < Base
        /\ At(pc, r, k, n)
        /\ pc \in {"kernel_data", "bios_data"} => ctl.drq /\ ~ctl.err
        /\ r.by \notin Writing => ReadingAt(ctl, r, k, image, bad)
        /\ r.by \in Writing => WritingAt(ctl, r, k, bad)
  BY <1>1, UnderWay
<1>3. r.by # "kernel" /\ k = 0 /\ n = r.count /\ s = r.lba /\ r.count > 0
  BY <1>1, <1>2 DEF At
<1>4. /\ ctl.err => ~Fine(r.lba, bad)
      /\ ~ctl.err => ctl.drq
  <2>1. CASE r.by \notin Writing
    <3>1. Loaded(ctl, s, n, image, bad)
      BY <1>2, <1>3, <2>1 DEF ReadingAt
    <3> QED BY <1>3, <3>1 DEF Loaded
  <2>2. CASE r.by \in Writing
    <3>1. Takes(ctl, s, n)
      BY <1>2, <1>3, <2>2 DEF WritingAt
    <3> QED BY <1>2, <1>3, <3>1 DEF Takes
  <2> QED BY <2>1, <2>2
<1>5. Types'
  BY <1>1 DEF IInv, Types, Places, Fixed
<1>6. ReadsWhatWasAsked' /\ WritesWhatWasAsked'
  BY <1>1, FixedContents DEF IInv
<1>7. CASE ctl.err
  <2>1. pc' = "idle" /\ result' = 2
    BY <1>1, <1>7
  <2>2. ~GoodTo(r, r.count, bad)
    <3>1. 1 \in 1 .. r.count /\ r.lba + 1 - 1 = r.lba
      BY <1>2, <1>3
    <3> QED BY <1>4, <1>7, <3>1 DEF GoodTo
  <2>3. ResultIsTrue'
    <3>1. request' = r /\ bad' = bad
      BY <1>1, <1>2 DEF Fixed
    <3> QED BY <2>1, <2>2, <3>1, Outcome
  <2>4. AtRest' /\ Service'
    BY <2>1 DEF AtRest, Service
  <2> QED BY <1>5, <1>6, <2>3, <2>4 DEF IInv
<1>8. CASE ~ctl.err
  <2>1. pc' = "bios_data" /\ ctl.drq
    BY <1>1, <1>4, <1>8
  <2>2. At("bios_data", r, k, n)
    BY <1>1, <1>2 DEF At
  <2>3. Served("bios_data", ctl, r, k, n, image, bad)
    BY <1>2, <1>8, <2>1, <2>2 DEF Served
  <2>4. Service'
    BY <1>1, <1>2, <2>1, <2>3 DEF Service, Fixed
  <2>5. ResultIsTrue' /\ AtRest'
    BY <2>1 DEF ResultIsTrue, AtRest
  <2> QED BY <1>5, <1>6, <2>4, <2>5 DEF IInv
<1> QED BY <1>7, <1>8

LEMMA BiosStatusKeeps ==
    ASSUME SizesAssumption, IInv, BiosStatus
    PROVE  IInv'
<1>1. /\ pc = "bios_status"
      /\ \/ count = 0 /\ (ctl.drq \/ ctl.err) /\ pc' = "idle" /\ result' \in {4, 6}
         \/ count = 0 /\ ~ctl.drq /\ ~ctl.err /\ pc' = "idle" /\ result' = 0
         \/ count # 0 /\ ctl.drq /\ ~ctl.err /\ pc' = "bios_data" /\ result' = result
         \/ count # 0 /\ ~(ctl.drq /\ ~ctl.err) /\ pc' = "idle" /\ result' \in {5, 7}
      /\ ctl' = ctl /\ count' = count /\ current' = current /\ Fixed
  BY DEF BiosStatus, Returns, Fixed, jobVars
<1>2. PICK r \in Requests, k \in Nat, n \in Nat, s \in Nat :
        /\ r = request /\ k = Len(memory) /\ n = r.count - k /\ s = r.lba + k
        /\ count = n /\ k <= r.count /\ r.lba \in Nat
        /\ r.count \in 1 .. Base - 1 /\ r.count \in Nat /\ Base \in Nat /\ n < Base
        /\ At(pc, r, k, n)
        /\ pc \in {"kernel_data", "bios_data"} => ctl.drq /\ ~ctl.err
        /\ r.by \notin Writing => ReadingAt(ctl, r, k, image, bad)
        /\ r.by \in Writing => WritingAt(ctl, r, k, bad)
  BY <1>1, UnderWay
<1>3. r.by # "kernel" /\ k > 0 /\ (count = 0 <=> k = r.count)
  BY <1>1, <1>2 DEF At
<1> DEFINE ready == ctl.drq /\ ~ctl.err
           rests == ~ctl.drq /\ ~ctl.err
           good == GoodTo(r, r.count, bad)
           Told == /\ count = 0 /\ rests => good /\ ctl.left = 0 /\ ctl.sc[1] = 0
                   /\ count = 0 /\ ~rests => ~good
                   /\ count # 0 /\ ~ready => ~good
<1>4. ASSUME r.by \notin Writing
      PROVE  Told
  <2>1. GoodTo(r, k, bad) /\ (k = r.count => Rests(ctl))
    BY <1>2, <1>4 DEF ReadingAt
  <2>2. k < r.count => Loaded(ctl, s, n, image, bad)
    BY <1>2, <1>4 DEF ReadingAt
  <2>3. k < r.count /\ good => Fine(s, bad)
    <3>1. ASSUME k < r.count PROVE k + 1 \in 1 .. r.count /\ r.lba + (k + 1) - 1 = s
      BY <1>2, <3>1
    <3> QED BY <3>1 DEF GoodTo
  <2> QED BY <1>2, <1>3, <2>1, <2>2, <2>3 DEF Rests, Loaded
<1>5. ASSUME r.by \in Writing
      PROVE  Told
  <2> DEFINE last == r.lba + k - 1
  <2>1. /\ GoodTo(r, k - 1, bad)
        /\ Fine(last, bad) => Takes(ctl, s, n)
        /\ ~Fine(last, bad) => ~ctl.drq /\ ctl.err
    BY <1>2, <1>3, <1>5 DEF WritingAt
  <2>2. Takes(ctl, s, n) => ~ctl.err /\ (ctl.drq <=> n # 0) /\ ctl.left = n /\ ctl.sc[1] = n
    BY DEF Takes, Counting
  <2>3. good => Fine(last, bad)
    <3>1. k \in 1 .. r.count
      BY <1>2, <1>3
    <3> QED BY <3>1 DEF GoodTo
  <2>4. k = r.count /\ Fine(last, bad) => good
    <3>1. ASSUME k = r.count, Fine(last, bad), NEW i \in 1 .. r.count
          PROVE  Fine(r.lba + i - 1, bad)
      <4>1. CASE i = k
        BY <3>1, <4>1
      <4>2. CASE i # k
        <5>1. i \in 1 .. k - 1
          BY <1>2, <3>1, <4>2
        <5> QED BY <2>1, <5>1 DEF GoodTo
      <4> QED BY <4>1, <4>2
    <3> QED BY <3>1 DEF GoodTo
  <2> HIDE DEF last, good
  <2> QED BY <1>2, <1>3, <2>1, <2>2, <2>3, <2>4
<1>6. Told
  BY <1>4, <1>5
<1> HIDE DEF good
<1>7. Types'
  BY <1>1 DEF IInv, Types, Places, Fixed
<1>8. ReadsWhatWasAsked' /\ WritesWhatWasAsked'
  BY <1>1, FixedContents DEF IInv
<1>9. CASE pc' = "idle"
  <2>1. (result' = 0) <=> good
    BY <1>1, <1>6, <1>9
  <2>2. ResultIsTrue'
    <3>1. request' = r /\ bad' = bad
      BY <1>1, <1>2 DEF Fixed
    <3> QED BY <2>1, <3>1, Outcome DEF good
  <2>3. AtRest'
    BY <1>1, <1>6, <1>9 DEF AtRest
  <2> QED BY <1>7, <1>8, <1>9, <2>2, <2>3 DEF IInv, Service
<1>10. CASE pc' # "idle"
  <2>1. pc' = "bios_data" /\ ready
    BY <1>1, <1>10
  <2>2. At("bios_data", r, k, n)
    BY <1>2, <1>3 DEF At
  <2>3. Served("bios_data", ctl, r, k, n, image, bad)
    BY <1>2, <2>1, <2>2 DEF Served
  <2>4. Service'
    BY <1>1, <1>2, <2>1, <2>3 DEF Service, Fixed
  <2> QED BY <1>7, <1>8, <1>10, <2>4 DEF IInv, ResultIsTrue, AtRest
<1> QED BY <1>9, <1>10

-----------------------------------------------------------------------------
(* A sector passes.                                                        *)

LEMMA Appended ==
    ASSUME NEW m \in Seq(Int), NEW v \in Int, NEW q, q = Append(m, v)
    PROVE  /\ q \in Seq(Int) /\ Len(q) = Len(m) + 1 /\ q[Len(m) + 1] = v
           /\ \A i \in 1 .. Len(m) : q[i] = m[i]
OBVIOUS

(* A sector comes into memory.                                             *)
LEMMA SectorRead ==
    ASSUME IInv, NEW r \in Requests, r = request, r.by \notin Writing, r.lba \in Nat,
           NEW k \in Nat, k = Len(memory), NEW s \in Nat, s = r.lba + k,
           Fine(s, bad), ctl.buffer = image[s],
           memory' = Append(memory, ctl.buffer),
           image' = image, before' = before, request' = request
    PROVE  /\ ReadsWhatWasAsked' /\ WritesWhatWasAsked'
           /\ memory' \in Seq(Int) /\ Len(memory') = k + 1
<1>1. /\ memory \in Seq(Int) /\ ctl.buffer \in Int
  BY Registers DEF IInv, Types
<1>2. /\ memory' \in Seq(Int) /\ Len(memory') = k + 1 /\ memory'[k + 1] = ctl.buffer
      /\ \A i \in 1 .. k : memory'[i] = memory[i]
  BY <1>1, Appended
<1>3. image = before /\ \A i \in 1 .. k : memory[i] = before[r.lba + i - 1]
  BY DEF IInv, ReadsWhatWasAsked, Asked
<1>4. r.lba + (k + 1) - 1 = s
  OBVIOUS
<1>5. ASSUME NEW i \in 1 .. k + 1 PROVE memory'[i] = before[r.lba + i - 1]
  <2>1. CASE i = k + 1
    BY <1>2, <1>3, <1>4, <2>1
  <2>2. CASE i # k + 1
    <3>1. i \in 1 .. k
      BY <2>2
    <3> QED BY <1>2, <1>3, <3>1
  <2> QED BY <2>1, <2>2
<1>6. ReadsWhatWasAsked'
  BY <1>2, <1>3, <1>5 DEF ReadsWhatWasAsked, Asked
<1>7. WritesWhatWasAsked'
  BY DEF WritesWhatWasAsked
<1> QED BY <1>2, <1>6, <1>7

LEMMA KernelDataKeeps ==
    ASSUME SizesAssumption, IInv, KernelData
    PROVE  IInv'
<1>1. /\ pc = "kernel_data" /\ pc' = "idle" /\ memory' = Append(memory, ctl.buffer)
      /\ ctl' = AfterRead(ctl) /\ image' = image /\ bad' = bad /\ current' = current
      /\ count' = count /\ result' = result /\ request' = request /\ before' = before
  BY DEF KernelData, jobVars
<1>2. PICK r \in Requests, k \in Nat, n \in Nat, s \in Nat :
        /\ r = request /\ k = Len(memory) /\ n = r.count - k /\ s = r.lba + k
        /\ count = n /\ k <= r.count /\ r.lba \in Nat
        /\ r.count \in 1 .. Base - 1 /\ r.count \in Nat /\ Base \in Nat /\ n < Base
        /\ At(pc, r, k, n)
        /\ pc \in {"kernel_data", "bios_data"} => ctl.drq /\ ~ctl.err
        /\ r.by \notin Writing => ReadingAt(ctl, r, k, image, bad)
        /\ r.by \in Writing => WritingAt(ctl, r, k, bad)
  BY <1>1, UnderWay
<1>3. r.by = "kernel" /\ r.by \notin Writing /\ k = 0 /\ r.count = 1 /\ n = 1
  <2>1. r.by = "kernel" /\ k = 0
    BY <1>1, <1>2 DEF At
  <2> QED BY <1>2, <2>1, RequestFacts DEF Expressible, Writing
<1>4. Fine(s, bad) /\ ctl.buffer = image[s] /\ Counting(ctl, s + 1, 0)
  <2>1. Loaded(ctl, s, 1, image, bad)
    BY <1>2, <1>3 DEF ReadingAt
  <2>2. ctl.drq
    BY <1>1, <1>2
  <2> QED BY <2>1, <2>2 DEF Loaded
<1>5. ctl' \in Controller /\ Rests(ctl')
  <2>1. PICK zero \in 0 .. Base - 1 : zero = 0
    BY <1>2
  <2>2. PICK t \in Nat : t = s + 1
    BY <1>2
  <2>3. Counting(ctl, t, zero) /\ ctl \in Controller /\ image \in [Sector -> Int]
    BY <1>4, <2>1, <2>2 DEF IInv, Types, Contents
  <2> QED BY <1>1, <2>1, <2>3, AfterReadStep
<1>6. /\ ReadsWhatWasAsked' /\ WritesWhatWasAsked' /\ memory' \in Seq(Int)
  BY <1>1, <1>2, <1>3, <1>4, SectorRead
<1>7. Types'
  BY <1>1, <1>5, <1>6 DEF IInv, Types, Places
<1>8. ResultIsTrue' /\ AtRest' /\ Service'
  BY <1>1, <1>2, <1>3, <1>5 DEF ResultIsTrue, AtRest, Service, Rests
<1> QED BY <1>6, <1>7, <1>8 DEF IInv

(* The firmware's counters after a sector.                                 *)
LEMMA CountedBy ==
    ASSUME SizesAssumption, IInv, Counted, NEW n \in Nat, n = count, n > 0
    PROVE  /\ count' = n - 1 /\ count' \in 0 .. (Base * Base) - 1
           /\ current' \in ByteValues
<1>1. current \in ByteValues /\ n \in 0 .. (Base * Base) - 1
  BY DEF IInv, Types
<1>2. Base \in Nat /\ Base > 0 /\ Base * Base \in Nat
  BY Products
<1>3. PICK m \in Nat : m = n - 1
  OBVIOUS
<1>4. m < Base * Base
  BY <1>1, <1>2, <1>3
<1>5. m % (Base * Base) = m
  BY <1>2, <1>3, <1>4, Small
<1>6. count' = m
  BY <1>3, <1>5 DEF Counted
<1>7. PICK i \in Nat : i = current + 1
  BY <1>1, <1>2 DEF ByteValues
<1>8. current' = i % Base
  BY <1>7 DEF Counted
<1>9. i % Base \in Nat /\ i % Base < Base
  BY <1>2, Divide
<1> QED BY <1>2, <1>3, <1>4, <1>6, <1>8, <1>9 DEF ByteValues

LEMMA BiosReadKeeps ==
    ASSUME SizesAssumption, IInv, BiosRead
    PROVE  IInv'
<1>1. /\ pc = "bios_data" /\ request.by \notin Writing /\ pc' = "bios_status"
      /\ memory' = Append(memory, ctl.buffer) /\ ctl' = AfterRead(ctl) /\ Counted
      /\ image' = image /\ bad' = bad /\ result' = result /\ request' = request
      /\ before' = before
  BY DEF BiosRead, Counted, jobVars
<1>2. PICK r \in Requests, k \in Nat, n \in Nat, s \in Nat :
        /\ r = request /\ k = Len(memory) /\ n = r.count - k /\ s = r.lba + k
        /\ count = n /\ k <= r.count /\ r.lba \in Nat
        /\ r.count \in 1 .. Base - 1 /\ r.count \in Nat /\ Base \in Nat /\ n < Base
        /\ At(pc, r, k, n)
        /\ pc \in {"kernel_data", "bios_data"} => ctl.drq /\ ~ctl.err
        /\ r.by \notin Writing => ReadingAt(ctl, r, k, image, bad)
        /\ r.by \in Writing => WritingAt(ctl, r, k, bad)
  BY <1>1, UnderWay
<1>3. r.by # "kernel" /\ r.by \notin Writing /\ ctl.drq
  BY <1>1, <1>2 DEF At
<1>4. GoodTo(r, k, bad) /\ k < r.count /\ Loaded(ctl, s, n, image, bad)
  <2>1. GoodTo(r, k, bad) /\ (k = r.count => Rests(ctl))
        /\ (k < r.count => Loaded(ctl, s, n, image, bad))
    BY <1>2, <1>3 DEF ReadingAt
  <2>2. k # r.count
    BY <1>3, <2>1 DEF Rests
  <2> QED BY <1>2, <2>1, <2>2
<1>5. Fine(s, bad) /\ ctl.buffer = image[s] /\ Counting(ctl, s + 1, n - 1)
  BY <1>3, <1>4 DEF Loaded
<1>6. PICK t \in Nat, m \in 0 .. Base - 1 : t = s + 1 /\ m = n - 1 /\ Counting(ctl, t, m)
  <2>1. s + 1 \in Nat /\ n - 1 \in 0 .. Base - 1
    BY <1>2, <1>4
  <2> QED BY <1>5, <2>1
<1>7. /\ ctl' \in Controller
      /\ m = 0 => Rests(ctl')
      /\ m > 0 => Loaded(ctl', t, m, image, bad)
  <2>1. ctl \in Controller /\ image \in [Sector -> Int]
    BY DEF IInv, Types, Contents
  <2> QED BY <1>1, <1>6, <2>1, AfterReadStep
<1>8. /\ ReadsWhatWasAsked' /\ WritesWhatWasAsked' /\ memory' \in Seq(Int)
      /\ Len(memory') = k + 1
  BY <1>1, <1>2, <1>3, <1>5, SectorRead
<1>9. /\ count' = n - 1 /\ count' \in 0 .. (Base * Base) - 1 /\ current' \in ByteValues
  BY <1>1, <1>2, <1>4, CountedBy
<1>10. PICK j \in Nat : j = k + 1
  BY <1>2
<1>11. r.lba + j = t /\ r.count - j = m /\ j <= r.count /\ (j = r.count <=> m = 0)
       /\ (j < r.count <=> m > 0)
  <2>1. PICK a \in Nat, b \in Nat : a = r.lba /\ b = r.count
    BY <1>2
  <2>2. n = b - k /\ s = a + k /\ k < b
    BY <1>2, <1>4, <2>1
  <2>3. t = s + 1 /\ m = n - 1
    BY <1>6
  <2>4. a + j = t /\ b - j = m /\ j <= b /\ (j = b <=> m = 0) /\ (j < b <=> m > 0)
    BY <1>10, <2>2, <2>3
  <2> QED BY <2>1, <2>4
<1>12. GoodTo(r, j, bad)
  <2>1. ASSUME NEW i \in 1 .. j PROVE Fine(r.lba + i - 1, bad)
    <3>1. CASE i = j
      BY <1>2, <1>5, <1>10, <3>1
    <3>2. CASE i # j
      <4>1. i \in 1 .. k
        BY <1>10, <3>2
      <4> QED BY <1>4, <4>1 DEF GoodTo
    <3> QED BY <3>1, <3>2
  <2> QED BY <2>1 DEF GoodTo
<1>13. ReadingAt(ctl', r, j, image, bad)
  BY <1>7, <1>11, <1>12 DEF ReadingAt
<1>14. At("bios_status", r, j, m)
  BY <1>2, <1>3, <1>10, <1>11 DEF At
<1>15. Served("bios_status", ctl', r, j, m, image, bad)
  BY <1>3, <1>13, <1>14 DEF Served
<1>16. Service'
  BY <1>1, <1>2, <1>6, <1>8, <1>9, <1>10, <1>15 DEF Service
<1>17. Types'
  BY <1>1, <1>7, <1>8, <1>9 DEF IInv, Types, Places
<1>18. ResultIsTrue' /\ AtRest'
  BY <1>1 DEF ResultIsTrue, AtRest
<1> QED BY <1>8, <1>16, <1>17, <1>18 DEF IInv

(* A sector goes to the disk: the next one, if it exists.                  *)
LEMMA SectorWritten ==
    ASSUME IInv, NEW r \in Requests, r = request, r.by \in Writing, r.lba \in Nat,
           NEW k \in Nat, k = Len(memory), NEW s \in Nat, s = r.lba + k,
           memory' = Append(memory, -(k + 1)),
           image' = IF Fine(s, bad) THEN [image EXCEPT ![s] = -(k + 1)] ELSE image,
           before' = before, request' = request
    PROVE  /\ ReadsWhatWasAsked' /\ WritesWhatWasAsked' /\ image' \in Contents
           /\ memory' \in Seq(Int) /\ Len(memory') = k + 1
<1>1. /\ memory \in Seq(Int) /\ -(k + 1) \in Int /\ image \in Contents
  BY DEF IInv, Types
<1>2. PICK v \in Int : v = -(k + 1)
  BY <1>1
<1>3. /\ memory' \in Seq(Int) /\ Len(memory') = k + 1 /\ memory'[k + 1] = v
      /\ \A i \in 1 .. k : memory'[i] = memory[i]
  BY <1>1, <1>2, Appended
<1>4. /\ image' \in Contents
      /\ \A x \in Sector : x # s => image'[x] = image[x]
      /\ s \in Sector => image'[s] = v \/ image'[s] = image[s]
  BY <1>1, <1>2 DEF Contents, Fine
<1>5. \A x \in Sector : image[x] # before[x] =>
        \E i \in 1 .. k : x = r.lba + i - 1 /\ image[x] = memory[i]
  BY DEF IInv, WritesWhatWasAsked, Asked
<1>6. PICK j \in Nat : j = k + 1
  OBVIOUS
<1>7. r.lba + j - 1 = s /\ j \in 1 .. j
  BY <1>6
<1>8. ASSUME NEW x \in Sector, image'[x] # before[x]
      PROVE  \E i \in 1 .. j : x = r.lba + i - 1 /\ image'[x] = memory'[i]
  <2>1. CASE image'[x] = image[x]
    <3>1. PICK i \in 1 .. k : x = r.lba + i - 1 /\ image[x] = memory[i]
      BY <1>5, <1>8, <2>1
    <3>2. i \in 1 .. j /\ memory'[i] = memory[i]
      BY <1>3, <1>6
    <3> QED BY <2>1, <3>1, <3>2
  <2>2. CASE image'[x] # image[x]
    <3>1. x = s /\ image'[x] = v
      BY <1>4, <2>2
    <3> QED BY <1>3, <1>6, <1>7, <3>1
  <2> QED BY <2>1, <2>2
<1>9. WritesWhatWasAsked'
  BY <1>3, <1>6, <1>8 DEF WritesWhatWasAsked, Asked
<1>10. ReadsWhatWasAsked'
  BY DEF ReadsWhatWasAsked
<1> QED BY <1>3, <1>4, <1>9, <1>10

LEMMA BiosWriteKeeps ==
    ASSUME SizesAssumption, IInv, BiosWrite
    PROVE  IInv'
<1>1. /\ pc = "bios_data" /\ request.by \in Writing /\ pc' = "bios_status"
      /\ memory' = Append(memory, -(Len(memory) + 1)) /\ ctl' = AfterWrite(ctl) /\ Counted
      /\ image' = IF Reachable(ctl) THEN [image EXCEPT ![Address(ctl)] = -(Len(memory) + 1)]
                  ELSE image
      /\ bad' = bad /\ result' = result /\ request' = request /\ before' = before
  BY DEF BiosWrite, Counted, jobVars
<1>2. PICK r \in Requests, k \in Nat, n \in Nat, s \in Nat :
        /\ r = request /\ k = Len(memory) /\ n = r.count - k /\ s = r.lba + k
        /\ count = n /\ k <= r.count /\ r.lba \in Nat
        /\ r.count \in 1 .. Base - 1 /\ r.count \in Nat /\ Base \in Nat /\ n < Base
        /\ At(pc, r, k, n)
        /\ pc \in {"kernel_data", "bios_data"} => ctl.drq /\ ~ctl.err
        /\ r.by \notin Writing => ReadingAt(ctl, r, k, image, bad)
        /\ r.by \in Writing => WritingAt(ctl, r, k, bad)
  BY <1>1, UnderWay
<1>3. r.by # "kernel" /\ r.by \in Writing /\ ctl.drq
  BY <1>1, <1>2 DEF At
<1>4. GoodTo(r, k - 1, bad) /\ (k > 0 => Fine(r.lba + k - 1, bad)) /\ Takes(ctl, s, n) /\ n > 0
  <2>1. /\ GoodTo(r, k - 1, bad)
        /\ k = 0 \/ Fine(r.lba + k - 1, bad) => Takes(ctl, s, n)
        /\ k > 0 /\ ~Fine(r.lba + k - 1, bad) => ~ctl.drq
    BY <1>2, <1>3 DEF WritingAt
  <2>2. Takes(ctl, s, n) /\ (k > 0 => Fine(r.lba + k - 1, bad))
    BY <1>3, <2>1
  <2>3. n > 0
    BY <1>2, <1>3, <2>2 DEF Takes
  <2> QED BY <2>1, <2>2, <2>3
<1>5. Address(ctl) = s
  BY <1>4 DEF Takes, Counting, Ahead
<1>6. image' = IF Fine(s, bad) THEN [image EXCEPT ![s] = -(k + 1)] ELSE image
  BY <1>1, <1>2, <1>5 DEF Reachable, Fine
<1>7. /\ ReadsWhatWasAsked' /\ WritesWhatWasAsked' /\ image' \in Contents
      /\ memory' \in Seq(Int) /\ Len(memory') = k + 1
  BY <1>1, <1>2, <1>3, <1>6, SectorWritten
<1>8. /\ count' = n - 1 /\ count' \in 0 .. (Base * Base) - 1 /\ current' \in ByteValues
  BY <1>1, <1>2, <1>4, CountedBy
<1>9. /\ ctl' \in Controller
      /\ Fine(s, bad) => Takes(ctl', s + 1, n - 1)
      /\ ~Fine(s, bad) => ~ctl'.drq /\ ctl'.err
  <2>1. n \in 1 .. Base - 1 /\ ctl \in Controller
    BY <1>2, <1>4 DEF IInv, Types
  <2> QED BY <1>1, <1>4, <2>1, AfterWriteStep
<1>10. PICK j \in Nat, t \in Nat, m \in Nat : j = k + 1 /\ t = s + 1 /\ m = n - 1
  <2>1. k + 1 \in Nat /\ s + 1 \in Nat /\ n - 1 \in Nat
    BY <1>4
  <2> QED BY <2>1
<1>11. /\ r.lba + j = t /\ r.count - j = m /\ j \in 0 .. r.count /\ j > 0
       /\ r.lba + j - 1 = s /\ j - 1 = k
  <2>1. PICK a \in Nat, b \in Nat : a = r.lba /\ b = r.count
    BY <1>2
  <2>2. n = b - k /\ s = a + k
    BY <1>2, <2>1
  <2>3. a + j = t /\ b - j = m /\ j \in 0 .. b /\ j > 0 /\ a + j - 1 = s /\ j - 1 = k
    BY <1>4, <1>10, <2>2
  <2> QED BY <2>1, <2>3
<1>12. GoodTo(r, k, bad)
  <2>1. ASSUME NEW i \in 1 .. k PROVE Fine(r.lba + i - 1, bad)
    <3>1. CASE i = k
      BY <1>4, <3>1
    <3>2. CASE i # k
      <4>1. i \in 1 .. k - 1
        BY <3>2
      <4> QED BY <1>4, <4>1 DEF GoodTo
    <3> QED BY <3>1, <3>2
  <2> QED BY <2>1 DEF GoodTo
<1>13. WritingAt(ctl', r, j, bad)
  BY <1>9, <1>10, <1>11, <1>12 DEF WritingAt
<1>14. At("bios_status", r, j, m)
  BY <1>3, <1>11 DEF At
<1>15. Served("bios_status", ctl', r, j, m, image', bad)
  BY <1>3, <1>13, <1>14 DEF Served
<1>16. Service'
  BY <1>1, <1>2, <1>7, <1>8, <1>10, <1>15 DEF Service
<1>17. Types'
  BY <1>1, <1>7, <1>8, <1>9 DEF IInv, Types, Places
<1>18. ResultIsTrue' /\ AtRest'
  BY <1>1 DEF ResultIsTrue, AtRest
<1> QED BY <1>7, <1>16, <1>17, <1>18 DEF IInv

-----------------------------------------------------------------------------
LEMMA InitInvariant ==
    ASSUME SizesAssumption, Init
    PROVE  IInv
<1>1. Base \in Nat /\ Base > 1 /\ HeadBase \in Nat /\ HeadBase > 0 /\ Base * Base \in Nat
      /\ Base * Base > 0
  BY Products
<1>2. 0 \in ByteValues /\ 1 \in ByteValues /\ 0 \in 0 .. HeadBase - 1 /\ 0 \in 0 .. Base * Base
      /\ 0 \in 0 .. (Base * Base) - 1
  BY <1>1 DEF ByteValues
<1>3. <<1, 0>> \in Pair /\ <<0, 0>> \in Pair
  BY <1>2 DEF Pair
<1>4. ctl \in Controller
  BY <1>2, <1>3 DEF Init, Controller
<1>5. image \in Contents /\ before \in Contents
  BY DEF Init, Contents, Sector
<1>6. Types
  BY <1>2, <1>4, <1>5 DEF Init, Types, Places
<1>7. ReadsWhatWasAsked /\ WritesWhatWasAsked
  BY DEF Init, ReadsWhatWasAsked, WritesWhatWasAsked
<1> QED BY <1>6, <1>7 DEF Init, IInv, ResultIsTrue, AtRest, Service

LEMMA StutterKeeps ==
    ASSUME IInv, UNCHANGED vars
    PROVE  IInv'
<1>1. /\ image' = image /\ bad' = bad /\ ctl' = ctl /\ pc' = pc /\ memory' = memory
      /\ current' = current /\ count' = count /\ result' = result /\ request' = request
      /\ before' = before /\ requests' = requests
  BY DEF vars, jobVars
<1>2. Types' /\ Service'
  BY <1>1 DEF IInv, Types, Service
<1>3. ReadsWhatWasAsked' /\ WritesWhatWasAsked'
  <2>1. Fixed
    BY <1>1 DEF Fixed
  <2> QED BY <2>1, FixedContents DEF IInv
<1>4. ResultIsTrue' /\ AtRest'
  BY <1>1 DEF IInv, ResultIsTrue, AtRest, Good, Asked
<1> QED BY <1>2, <1>3, <1>4 DEF IInv

LEMMA StepKeeps ==
    ASSUME SizesAssumption, IInv, [Next]_vars
    PROVE  IInv'
BY KernelCommandKeeps, BiosCommandKeeps, KernelWaitKeeps, KernelDataKeeps, BiosWaitKeeps,
   BiosReadKeeps, BiosWriteKeeps, BiosStatusKeeps, StutterKeeps
   DEF Next, Kernel, Bios

(* Without DRQ the kernel's loop cannot be left, and an unreadable sector  *)
(* never raises it.                                                        *)
LEMMA BadSectorWaits ==
    ASSUME SizesAssumption, IInv, WaitsForBad, [Next]_vars
    PROVE  Waits'
<1>1. pc = "kernel_wait" /\ ~Fine(request.lba, bad)
  BY DEF WaitsForBad, Waits, Good, Fine
<1>2. PICK r \in Requests, k \in Nat, n \in Nat, s \in Nat :
        /\ r = request /\ k = Len(memory) /\ n = r.count - k /\ s = r.lba + k
        /\ count = n /\ k <= r.count /\ r.lba \in Nat
        /\ r.count \in 1 .. Base - 1 /\ r.count \in Nat /\ Base \in Nat /\ n < Base
        /\ At(pc, r, k, n)
        /\ pc \in {"kernel_data", "bios_data"} => ctl.drq /\ ~ctl.err
        /\ r.by \notin Writing => ReadingAt(ctl, r, k, image, bad)
        /\ r.by \in Writing => WritingAt(ctl, r, k, bad)
  BY <1>1, UnderWay
<1>3. r.by \notin Writing /\ k = 0
  BY <1>1, <1>2 DEF At, Writing
<1>4. s = request.lba /\ k < r.count
  BY <1>2, <1>3
<1>5. Loaded(ctl, s, n, image, bad)
  BY <1>2, <1>3, <1>4 DEF ReadingAt
<1>6. ~ctl.drq
  BY <1>1, <1>4, <1>5 DEF Loaded
<1>7. CASE KernelWait
  BY <1>6, <1>7 DEF KernelWait, Waits
<1>8. CASE UNCHANGED vars
  BY <1>1, <1>8 DEF vars, Waits
<1>9. CASE KernelCommand \/ BiosCommand \/ KernelData \/ Bios
  BY <1>1, <1>9 DEF KernelCommand, BiosCommand, Ask, KernelData, Bios, BiosWait,
                    BiosRead, BiosWrite, BiosStatus
<1> QED BY <1>7, <1>8, <1>9 DEF Next, Kernel

LEMMA InvariantTypes ==
    ASSUME IInv
    PROVE  TypeOK
BY DEF IInv, Types, TypeOK, Contents

LEMMA Invariance ==
    ASSUME SizesAssumption
    PROVE  Spec => []IInv
BY InitInvariant, StepKeeps, PTL DEF Spec

(* The registers, counters and results keep their ranges.                  *)
THEOREM TypeCorrect ==
    ASSUME SizesAssumption
    PROVE  Spec => []TypeOK
BY InvariantTypes, Invariance, PTL

(* Whatever is asked, in whatever order and however many sectors are bad:  *)
(* ata_cmd_data_io reads or writes the sectors asked for, its result says  *)
(* whether all of them went through, and success leaves the disk at rest.  *)
THEOREM AlwaysServed ==
    ASSUME SizesAssumption
    PROVE  Spec => [](ReadsWhatWasAsked /\ WritesWhatWasAsked /\ ResultIsTrue /\ AtRest)
<1>1. IInv => ReadsWhatWasAsked /\ WritesWhatWasAsked /\ ResultIsTrue /\ AtRest
  BY DEF IInv
<1> QED BY <1>1, Invariance, PTL

=============================================================================
