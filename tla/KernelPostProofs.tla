-------------------------- MODULE KernelPostProofs --------------------------
(***************************************************************************)
(* For every size of RAM and of the math ROMs.                             *)
(***************************************************************************)
EXTENDS KernelPost, AluLemmas

-----------------------------------------------------------------------------
(* The board.                                                              *)

LEMMA UInt8Bounds == \A v : v \in UInt8 <=> v \in Int /\ 0 <= v /\ v <= 255
BY DEF UInt8, UINT8_MAX

\* The sizes of the board at hand.
Banks == CHOOSE n \in UInt8 : board[6].size = 65536 * n
Devices == 1..6

LEMMA DeviceIs ==
  \A kind, base, size : /\ Device(kind, base, size).kind = kind
                        /\ Device(kind, base, size).base = base
                        /\ Device(kind, base, size).size = size
BY DEF Device

LEMMA BoardIs ==
  ASSUME board \in BOARDS
  PROVE  /\ Banks \in UInt8 /\ DOMAIN board = Devices
         /\ board[1].kind = "rom" /\ board[1].base = 49152
         /\ board[1].size = 16384
         /\ board[2].kind = "rom" /\ board[2].base = 14680064
         /\ board[2].size \in Nat /\ board[2].size % 2 = 0
         /\ board[3].kind = "rom" /\ board[3].base = 15728640
         /\ board[3].size \in Nat /\ board[3].size % 2 = 0
         /\ board[4].kind = "uart" /\ board[4].base = 45056
         /\ board[4].size = 8
         /\ board[5].kind = "uart" /\ board[5].base = 45312
         /\ board[5].size = 8
         /\ board[6].kind = "ram" /\ board[6].base = 0
         /\ board[6].size = 65536 * Banks
<1>1. PICK n \in RAM_BANKS, s \in ROM_SIZES, t \in ROM_SIZES :
        board = Board(n, s, t)
  BY DEF BOARDS
<1>2. /\ n \in UInt8 /\ s \in Nat /\ s % 2 = 0 /\ t \in Nat /\ t % 2 = 0
  BY KernelPostAssumption
<1>3. board = <<Device("rom", 49152, 16384), Device("rom", 14680064, s),
                Device("rom", 15728640, t), Device("uart", 45056, 8),
                Device("uart", 45312, 8), Device("ram", 0, 65536 * n)>>
  BY <1>1 DEF Board
<1>4. /\ DOMAIN board = Devices
      /\ board[1] = Device("rom", 49152, 16384)
      /\ board[2] = Device("rom", 14680064, s)
      /\ board[3] = Device("rom", 15728640, t)
      /\ board[4] = Device("uart", 45056, 8)
      /\ board[5] = Device("uart", 45312, 8)
      /\ board[6] = Device("ram", 0, 65536 * n)
  BY <1>3 DEF Devices
<1>5. board[6].size = 65536 * n
  BY <1>4, DeviceIs
<1>6. Banks \in UInt8 /\ board[6].size = 65536 * Banks
  <2>1. \E k \in UInt8 : board[6].size = 65536 * k
    BY <1>2, <1>5
  <2>. QED BY <2>1 DEF Banks
<1>7. board[1].kind = "rom" /\ board[1].base = 49152
      /\ board[1].size = 16384
  BY <1>4, DeviceIs
<1>8. board[2].kind = "rom" /\ board[2].base = 14680064
      /\ board[2].size = s
  BY <1>4, DeviceIs
<1>9. board[3].kind = "rom" /\ board[3].base = 15728640
      /\ board[3].size = t
  BY <1>4, DeviceIs
<1>10. board[4].kind = "uart" /\ board[4].base = 45056
      /\ board[4].size = 8
  BY <1>4, DeviceIs
<1>11. board[5].kind = "uart" /\ board[5].base = 45312
      /\ board[5].size = 8
  BY <1>4, DeviceIs
<1>12. board[6].kind = "ram" /\ board[6].base = 0
  BY <1>4, DeviceIs
<1>13. /\ board[2].size \in Nat /\ board[2].size % 2 = 0
       /\ board[3].size \in Nat /\ board[3].size % 2 = 0
  BY <1>2, <1>8, <1>9
<1>14. DOMAIN board = Devices
  BY <1>4
<1>. QED
  <2>. HIDE DEF Banks
  <2>1. board[2].size \in Nat /\ board[2].size % 2 = 0
    BY <1>13
  <2>2. board[3].size \in Nat /\ board[3].size % 2 = 0
    BY <1>13
  <2>. QED BY <1>6, <1>7, <1>8, <1>9, <1>10, <1>11, <1>12, <2>1, <2>2, <1>14

LEMMA DeviceTypes ==
  ASSUME board \in BOARDS, NEW i \in Devices
  PROVE  board[i].base \in Int /\ board[i].size \in Int
<1>1. Banks \in Int
  BY BoardIs, UInt8Bounds
<1>. QED BY <1>1, BoardIs DEF Devices

LEMMA LeastDevice ==
  ASSUME NEW T, T \subseteq Devices, T # {}
  PROVE  \E i \in T : \A j \in T : i <= j
<1>1. T \subseteq Nat
  BY DEF Devices
<1>. QED BY <1>1, Least

LEMMA ServingIs ==
  ASSUME board \in BOARDS, NEW a, NEW i, i = Serving(board, a)
  PROVE  \/ i = 0 /\ \A j \in Devices : ~Decodes(board[j], a)
         \/ i \in Devices /\ Decodes(board[i], a)
            /\ \A j \in Devices : Decodes(board[j], a) => i <= j
<1> DEFINE those == {j \in DOMAIN board : Decodes(board[j], a)}
<1>1. DOMAIN board = Devices
  BY BoardIs
<1>2. i = IF those = {} THEN 0
          ELSE CHOOSE j \in those : \A k \in those : j <= k
  BY DEF Serving
<1>3. CASE those = {}
  BY <1>1, <1>2, <1>3
<1>4. CASE those # {}
  <2>1. \E j \in those : \A k \in those : j <= k
    BY <1>1, <1>4, LeastDevice
  <2>2. i \in those /\ \A k \in those : i <= k
    BY <1>2, <1>4, <2>1
  <2>. QED BY <1>1, <2>2
<1>. QED BY <1>3, <1>4

Place(i, index) == [device |-> i, index |-> index]

\* The bank in which a device of whole banks begins.
Origin(i) == IF i = 2 THEN 224 ELSE IF i = 3 THEN 240 ELSE 0

LEMMA AbsoluteIs ==
  ASSUME NEW b \in Int, NEW o \in Int
  PROVE  Absolute(Address(b, o)) = b * 65536 + o
BY DEF Absolute, Address, BANK_SIZE

LEMMA DecodesIs ==
  ASSUME NEW b \in Int, NEW o \in Int, NEW d, d.base \in Int, d.size \in Int
  PROVE  Decodes(d, Address(b, o)) <=>
           b * 65536 + o >= d.base /\ b * 65536 + o - d.base < d.size
<1> DEFINE n == b * 65536 + o
<1>1. Absolute(Address(b, o)) = n /\ n \in Int
  BY AbsoluteIs
<1>. HIDE DEF n
<1>2. Decodes(d, Address(b, o)) <=> n >= d.base /\ n - d.base < d.size
  BY <1>1 DEF Decodes
<1>. QED BY <1>2 DEF n

Claims(d, a) == Decodes(board[d], a)
Base(d)      == board[d].base
Extent(d)    == board[d].size

LEMMA Extents ==
  ASSUME board \in BOARDS
  PROVE  /\ \A d \in Devices : Base(d) \in Int /\ Extent(d) \in Int
         /\ Base(1) = 49152 /\ Extent(1) = 16384
         /\ Base(2) = 14680064 /\ Base(3) = 15728640
         /\ Base(4) = 45056 /\ Extent(4) = 8
         /\ Base(5) = 45312 /\ Extent(5) = 8
         /\ Base(6) = 0 /\ Extent(6) = 65536 * Banks
BY BoardIs, DeviceTypes DEF Base, Extent

\* Which addresses the devices decode.
LEMMA ClaimsIs ==
  ASSUME board \in BOARDS, NEW b \in Int, NEW o \in Int,
         NEW n, n = b * 65536 + o, NEW d \in Devices,
         NEW a, a = Address(b, o)
  PROVE  /\ n \in Int
         /\ Claims(d, a) <=> n >= Base(d) /\ n - Base(d) < Extent(d)
<1> DEFINE dev == board[d]
<1>1. dev.base \in Int /\ dev.size \in Int
  BY DeviceTypes
<1>. HIDE DEF dev
<1>2. Decodes(dev, a) <=> n >= dev.base /\ n - dev.base < dev.size
  BY <1>1, DecodesIs
<1>. QED BY <1>2 DEF dev, Claims, Base, Extent

LEMMA CellIs ==
  ASSUME board \in BOARDS, NEW b, Fits(b, 256), NEW o, Fits(o, 65536),
         NEW k, Fits(k, 65536), Fits(o + k, 65536), NEW a, a = Address(b, o),
         NEW i, i = Serving(board, a), i \in {2, 3, 6}
  PROVE  /\ Fits(b - Origin(i), 256)
         /\ Cell(board, a, k) =
              Place(i, (65536 * (b - Origin(i))) + (o + k))
<1> DEFINE q == Origin(i)
           j == b - q
           base == Base(i)
           inside == Decoded(board[i], a)
<1>0. b \in Int /\ o \in Int /\ i \in Devices
  BY DEF Fits, Devices
<1>1. base = 65536 * q /\ base \in Int /\ q \in Int /\ 0 <= q /\ q <= 240
  BY Extents DEF Origin
<1>2. b * 65536 + o >= base
  <2>1. Claims(i, a)
    BY ServingIs DEF Claims
  <2>2. PICK n : n = b * 65536 + o
    OBVIOUS
  <2>3. n >= base
    BY <1>0, <2>1, <2>2, ClaimsIs
  <2>. QED BY <2>2, <2>3
<1>3. Fits(j, 256) /\ j \in Int /\ (b * 65536 + o) - base = 65536 * j + o
  <2>. HIDE DEF q, base
  <2>1. b <= 255
    BY DEF Fits
  <2>. QED BY <1>0, <1>1, <1>2, <2>1 DEF Fits
<1>4. inside = Address(j, o)
  <2> DEFINE addr == Absolute(a) - base
  <2>1. inside = Address((addr \div 65536) % 256, addr % 65536)
    BY DEF Decoded, BANK_SIZE, BANKS, Base
  <2>2. Absolute(a) = b * 65536 + o
    BY <1>0, AbsoluteIs
  <2>. HIDE DEF q, j, base, inside
  <2>3. addr = 65536 * j + o
    BY <1>0, <1>1, <1>3, <2>2
  <2>4. ((65536 * j + o) \div 65536) % 256 = j /\ (65536 * j + o) % 65536 = o
    BY <1>3 DEF Fits
  <2>. HIDE DEF addr
  <2>. QED BY <2>1, <2>3, <2>4
<1>5. Cell(board, a, k) = Place(i, Absolute(IncrementOffset(inside, k)))
  BY DEF Cell, Place
<1>. HIDE DEF q, j, base, inside
<1>6. IncrementOffset(inside, k) = Address(j, o + k)
  <2>1. IncrementOffset(inside, k) = Address(j, (o + k) % 65536)
    BY <1>4 DEF IncrementOffset, Address, BANK_SIZE
  <2>2. (o + k) % 65536 = o + k
    BY DEF Fits
  <2>. QED BY <2>1, <2>2
<1>7. Absolute(IncrementOffset(inside, k)) = 65536 * j + (o + k)
  <2>1. j \in Int /\ o + k \in Int
    BY <1>3 DEF Fits
  <2>2. Absolute(Address(j, o + k)) = j * 65536 + (o + k)
    BY <2>1, AbsoluteIs
  <2>. QED BY <1>6, <2>1, <2>2
<1>. QED BY <1>3, <1>5, <1>7 DEF q, j

LEMMA NoCell ==
  ASSUME NEW a, Serving(board, a) = 0, NEW k
  PROVE  Cell(board, a, k) = Place(0, 0)
BY DEF Cell, Place

\* Below the UARTs and the kernel's ROM, and in all the other banks, there
\* are only the RAM and the math ROMs, in bank 0 the RAM alone.
LEMMA ClaimsLow ==
  ASSUME board \in BOARDS, NEW b, Fits(b, 256), NEW o, Fits(o, 65536),
         b = 0 => o < 45056,
         NEW n, n = b * 65536 + o, NEW a, a = Address(b, o)
  PROVE  /\ ~Claims(1, a) /\ ~Claims(4, a) /\ ~Claims(5, a)
         /\ Claims(6, a) <=> b < Banks
         /\ b = 0 => ~Claims(2, a) /\ ~Claims(3, a)
<1>1. Banks \in Int /\ 0 <= Banks /\ Banks <= 255
  BY BoardIs, UInt8Bounds
<1>2. b \in Int /\ o \in Int
  BY DEF Fits
<1>3. /\ n \in Int
      /\ \A d \in Devices :
           Claims(d, a) <=> n >= Base(d) /\ n - Base(d) < Extent(d)
  BY <1>2, ClaimsIs
<1>4. n >= 0 /\ (n <= 45055 \/ n >= 65536)
  BY DEF Fits
<1>5. Claims(1, a) <=> n >= 49152 /\ n - 49152 < 16384
  BY <1>3, Extents DEF Devices
<1>6. Claims(4, a) <=> n >= 45056 /\ n - 45056 < 8
  BY <1>3, Extents DEF Devices
<1>7. Claims(5, a) <=> n >= 45312 /\ n - 45312 < 8
  BY <1>3, Extents DEF Devices
<1>8. ~Claims(1, a) /\ ~Claims(4, a) /\ ~Claims(5, a)
  BY <1>3, <1>4, <1>5, <1>6, <1>7
<1>9. Claims(6, a) <=> b < Banks
  <2>1. Claims(6, a) <=> n >= 0 /\ n - 0 < 65536 * Banks
    BY <1>3, Extents DEF Devices
  <2>2. n < 65536 * Banks <=> b < Banks
    BY <1>1 DEF Fits
  <2>. QED BY <1>1, <1>3, <1>4, <2>1, <2>2
<1>10. b = 0 => ~Claims(2, a) /\ ~Claims(3, a)
  <2>1. Claims(2, a) => n >= 14680064
    BY <1>3, Extents DEF Devices
  <2>2. Claims(3, a) => n >= 15728640
    BY <1>3, Extents DEF Devices
  <2>. QED BY <1>3, <2>1, <2>2 DEF Fits
<1>. QED BY <1>8, <1>9, <1>10

LEMMA ServingLow ==
  ASSUME board \in BOARDS, NEW b, Fits(b, 256), NEW o, Fits(o, 65536),
         b = 0 => o < 45056,
         NEW a, a = Address(b, o), NEW i, i = Serving(board, a)
  PROVE  /\ i \in {0, 2, 3, 6}
         /\ i = 6 => b < Banks
         /\ b = 0 => (i = 6 <=> 1 <= Banks) /\ i \in {0, 6}
<1>1. Banks \in Int /\ 0 <= Banks /\ Banks <= 255
  BY BoardIs, UInt8Bounds
<1>2. PICK n : n = b * 65536 + o
  OBVIOUS
<1>3. /\ ~Claims(1, a) /\ ~Claims(4, a) /\ ~Claims(5, a)
      /\ Claims(6, a) <=> b < Banks
      /\ b = 0 => ~Claims(2, a) /\ ~Claims(3, a)
  BY <1>2, ClaimsLow
<1>4. \/ i = 0 /\ \A d \in Devices : ~Claims(d, a)
      \/ /\ i \in Devices /\ Claims(i, a)
         /\ \A d \in Devices : Claims(d, a) => i <= d
  BY ServingIs DEF Claims
<1>. QED BY <1>1, <1>3, <1>4 DEF Devices

LEMMA RamIs ==
  ASSUME board \in BOARDS, NEW b, Fits(b, 256)
  PROVE  /\ IsRam(b) <=> Serving(board, Address(b, 0)) = 6
         /\ IsRam(b) => b < 255
<1> DEFINE a == Address(b, 0)
           i == Serving(board, a)
<1>1. Fits(0, 65536) /\ 0 < 45056
  BY DEF Fits
<1>2. /\ i \in {0, 2, 3, 6} /\ (i = 6 => b < Banks)
      /\ Banks \in Int /\ Banks <= 255
  BY <1>1, ServingLow, BoardIs, UInt8Bounds
<1>3. IsRam(b) <=> i # 0 /\ board[i].kind = "ram"
  BY DEF IsRam
<1>. HIDE DEF i
<1>4. (i # 0 /\ board[i].kind = "ram") <=> i = 6
  BY <1>2, BoardIs
<1>5. i = 6 => b < 255
  BY <1>2 DEF Fits
<1>. QED BY <1>3, <1>4, <1>5 DEF i

LEMMA ZeroPageCell ==
  ASSUME board \in BOARDS, IsRam(0), NEW o, Fits(o, 1000), NEW k, Fits(k, 8)
  PROVE  Cell(board, Address(0, o), k) = Place(6, o + k)
<1>1. Fits(0, 256) /\ Fits(0, 65536) /\ Fits(o, 65536) /\ o < 45056
  BY DEF Fits
<1>2. 1 <= Banks
  <2>1. Serving(board, Address(0, 0)) = 6
    BY <1>1, RamIs
  <2>. QED BY <1>1, <2>1, ServingLow
<1>3. Serving(board, Address(0, o)) = 6
  BY <1>1, <1>2, ServingLow
<1>4. Origin(6) = 0
  BY DEF Origin
<1>5. /\ Fits(o, 65536) /\ Fits(k, 65536) /\ Fits(o + k, 65536)
      /\ o + k \in Int
  BY DEF Fits
<1>6. Cell(board, Address(0, o), k) =
        Place(6, (65536 * (0 - Origin(6))) + (o + k))
  BY <1>1, <1>3, <1>5, CellIs
<1>. QED BY <1>4, <1>5, <1>6

\* The first two bytes of a bank.
LEMMA BankCell ==
  ASSUME board \in BOARDS, NEW b, Fits(b, 256), NEW k \in {0, 1},
         NEW a, a = Address(b, 0), NEW i, i = Serving(board, a), i # 0
  PROVE  /\ i \in {2, 3, 6} /\ Fits(b - Origin(i), 256)
         /\ Cell(board, a, k) = Place(i, (65536 * (b - Origin(i))) + k)
<1>1. Fits(0, 65536) /\ 0 < 45056
  BY DEF Fits
<1>2. i \in {2, 3, 6}
  BY <1>1, ServingLow
<1>3. Fits(0, 65536) /\ Fits(k, 65536) /\ 0 + k = k
  BY DEF Fits
<1>4. /\ Fits(b - Origin(i), 256)
      /\ Cell(board, a, k) = Place(i, (65536 * (b - Origin(i))) + (0 + k))
  BY <1>2, <1>3, CellIs
<1>. QED BY <1>2, <1>3, <1>4

-----------------------------------------------------------------------------
(* The memory.                                                             *)

Offset(cell)   == cell.index % 65536
ZeroPage(o)    == Place(6, o)
Names          == {"sin", "mul"}
TableOffset(t) == IF t = "sin" THEN 16384 ELSE 57360
TableValue(t, k) ==
  IF Present(t) THEN IF k = 0 THEN Low(Tested[t].word)
                              ELSE High(Tested[t].word)
                ELSE 0

\* What the kernel never writes: outside the RAM only the tables' cells have
\* a known content, and the tables hold what they held.
MemoryOK(m) ==
  /\ \A cell \in DOMAIN m : Fits(m[cell], 256)
  /\ \A cell \in DOMAIN m : cell.device # 6 => Offset(cell) >= 16384
  /\ \A t \in Names, k \in {0, 1} :
       Content(m, TableCell(t, k)) = TableValue(t, k)

LEMMA PlaceIs ==
  ASSUME NEW i, NEW n
  PROVE  /\ Place(i, n).device = i /\ Offset(Place(i, n)) = n % 65536
         /\ \A j, p : Place(i, n) = Place(j, p) <=> i = j /\ n = p
BY DEF Place, Offset

LEMMA TestedIs ==
  /\ DOMAIN Tested = Names
  /\ Tested["sin"].word = 23170 /\ Tested["mul"].word = 1920
  /\ Tested["sin"].table = 232 /\ Tested["mul"].table = 254
  /\ Tested["sin"].index = 8192 /\ Tested["mul"].index = 61448
  /\ Tested["sin"].flag = 1 /\ Tested["mul"].flag = 2
BY DEF Tested, Names

LEMMA TableAddressIs ==
  /\ TableAddress("sin") = Address(232, 16384)
  /\ TableAddress("mul") = Address(255, 57360)
<1>1. /\ (65536 * 232 + 2 * 8192) \div 65536 = 232
      /\ (65536 * 232 + 2 * 8192) % 65536 = 16384
  OBVIOUS
<1>2. /\ (65536 * 254 + 2 * 61448) \div 65536 = 255
      /\ (65536 * 254 + 2 * 61448) % 65536 = 57360
  OBVIOUS
<1>. QED BY <1>1, <1>2, TestedIs DEF TableAddress, LongAddress, BANK_SIZE

LEMMA TableCellIs ==
  ASSUME board \in BOARDS, NEW t \in Names, NEW k \in {0, 1},
         NEW i, i = Serving(board, TableAddress(t)), i # 0
  PROVE  /\ TableCell(t, k).device = i
         /\ Offset(TableCell(t, k)) = TableOffset(t) + k
<1>1. PICK b, o : /\ TableAddress(t) = Address(b, o) /\ o = TableOffset(t)
                  /\ Fits(b, 256) /\ b # 0
  <2>1. Fits(232, 256) /\ Fits(255, 256)
    BY DEF Fits
  <2>. QED BY <2>1, TableAddressIs DEF Names, TableOffset
<1>2. /\ Fits(o, 65536) /\ Fits(k, 65536) /\ Fits(o + k, 65536)
      /\ o \in Int /\ o + k \in Int /\ 0 <= o + k /\ o + k < 65536
  BY <1>1 DEF Names, TableOffset, Fits
<1>3. i \in {2, 3, 6}
  BY <1>1, <1>2, ServingLow
<1> DEFINE j == b - Origin(i)
           p == o + k
<1>4. Fits(j, 256) /\ TableCell(t, k) = Place(i, (65536 * j) + p)
  BY <1>1, <1>2, <1>3, CellIs DEF TableCell
<1>. HIDE DEF j, p
<1>5. ((65536 * j) + p) % 65536 = p
  BY <1>2, <1>4 DEF Fits, p
<1>. QED BY <1>1, <1>4, <1>5, PlaceIs DEF p

LEMMA ContentFits ==
  ASSUME NEW m, MemoryOK(m), NEW cell
  PROVE  Fits(Content(m, cell), 256)
BY DEF MemoryOK, Content, Fits

\* A cell of the RAM that is no table's, written.
Scratch(cell) == \E n \in Int : cell = Place(6, n) /\ n % 65536 < 16384

LEMMA StoreRam ==
  ASSUME board \in BOARDS, NEW m, MemoryOK(m), NEW v, Fits(v, 256),
         NEW cell, Scratch(cell), NEW s, s = StoreCell(board, m, cell, v)
  PROVE  /\ MemoryOK(s)
         /\ \A c : Content(s, c) = IF c = cell THEN v ELSE Content(m, c)
<1>0. PICK n \in Int : cell = Place(6, n) /\ n % 65536 < 16384
  BY DEF Scratch
<1>1. cell.device = 6 /\ Offset(cell) = n % 65536
  BY <1>0, PlaceIs
<1>2. s = [x \in DOMAIN m \cup {cell} |-> IF x = cell THEN v ELSE m[x]]
  BY <1>1, BoardIs DEF StoreCell
<1>3. \A c : Content(s, c) = IF c = cell THEN v ELSE Content(m, c)
  BY <1>2 DEF Content
<1>4. \A c \in DOMAIN s : Fits(s[c], 256)
  BY <1>2 DEF MemoryOK
<1>5. \A c \in DOMAIN s : c.device # 6 => Offset(c) >= 16384
  BY <1>1, <1>2 DEF MemoryOK
<1>6. ASSUME NEW t \in Names, NEW k \in {0, 1}
      PROVE  Content(s, TableCell(t, k)) = TableValue(t, k)
  <2>1. Content(m, TableCell(t, k)) = TableValue(t, k)
    BY DEF MemoryOK
  <2>2. TableCell(t, k) # cell
    <3> DEFINE i == Serving(board, TableAddress(t))
    <3>1. CASE i = 0
      <4>1. TableCell(t, k) = Place(0, 0)
        BY <3>1, NoCell DEF TableCell
      <4>. QED BY <1>1, <4>1, PlaceIs
    <3>2. CASE i # 0
      <4>1. Offset(TableCell(t, k)) = TableOffset(t) + k
        BY <3>2, TableCellIs
      <4>2. TableOffset(t) \in Int /\ TableOffset(t) >= 16384
        BY DEF TableOffset, Names
      <4>. QED BY <1>0, <1>1, <4>1, <4>2
    <3>. QED BY <3>1, <3>2
  <2>. QED BY <1>3, <2>1, <2>2
<1>. QED BY <1>3, <1>4, <1>5, <1>6 DEF MemoryOK

LEMMA StoreRom ==
  ASSUME board \in BOARDS, NEW m, NEW i \in {0, 2, 3}, NEW n, NEW v
  PROVE  StoreCell(board, m, Place(i, n), v) = m
BY BoardIs, PlaceIs DEF StoreCell

TableMemory ==
  [cell \in TableCells("sin") \cup TableCells("mul") |->
     IF cell \in TableCells("sin") THEN TableByte("sin", cell)
                                   ELSE TableByte("mul", cell)]

LEMMA InTable ==
  ASSUME board \in BOARDS, NEW t \in Names, NEW cell \in TableCells(t)
  PROVE  /\ Present(t)
         /\ \E k \in {0, 1} : cell = TableCell(t, k)
         /\ Offset(cell) \in {TableOffset(t), TableOffset(t) + 1}
<1>1. Present(t)
  BY DEF TableCells
<1>2. PICK k \in {0, 1} : cell = TableCell(t, k)
  BY <1>1 DEF TableCells
<1>3. Offset(cell) = TableOffset(t) + k
  BY <1>1, <1>2, TableCellIs DEF Present
<1>4. TableOffset(t) + 0 = TableOffset(t)
  BY DEF TableOffset, Names
<1>. QED BY <1>1, <1>2, <1>3, <1>4

LEMMA TableByteIs ==
  ASSUME board \in BOARDS, NEW t \in Names, Present(t), NEW k \in {0, 1}
  PROVE  /\ TableByte(t, TableCell(t, k)) = TableValue(t, k)
         /\ Fits(TableValue(t, k), 256)
         /\ TableCell(t, k) \in TableCells(t)
<1>1. /\ Offset(TableCell(t, 0)) = TableOffset(t) + 0
      /\ Offset(TableCell(t, 1)) = TableOffset(t) + 1
  BY TableCellIs DEF Present
<1>2. TableOffset(t) \in Int
  BY DEF TableOffset, Names
<1>3. TableCell(t, 0) # TableCell(t, 1)
  BY <1>1, <1>2
<1>4. TableByte(t, TableCell(t, k)) = TableValue(t, k)
  BY <1>3 DEF TableByte, TableValue
<1>5. TableValue(t, k) \in {Low(23170), High(23170), Low(1920), High(1920)}
  BY TestedIs DEF TableValue, Names
<1>6. \A x \in {Low(23170), High(23170), Low(1920), High(1920)} : Fits(x, 256)
  BY DEF Low, High, Fits
<1>. QED BY <1>4, <1>5, <1>6 DEF TableCells

LEMMA TableMemoryOK ==
  ASSUME board \in BOARDS
  PROVE  MemoryOK(TableMemory)
<1> DEFINE m == TableMemory
<1>1. DOMAIN m = TableCells("sin") \cup TableCells("mul")
  BY DEF TableMemory
<1>2. /\ \A cell \in TableCells("sin") : m[cell] = TableByte("sin", cell)
      /\ \A cell \in TableCells("mul") : cell \notin TableCells("sin") =>
            m[cell] = TableByte("mul", cell)
  BY DEF TableMemory
<1>. HIDE DEF m
<1>3. /\ \A cell \in TableCells("sin") : Offset(cell) \in {16384, 16385}
      /\ \A cell \in TableCells("mul") : Offset(cell) \in {57360, 57361}
  BY InTable DEF TableOffset, Names
<1>4. ASSUME NEW t \in Names, NEW cell \in TableCells(t)
      PROVE  cell \in DOMAIN m /\ m[cell] = TableByte(t, cell)
  <2>1. CASE t = "sin"
    BY <1>1, <1>2, <2>1
  <2>2. CASE t = "mul"
    BY <1>1, <1>2, <1>3, <2>2
  <2>. QED BY <2>1, <2>2 DEF Names
<1>5. \A cell \in DOMAIN m : \E t \in Names : cell \in TableCells(t)
  BY <1>1 DEF Names
<1>6. \A cell \in DOMAIN m : Fits(m[cell], 256)
  <2>. SUFFICES ASSUME NEW cell \in DOMAIN m PROVE Fits(m[cell], 256)
    OBVIOUS
  <2>1. PICK t \in Names : cell \in TableCells(t)
    BY <1>5
  <2>2. Present(t) /\ \E k \in {0, 1} : cell = TableCell(t, k)
    BY <2>1, InTable
  <2>3. PICK k \in {0, 1} : cell = TableCell(t, k)
    BY <2>2
  <2>. QED BY <1>4, <2>1, <2>2, <2>3, TableByteIs
<1>7. \A cell \in DOMAIN m : Offset(cell) >= 16384
  BY <1>1, <1>3
<1>8. ASSUME NEW t \in Names, NEW k \in {0, 1}
      PROVE  Content(m, TableCell(t, k)) = TableValue(t, k)
  <2> DEFINE cell == TableCell(t, k)
  <2>1. CASE Present(t)
    <3>1. cell \in TableCells(t) /\ TableByte(t, cell) = TableValue(t, k)
      BY <2>1, TableByteIs
    <3>. QED BY <1>4, <3>1 DEF Content
  <2>2. CASE ~Present(t)
    <3>1. cell \notin DOMAIN m
      <4>1. CASE Serving(board, TableAddress(t)) = 0
        <5>1. cell = Place(0, 0)
          BY <4>1, NoCell DEF TableCell
        <5>2. Offset(cell) = 0
          BY <5>1, PlaceIs
        <5>. HIDE DEF cell
        <5>. QED BY <1>7, <5>2
      <4>2. CASE Serving(board, TableAddress(t)) # 0
        <5>1. Offset(cell) = TableOffset(t) + k
          BY <4>2, TableCellIs
        <5>2. cell \notin TableCells(t)
          BY <2>2 DEF TableCells
        <5>3. \A u \in Names : u # t => cell \notin TableCells(u)
          <6>. HIDE DEF cell
          <6>. QED BY <1>3, <5>1 DEF TableOffset, Names
        <5>. HIDE DEF cell
        <5>. QED BY <1>5, <5>2, <5>3
      <4>. QED BY <4>1, <4>2
    <3>. QED BY <2>2, <3>1 DEF Content, TableValue
  <2>. QED BY <2>1, <2>2
<1>. QED BY <1>6, <1>7, <1>8 DEF MemoryOK, m

-----------------------------------------------------------------------------
(* The zero page and the probes.                                           *)

Byte(m, o) == Content(m, ZeroPage(o))

LEMMA ByteFits ==
  ASSUME NEW m, MemoryOK(m), NEW o
  PROVE  Fits(Byte(m, o), 256)
BY ContentFits DEF Byte

LEMMA ZeroPageScratch ==
  ASSUME NEW o, Fits(o, 1000)
  PROVE  Scratch(ZeroPage(o))
<1>1. o \in Int /\ o % 65536 < 16384
  BY DEF Fits
<1>. QED BY <1>1 DEF Scratch, ZeroPage

LEMMA ReadZeroPage ==
  ASSUME board \in BOARDS, IsRam(0), NEW m, NEW o, Fits(o, 32)
  PROVE  /\ ReadByte(board, m, Address(0, o)) = Byte(m, o)
         /\ ReadTwoBytes(board, m, Address(0, o)) =
              256 * Byte(m, o + 1) + Byte(m, o)
         /\ ReadAddressAt(board, m, Address(0, o)) =
              Address(Byte(m, o + 2), 256 * Byte(m, o + 1) + Byte(m, o))
<1>1. Fits(o, 1000) /\ Fits(0, 8) /\ Fits(1, 8) /\ Fits(2, 8) /\ o + 0 = o
  BY DEF Fits
<1>2. /\ Cell(board, Address(0, o), 0) = ZeroPage(o)
      /\ Cell(board, Address(0, o), 1) = ZeroPage(o + 1)
      /\ Cell(board, Address(0, o), 2) = ZeroPage(o + 2)
  BY <1>1, ZeroPageCell DEF ZeroPage
<1>3. Serving(board, Address(0, o)) # 0
  <2>1. Cell(board, Address(0, o), 0).device = 6
    BY <1>2, PlaceIs DEF ZeroPage
  <2>. QED BY <2>1, NoCell, PlaceIs
<1>4. ReadTwoBytes(board, m, Address(0, o)) = 256 * Byte(m, o + 1) + Byte(m, o)
  BY <1>2 DEF ReadTwoBytes, Byte
<1>. QED BY <1>2, <1>3, <1>4 DEF ReadByte, ReadAddressAt, Byte

LEMMA StoreZeroPageByte ==
  ASSUME board \in BOARDS, IsRam(0), NEW m, MemoryOK(m), NEW o, Fits(o, 32),
         NEW v, Fits(v, 256), NEW s, s = StoreByte(board, m, Address(0, o), v)
  PROVE  /\ MemoryOK(s) /\ Byte(s, o) = v
         /\ \A p : p # o => Byte(s, p) = Byte(m, p)
<1>1. Fits(o, 1000) /\ Fits(0, 8) /\ o + 0 = o
  BY DEF Fits
<1>2. Cell(board, Address(0, o), 0) = ZeroPage(o)
  BY <1>1, ZeroPageCell DEF ZeroPage
<1>3. s = StoreCell(board, m, ZeroPage(o), v)
  BY <1>2 DEF StoreByte
<1>4. /\ MemoryOK(s)
      /\ \A c : Content(s, c) = IF c = ZeroPage(o) THEN v ELSE Content(m, c)
  BY <1>1, <1>3, ZeroPageScratch, StoreRam
<1>5. \A p : ZeroPage(p) = ZeroPage(o) <=> p = o
  BY PlaceIs DEF ZeroPage
<1>. QED BY <1>4, <1>5 DEF Byte

LEMMA StoreZeroPage ==
  ASSUME board \in BOARDS, IsRam(0), NEW m, MemoryOK(m), NEW o, Fits(o, 32),
         NEW v, Fits(v, 65536),
         NEW s, s = StoreTwoBytes(board, m, Address(0, o), v)
  PROVE  /\ MemoryOK(s) /\ Byte(s, o) = Low(v) /\ Byte(s, o + 1) = High(v)
         /\ \A p : p # o /\ p # o + 1 => Byte(s, p) = Byte(m, p)
<1> DEFINE l == Low(v)
           h == High(v)
           q == o + 1
           r == StoreCell(board, m, ZeroPage(o), l)
<1>1. /\ Fits(o, 1000) /\ Fits(0, 8) /\ Fits(1, 8) /\ o + 0 = o
      /\ Fits(q, 1000) /\ o # q
  BY DEF Fits
<1>2. /\ Cell(board, Address(0, o), 0) = ZeroPage(o)
      /\ Cell(board, Address(0, o), 1) = ZeroPage(q)
  BY <1>1, ZeroPageCell DEF ZeroPage
<1>3. s = StoreCell(board, r, ZeroPage(q), h)
  BY <1>2 DEF StoreTwoBytes, Low, High
<1>4. Fits(l, 256) /\ Fits(h, 256)
  BY Bytes
<1>. HIDE DEF l, h, q
<1>5. /\ MemoryOK(r)
      /\ \A c : Content(r, c) = IF c = ZeroPage(o) THEN l ELSE Content(m, c)
  BY <1>1, <1>4, ZeroPageScratch, StoreRam
<1>. HIDE DEF r
<1>6. /\ MemoryOK(s)
      /\ \A c : Content(s, c) = IF c = ZeroPage(q) THEN h ELSE Content(r, c)
  BY <1>1, <1>3, <1>4, <1>5, ZeroPageScratch, StoreRam
<1>7. \A x, y : ZeroPage(x) = ZeroPage(y) <=> x = y
  BY PlaceIs DEF ZeroPage
<1>. QED BY <1>1, <1>5, <1>6, <1>7 DEF Byte, l, h, q

\* A pattern written over the first word of a bank is read again exactly if
\* the bank is RAM.
LEMMA Probes ==
  ASSUME board \in BOARDS, NEW m, MemoryOK(m), NEW b, Fits(b, 256),
         NEW v, Fits(v, 65536), v # 0,
         NEW s, s = StoreTwoBytes(board, m, Address(b, 0), v),
         NEW got, got = ReadTwoBytes(board, s, Address(b, 0))
  PROVE  MemoryOK(s) /\ Fits(got, 65536) /\ (got = v <=> IsRam(b))
<1> DEFINE a  == Address(b, 0)
           i  == Serving(board, a)
           c0 == Cell(board, a, 0)
           c1 == Cell(board, a, 1)
           l  == Low(v)
           h  == High(v)
           r  == StoreCell(board, m, c0, l)
<1>1. /\ Fits(l, 256) /\ Fits(h, 256)
      /\ s = StoreCell(board, r, c1, h)
      /\ got = 256 * Content(s, c1) + Content(s, c0)
  BY Bytes DEF StoreTwoBytes, ReadTwoBytes, Low, High
<1>2. Fits(0, 65536)
  BY DEF Fits
<1>3. i \in {0, 2, 3, 6} /\ (IsRam(b) <=> i = 6)
  BY <1>2, ServingLow, RamIs
<1>4. v = 256 * h + l /\ v # 0
  BY Bytes DEF Word
<1>. HIDE DEF l, h
<1>5. CASE i = 6
  <2> DEFINE n == 65536 * (b - Origin(6))
             p == n + 1
  <2>1. /\ Fits(b - Origin(6), 256)
        /\ c0 = Place(6, n + 0) /\ c1 = Place(6, p)
    BY <1>5, BankCell
  <2>2. /\ n \in Int /\ p \in Int /\ n # p /\ n + 0 = n
        /\ n % 65536 = 0 /\ p % 65536 = 1
    BY <2>1 DEF Fits
  <2>. HIDE DEF n, p
  <2>3. c0 = Place(6, n) /\ c1 = Place(6, p)
    BY <2>1, <2>2
  <2>4. c0 # c1 /\ Scratch(c0) /\ Scratch(c1)
    BY <2>2, <2>3, PlaceIs DEF Scratch
  <2>. HIDE DEF c0, c1
  <2>5. /\ MemoryOK(r)
        /\ \A c : Content(r, c) = IF c = c0 THEN l ELSE Content(m, c)
    BY <1>1, <2>4, StoreRam
  <2>. HIDE DEF r
  <2>6. /\ MemoryOK(s)
        /\ \A c : Content(s, c) = IF c = c1 THEN h ELSE Content(r, c)
    BY <1>1, <2>4, <2>5, StoreRam
  <2>7. Content(s, c1) = h /\ Content(s, c0) = l
    BY <2>4, <2>5, <2>6
  <2>. QED BY <1>1, <1>3, <1>4, <1>5, <2>6, <2>7
<1>6. CASE i \in {0, 2, 3}
  <2>1. \E n \in Int, p \in Int :
          /\ c0 = Place(i, n) /\ c1 = Place(i, p)
          /\ n % 65536 = 0 /\ p % 65536 \in {0, 1}
    <3>1. CASE i = 0
      <4>1. c0 = Place(0, 0) /\ c1 = Place(0, 0)
        BY <3>1, NoCell
      <4>. QED BY <3>1, <4>1
    <3>2. CASE i # 0
      <4> DEFINE n == 65536 * (b - Origin(i))
      <4>1. /\ Fits(b - Origin(i), 256) /\ c0 = Place(i, n + 0)
            /\ c1 = Place(i, n + 1)
        BY <3>2, BankCell
      <4>2. /\ n + 0 \in Int /\ n + 1 \in Int
            /\ (n + 0) % 65536 = 0 /\ (n + 1) % 65536 = 1
        BY <4>1 DEF Fits
      <4>. QED BY <4>1, <4>2
    <3>. QED BY <3>1, <3>2
  <2>2. PICK n \in Int, p \in Int :
          /\ c0 = Place(i, n) /\ c1 = Place(i, p)
          /\ n % 65536 = 0 /\ p % 65536 \in {0, 1}
    BY <2>1
  <2>. HIDE DEF c0, c1, i
  <2>3. r = m
    BY <1>6, <2>2, StoreRom
  <2>4. s = m
    BY <1>1, <1>6, <2>2, <2>3, StoreRom
  <2>5. /\ c0.device # 6 /\ Offset(c0) \in {0, 1}
        /\ c1.device # 6 /\ Offset(c1) \in {0, 1}
    BY <1>6, <2>2, PlaceIs
  <2>6. Content(s, c0) = 0 /\ Content(s, c1) = 0
    BY <2>4, <2>5 DEF MemoryOK, Content
  <2>7. got = 0
    BY <1>1, <2>6
  <2>8. Fits(0, 65536)
    BY DEF Fits
  <2>. QED BY <1>3, <1>4, <1>6, <2>4, <2>7, <2>8
<1>. QED BY <1>3, <1>5, <1>6

-----------------------------------------------------------------------------
(* The processor in native mode, its accumulator wide and its index        *)
(* registers narrow, as the kernel runs it.                                *)

Flags == {"c", "z", "i", "d", "b", "x", "m", "v", "n", "e"}
Cpus ==
  [A : UInt16, X : UInt16, Y : UInt16, D : UInt16, DB : UInt8,
   P : SUBSET Flags, pb : UInt8, pc : UInt16, sp : UInt16,
   ram : [STACK -> UInt8], RES : BOOLEAN, RDY : BOOLEAN]

Mixed(P) == /\ P \in SUBSET Flags
            /\ "e" \notin P /\ "m" \notin P /\ "d" \notin P /\ "x" \in P
Native(c) == /\ c \in Cpus /\ c.D = 0 /\ c.X \in UInt8 /\ c.Y \in UInt8
             /\ Mixed(c.P) /\ ~c.RES

\* Only the program counter and the fields named differ.
SameRegisters(c, d) == d.A = c.A /\ d.X = c.X /\ d.Y = c.Y /\ d.DB = c.DB
SameStack(c, d)     == d.sp = c.sp /\ d.ram = c.ram
Same(c, d) == SameRegisters(c, d) /\ SameStack(c, d) /\ d.P = c.P

LEMMA StackBounds ==
  /\ \A a \in Int : 1008 <= a /\ a <= 1023 => a \in STACK
  /\ \A a \in STACK : a \in UInt16
BY KernelPostAssumption

LEMMA FitsBytes ==
  /\ \A v : v \in UInt8 <=> Fits(v, 256)
  /\ \A v : v \in UInt16 <=> Fits(v, 65536)
BY UInt8Bounds, UInt16Bounds DEF Fits

LEMMA Wrapped ==
  ASSUME NEW v \in Int
  PROVE  /\ Wrap(v) \in UInt16
         /\ 0 <= v /\ v <= 65535 => Wrap(v) = v
BY UInt16Bounds DEF Wrap

LEMMA MixedAfter ==
  ASSUME NEW P, Mixed(P), NEW r \in Int, NEW W \in Int,
         NEW Q, Q = SignZero(P, r, W)
  PROVE  Mixed(Q) /\ ("z" \in Q <=> r = 0)
<1>1. \A g : g \notin {"n", "z"} => (g \in Q <=> g \in P)
  BY SignZeroFlags
<1>2. Q \subseteq Flags
  BY DEF SignZero, Put, Mixed, Flags
<1>3. "z" \in Q <=> r = 0
  BY DEF SignZero, Put
<1>. QED BY <1>1, <1>2, <1>3 DEF Mixed

LEMMA Advanced ==
  ASSUME NEW c, Native(c), NEW n \in Int, NEW d, d = Advance(c, n)
  PROVE  Native(d) /\ Same(c, d)
<1>1. c.pc + n \in Int
  BY UInt16Bounds DEF Native, Cpus
<1>2. Wrap(c.pc + n) \in UInt16
  BY <1>1, Wrapped
<1> DEFINE w == Wrap(c.pc + n)
<1>3. d = [c EXCEPT !.pc = w]
  BY DEF Advance
<1>. HIDE DEF w
<1>. QED BY <1>2, <1>3 DEF Native, Cpus, Same, SameRegisters, SameStack, w

LEMMA Jumped ==
  ASSUME NEW c, Native(c), NEW w \in UInt16, NEW d, d = [c EXCEPT !.pc = w]
  PROVE  Native(d) /\ Same(c, d)
BY DEF Native, Cpus, Same, SameRegisters, SameStack

LEMMA Pushed8 ==
  ASSUME NEW c, Native(c), NEW v \in UInt8, c.sp \in STACK, c.sp >= 1,
         NEW d, d = Push8(c, v)
  PROVE  /\ Native(d) /\ SameRegisters(c, d) /\ d.P = c.P /\ d.sp = c.sp - 1
         /\ d.ram[c.sp] = v
         /\ \A a \in STACK : a # c.sp => d.ram[a] = c.ram[a]
<1>0. c \in Cpus
  BY DEF Native
<1>1. c.sp - 1 \in UInt16 /\ c.sp - 1 \in Int
  BY UInt16Bounds DEF Native, Cpus
<1>2. Wrap(c.sp - 1) = c.sp - 1
  BY <1>1, Wrapped, UInt16Bounds
<1>3. c.ram \in [STACK -> UInt8]
  BY DEF Native, Cpus
<1> DEFINE r == IF c.sp \in DOMAIN c.ram THEN [c.ram EXCEPT ![c.sp] = v]
                                         ELSE c.ram
<1>4. /\ r \in [STACK -> UInt8] /\ r[c.sp] = v
      /\ \A a \in STACK : a # c.sp => r[a] = c.ram[a]
  BY <1>3
<1>5. d = [c EXCEPT !.ram = r, !.sp = c.sp - 1]
  BY <1>2, Zenon DEF Push8
<1>. HIDE DEF r
<1>6. /\ d.ram = r /\ d.sp = c.sp - 1 /\ d.P = c.P /\ d.D = c.D
      /\ d.RES = c.RES /\ d.A = c.A /\ d.X = c.X /\ d.Y = c.Y /\ d.DB = c.DB
      /\ d \in Cpus
  BY <1>0, <1>1, <1>4, <1>5, Zenon DEF Cpus
<1>. QED BY <1>4, <1>6 DEF Native, SameRegisters

LEMMA Pushed16 ==
  ASSUME NEW c, Native(c), NEW v \in UInt16, c.sp \in STACK, c.sp - 1 \in STACK,
         c.sp >= 2, NEW d, d = Push16(c, v)
  PROVE  /\ Native(d) /\ SameRegisters(c, d) /\ d.P = c.P /\ d.sp = c.sp - 2
         /\ d.ram[c.sp] = High(v) /\ d.ram[c.sp - 1] = Low(v)
         /\ \A a \in STACK :
              a # c.sp /\ a # c.sp - 1 => d.ram[a] = c.ram[a]
<1> DEFINE e == Push8(c, High(v))
<1>1. c.sp \in Int /\ c.sp >= 1 /\ c.sp - 1 >= 1
  BY UInt16Bounds DEF Native, Cpus
<1>2. High(v) \in UInt8 /\ Low(v) \in UInt8
  BY FitsBytes, Bytes
<1>. HIDE DEF e
<1>3. /\ Native(e) /\ SameRegisters(c, e) /\ e.P = c.P /\ e.sp = c.sp - 1
      /\ e.ram[c.sp] = High(v)
      /\ \A a \in STACK : a # c.sp => e.ram[a] = c.ram[a]
  BY <1>1, <1>2, Pushed8 DEF e
<1>4. d = Push8(e, Low(v))
  BY DEF Push16, e
<1>5. /\ Native(d) /\ SameRegisters(e, d) /\ d.P = e.P /\ d.sp = e.sp - 1
      /\ d.ram[e.sp] = Low(v)
      /\ \A a \in STACK : a # e.sp => d.ram[a] = e.ram[a]
  BY <1>1, <1>2, <1>3, <1>4, Pushed8
<1>. QED BY <1>1, <1>3, <1>5 DEF SameRegisters

LEMMA Peeked ==
  ASSUME NEW c, Native(c), NEW n \in Int, 0 <= n, c.sp + n \in STACK
  PROVE  Peek(c, n) = c.ram[c.sp + n] /\ Peek(c, n) \in UInt8
<1>1. c.sp + n \in Int /\ 0 <= c.sp + n /\ c.sp + n <= 65535
  BY StackBounds, UInt16Bounds DEF Native, Cpus
<1>2. Wrap(c.sp + n) = c.sp + n
  BY <1>1, Wrapped
<1>3. c.ram \in [STACK -> UInt8]
  BY DEF Native, Cpus
<1>. QED BY <1>2, <1>3 DEF Peek

LEMMA Dropped ==
  ASSUME NEW c, Native(c), NEW n \in Int, 0 <= n, c.sp + n <= 65535,
         NEW d, d = Drop(c, n)
  PROVE  /\ Native(d) /\ SameRegisters(c, d) /\ d.P = c.P
         /\ d.sp = c.sp + n /\ d.ram = c.ram
<1>1. c.sp + n \in Int /\ c.sp + n \in UInt16 /\ 0 <= c.sp + n
  BY UInt16Bounds DEF Native, Cpus
<1>2. Wrap(c.sp + n) = c.sp + n
  BY <1>1, Wrapped
<1> DEFINE s == c.sp + n
<1>3. d = [c EXCEPT !.sp = s]
  BY <1>2 DEF Drop
<1>. HIDE DEF s
<1>4. s \in UInt16
  BY <1>1 DEF s
<1>5. /\ Native(d) /\ SameRegisters(c, d) /\ d.P = c.P
      /\ d.sp = s /\ d.ram = c.ram
  BY <1>3, <1>4 DEF Native, Cpus, SameRegisters
<1>. QED BY <1>5 DEF s

-----------------------------------------------------------------------------
(* The instructions of the self-test.                                      *)

Modes(c) == ~A8(c) /\ X8(c) /\ ~Emulation(c)

LEMMA NativeModes ==
  ASSUME NEW c, Native(c)
  PROVE  Modes(c)
BY DEF Native, Mixed, Modes, A8, X8, Emulation

LEMMA SpIsInt ==
  ASSUME NEW c, Native(c)
  PROVE  c.sp \in Int /\ c.sp \in UInt16 /\ c.ram \in [STACK -> UInt8]
BY UInt16Bounds DEF Native, Cpus

\* Room for a word at the stack pointer, and a word above it.
Room(c)  == c.sp \in STACK /\ c.sp - 1 \in STACK /\ c.sp >= 2
Above(c) == c.sp + 1 \in STACK /\ c.sp + 2 \in STACK

\* d is c with the word v pushed.
WordPushed(c, d, v) ==
  /\ Native(d) /\ SameRegisters(c, d) /\ d.P = c.P /\ d.sp = c.sp - 2
  /\ d.ram[c.sp] = High(v) /\ d.ram[c.sp - 1] = Low(v)
  /\ \A a \in STACK : a # c.sp /\ a # c.sp - 1 => d.ram[a] = c.ram[a]

LEMMA PEAIs ==
  ASSUME NEW c, Native(c), Room(c), NEW v \in UInt16, NEW d,
         d = PEA(c, v) \/ d = PEI(c, v)
  PROVE  WordPushed(c, d, v)
<1> DEFINE e == Push16(c, v)
<1>. HIDE DEF e
<1>1. WordPushed(c, e, v)
  BY Pushed16 DEF Room, WordPushed, e
<1>2. Native(d) /\ Same(e, d)
  BY <1>1, Advanced DEF WordPushed, PEA, PEI, e
<1>. QED BY <1>1, <1>2 DEF WordPushed, Same, SameRegisters, SameStack

LEMMA JSRIs ==
  ASSUME NEW c, Native(c), Room(c), NEW d, d = JSR(c, 0)
  PROVE  \E v \in UInt16 : WordPushed(c, d, v)
<1> DEFINE v == Wrap(c.pc + 2)
           e == Push16(c, v)
<1>1. v \in UInt16
  BY Wrapped, UInt16Bounds DEF Native, Cpus
<1>2. d = [e EXCEPT !.pc = 0]
  BY DEF JSR
<1>. HIDE DEF e, v
<1>3. WordPushed(c, e, v)
  BY <1>1, Pushed16 DEF Room, WordPushed, e
<1>4. 0 \in UInt16
  BY UInt16Bounds
<1>5. Native(d) /\ Same(e, d)
  BY <1>2, <1>3, <1>4, Jumped DEF WordPushed
<1>6. WordPushed(c, d, v)
  BY <1>3, <1>5 DEF WordPushed, Same, SameRegisters, SameStack
<1>. QED BY <1>1, <1>6

LEMMA Peeked16 ==
  ASSUME NEW c, Native(c), Above(c), NEW lo, lo = c.ram[c.sp + 1],
         NEW hi, hi = c.ram[c.sp + 2]
  PROVE  /\ Peek16(c, 1) \in {Word(hi, lo), Word(lo, hi)}
         /\ Peek16(c, 1) \in UInt16
<1>1. c.sp \in Int /\ 1 + 1 = 2
  BY SpIsInt
<1>2. Peek(c, 1) = lo /\ lo \in UInt8 /\ Peek(c, 2) = hi /\ hi \in UInt8
  BY <1>1, Peeked DEF Above
<1>3. Peek16(c, 1) \in {Word(hi, lo), Word(lo, hi)}
  BY <1>1, <1>2 DEF Peek16
<1>4. Word(hi, lo) \in UInt16 /\ Word(lo, hi) \in UInt16
  BY <1>2, WordOfBytes, FitsBytes
<1>. QED BY <1>3, <1>4

LEMMA RTSIs ==
  ASSUME NEW c, Native(c), Above(c), NEW d, d = RTS(c)
  PROVE  /\ Native(d) /\ SameRegisters(c, d) /\ d.P = c.P
         /\ d.sp = c.sp + 2 /\ d.ram = c.ram
<1> DEFINE e == Drop(c, 2)
           w == Wrap(Peek16(c, 1) + 1)
<1>1. Peek16(c, 1) \in UInt16
  BY Peeked16
<1>2. w \in UInt16
  BY <1>1, Wrapped, UInt16Bounds
<1>3. d = [e EXCEPT !.pc = w]
  BY DEF RTS
<1>. HIDE DEF e, w
<1>4. c.sp + 2 <= 65535
  BY StackBounds, UInt16Bounds DEF Above
<1>5. /\ Native(e) /\ SameRegisters(c, e) /\ e.P = c.P
      /\ e.sp = c.sp + 2 /\ e.ram = c.ram
  BY <1>4, Dropped DEF e
<1>6. Native(d) /\ Same(e, d)
  BY <1>2, <1>3, <1>5, Jumped
<1>. QED BY <1>5, <1>6 DEF Same, SameRegisters, SameStack

\* d is c with v loaded into the accumulator.
ALoaded(c, d, v) ==
  /\ Native(d) /\ d.A = v /\ d.X = c.X /\ d.Y = c.Y /\ d.DB = c.DB
  /\ SameStack(c, d) /\ ("z" \in d.P <=> v = 0)

LEMMA LoadA ==
  ASSUME NEW c, Native(c), NEW v \in UInt16,
         NEW d, d = LoadReg(c, "A", A8(c), v)
  PROVE  ALoaded(c, d, v)
<1> DEFINE Q == Update16(c.P, v)
<1>1. Mixed(Q) /\ ("z" \in Q <=> v = 0)
  BY MixedAfter, UInt16Bounds DEF Native, Update16
<1>2. d = [c EXCEPT !.A = v, !.P = Q]
  <2>1. ~A8(c)
    BY NativeModes DEF Modes
  <2>. QED BY <2>1 DEF LoadReg
<1>. HIDE DEF Q
<1>3. c \in Cpus /\ Q \in SUBSET Flags
  BY <1>1 DEF Native, Mixed
<1>4. /\ d.A = v /\ d.P = Q /\ d.X = c.X /\ d.Y = c.Y /\ d.DB = c.DB
      /\ d.D = c.D /\ d.RES = c.RES /\ d.sp = c.sp /\ d.ram = c.ram
      /\ d \in Cpus
  BY <1>2, <1>3, Zenon DEF Cpus
<1>. QED BY <1>1, <1>4 DEF Native, ALoaded, SameStack

LEMMA LDAIs ==
  ASSUME NEW c, Native(c), NEW v \in UInt16, NEW d, d = LDA(c, v)
  PROVE  ALoaded(c, d, v)
<1> DEFINE e == LoadReg(c, "A", A8(c), v)
<1>1. d = Advance(e, 3)
  BY NativeModes DEF LDA, Modes
<1>. HIDE DEF e
<1>2. ALoaded(c, e, v)
  BY LoadA DEF e
<1>3. Native(d) /\ Same(e, d)
  BY <1>1, <1>2, Advanced DEF ALoaded
<1>. QED BY <1>2, <1>3 DEF ALoaded, Same, SameRegisters, SameStack

LEMMA PLAIs ==
  ASSUME NEW c, Native(c), Above(c), NEW d, d = PLA(c),
         NEW v, v = Peek16(c, 1)
  PROVE  /\ Native(d) /\ d.A = v /\ d.X = c.X /\ d.Y = c.Y /\ d.DB = c.DB
         /\ d.sp = c.sp + 2 /\ d.ram = c.ram /\ ("z" \in d.P <=> v = 0)
<1> DEFINE e == Drop(c, 2)
           f == LoadReg(e, "A", A8(e), v)
<1>1. c.sp + 2 <= 65535 /\ v \in UInt16
  BY StackBounds, UInt16Bounds, Peeked16 DEF Above
<1>2. /\ Native(e) /\ SameRegisters(c, e) /\ e.P = c.P
      /\ e.sp = c.sp + 2 /\ e.ram = c.ram
  BY <1>1, Dropped
<1>3. ~A8(c) /\ ~A8(e)
  BY <1>2, NativeModes DEF Modes
<1>4. d = Advance(f, 1)
  <2>1. A8(c) = FALSE /\ A8(e) = FALSE
    BY <1>3 DEF A8, Emulation
  <2>. QED BY <2>1, Zenon DEF PLA, PullReg, LoadReg
<1>. HIDE DEF e, f
<1>5. ALoaded(e, f, v)
  BY <1>1, <1>2, LoadA DEF f
<1>6. Native(d) /\ Same(f, d)
  BY <1>4, <1>5, Advanced DEF ALoaded
<1>. QED BY <1>2, <1>5, <1>6 DEF ALoaded, Same, SameRegisters, SameStack

\* d is c with the byte v in X, or in Y.
XLoaded(c, d, v) ==
  /\ Native(d) /\ d.A = c.A /\ d.X = v /\ d.Y = c.Y /\ d.DB = c.DB
  /\ SameStack(c, d) /\ ("z" \in d.P <=> v = 0)
YLoaded(c, d, v) ==
  /\ Native(d) /\ d.A = c.A /\ d.X = c.X /\ d.Y = v /\ d.DB = c.DB
  /\ SameStack(c, d) /\ ("z" \in d.P <=> v = 0)

LEMMA NarrowWord ==
  ASSUME NEW x \in UInt8, NEW v \in UInt8
  PROVE  Word(High(x), v) = v
BY UInt8Bounds DEF Word, High

LEMMA LoadX ==
  ASSUME NEW c, Native(c), NEW v, Low(v) \in UInt8,
         NEW d, d = LoadReg(c, "X", X8(c), v)
  PROVE  XLoaded(c, d, Low(v))
<1> DEFINE w == Low(v)
           Q == Update8(c.P, w)
<1>1. Mixed(Q) /\ ("z" \in Q <=> w = 0)
  BY MixedAfter, UInt8Bounds DEF Native, Update8
<1>2. d = [c EXCEPT !.X = w, !.P = Q]
  <2>1. X8(c)
    BY NativeModes DEF Modes
  <2>2. Word(High(c.X), w) = w
    BY NarrowWord DEF Native
  <2>. QED BY <2>1, <2>2 DEF LoadReg
<1>3. c \in Cpus /\ Q \in SUBSET Flags /\ w \in UInt16
  BY <1>1, UInt8Bounds, UInt16Bounds DEF Native, Mixed
<1>. HIDE DEF Q, w
<1>4. /\ d.X = w /\ d.P = Q /\ d.A = c.A /\ d.Y = c.Y /\ d.DB = c.DB
      /\ d.D = c.D /\ d.RES = c.RES /\ d.sp = c.sp /\ d.ram = c.ram
      /\ d \in Cpus
  BY <1>2, <1>3, Zenon DEF Cpus
<1>5. w \in UInt8
  BY DEF w
<1>6. XLoaded(c, d, w)
  BY <1>1, <1>4, <1>5 DEF Native, XLoaded, SameStack
<1>. QED BY <1>6 DEF w

LEMMA LoadY ==
  ASSUME NEW c, Native(c), NEW v, Low(v) \in UInt8,
         NEW d, d = LoadReg(c, "Y", X8(c), v)
  PROVE  YLoaded(c, d, Low(v))
<1> DEFINE w == Low(v)
           Q == Update8(c.P, w)
<1>1. Mixed(Q) /\ ("z" \in Q <=> w = 0)
  BY MixedAfter, UInt8Bounds DEF Native, Update8
<1>2. d = [c EXCEPT !.Y = w, !.P = Q]
  <2>1. X8(c)
    BY NativeModes DEF Modes
  <2>2. Word(High(c.Y), w) = w
    BY NarrowWord DEF Native
  <2>. QED BY <2>1, <2>2 DEF LoadReg
<1>3. c \in Cpus /\ Q \in SUBSET Flags /\ w \in UInt16
  BY <1>1, UInt8Bounds, UInt16Bounds DEF Native, Mixed
<1>. HIDE DEF Q, w
<1>4. /\ d.Y = w /\ d.P = Q /\ d.A = c.A /\ d.X = c.X /\ d.DB = c.DB
      /\ d.D = c.D /\ d.RES = c.RES /\ d.sp = c.sp /\ d.ram = c.ram
      /\ d \in Cpus
  BY <1>2, <1>3, Zenon DEF Cpus
<1>5. w \in UInt8
  BY DEF w
<1>6. YLoaded(c, d, w)
  BY <1>1, <1>4, <1>5 DEF Native, YLoaded, SameStack
<1>. QED BY <1>6 DEF w

LEMMA LowOfByte ==
  ASSUME NEW v \in UInt8
  PROVE  Low(v) = v
BY UInt8Bounds DEF Low

LEMMA LDXIs ==
  ASSUME NEW c, Native(c), NEW v \in UInt8, NEW d, d = LDX(c, v)
  PROVE  XLoaded(c, d, v)
<1> DEFINE e == LoadReg(c, "X", X8(c), v)
<1>1. d = Advance(e, 2)
  BY NativeModes DEF LDX, Modes
<1>. HIDE DEF e
<1>2. XLoaded(c, e, v)
  BY LoadX, LowOfByte DEF e
<1>3. Native(d) /\ Same(e, d)
  BY <1>1, <1>2, Advanced DEF XLoaded
<1>. QED BY <1>2, <1>3 DEF XLoaded, Same, SameRegisters, SameStack

LEMMA LDYIs ==
  ASSUME NEW c, Native(c), NEW v \in UInt8, NEW d, d = LDY(c, v)
  PROVE  YLoaded(c, d, v)
<1> DEFINE e == LoadReg(c, "Y", X8(c), v)
<1>1. d = Advance(e, 2)
  BY NativeModes DEF LDY, Modes
<1>. HIDE DEF e
<1>2. YLoaded(c, e, v)
  BY LoadY, LowOfByte DEF e
<1>3. Native(d) /\ Same(e, d)
  BY <1>1, <1>2, Advanced DEF YLoaded
<1>. QED BY <1>2, <1>3 DEF YLoaded, Same, SameRegisters, SameStack

LEMMA INCDECXIs ==
  ASSUME NEW c, Native(c), NEW by \in {1, -1}, c.X + by \in UInt8,
         NEW d, d = INCDEC_X(c, by)
  PROVE  XLoaded(c, d, c.X + by)
<1> DEFINE v == c.X + by
           e == LoadReg(c, "X", X8(c), v)
<1>1. Wrap(v) = v
  BY Wrapped, UInt8Bounds
<1>2. d = Advance(e, 1)
  BY <1>1 DEF INCDEC_X, Step
<1>3. v \in UInt8 /\ Low(v) = v
  BY LowOfByte
<1>. HIDE DEF e, v
<1>4. XLoaded(c, e, v)
  BY <1>3, LoadX DEF e
<1>5. Native(d) /\ Same(e, d)
  BY <1>2, <1>4, Advanced DEF XLoaded
<1>6. XLoaded(c, d, v)
  BY <1>4, <1>5 DEF XLoaded, Same, SameRegisters, SameStack
<1>. QED BY <1>6 DEF v

\* The stack pointer set from the accumulator.
LEMMA TCSIs ==
  ASSUME NEW c, Native(c), NEW d, d = TCS(c)
  PROVE  /\ Native(d) /\ SameRegisters(c, d) /\ d.P = c.P
         /\ d.sp = c.A /\ d.ram = c.ram
<1> DEFINE e == [c EXCEPT !.sp = c.A]
<1>1. d = Advance(e, 1)
  <2>1. ~Emulation(c)
    BY NativeModes DEF Modes
  <2>. QED BY <2>1 DEF TCS
<1>2. c \in Cpus /\ c.A \in UInt16
  BY DEF Native, Cpus
<1>3. /\ e \in Cpus /\ e.sp = c.A /\ e.ram = c.ram /\ e.A = c.A /\ e.X = c.X
      /\ e.Y = c.Y /\ e.DB = c.DB /\ e.P = c.P /\ e.D = c.D /\ e.RES = c.RES
  BY <1>2, Zenon DEF Cpus
<1>. HIDE DEF e
<1>4. Native(e)
  BY <1>3 DEF Native
<1>5. Native(d) /\ Same(e, d)
  BY <1>1, <1>4, Advanced
<1>. QED BY <1>3, <1>5 DEF Same, SameRegisters, SameStack

\* A narrow register pushed, and the data bank pulled.
LEMMA PHXYIs ==
  ASSUME NEW c, Native(c), c.sp \in STACK, c.sp >= 1, NEW v, NEW d,
         \/ v = c.X /\ d = PHX(c)
         \/ v = c.Y /\ d = PHY(c)
  PROVE  /\ Native(d) /\ SameRegisters(c, d) /\ d.P = c.P /\ d.sp = c.sp - 1
         /\ d.ram[c.sp] = v
<1> DEFINE e == Push8(c, v)
<1>1. v \in UInt8 /\ Low(v) = v
  BY LowOfByte DEF Native
<1>2. d = Advance(e, 1)
  BY <1>1, NativeModes DEF PHX, PHY, Modes
<1>. HIDE DEF e
<1>3. /\ Native(e) /\ SameRegisters(c, e) /\ e.P = c.P /\ e.sp = c.sp - 1
      /\ e.ram[c.sp] = v
  BY <1>1, Pushed8 DEF e
<1>4. Native(d) /\ Same(e, d)
  BY <1>2, <1>3, Advanced
<1>. QED BY <1>3, <1>4 DEF Same, SameRegisters, SameStack

LEMMA PLBIs ==
  ASSUME NEW c, Native(c), c.sp + 1 \in STACK, NEW d, d = PLB(c),
         NEW v, v = c.ram[c.sp + 1]
  PROVE  /\ Native(d) /\ d.A = c.A /\ d.X = c.X /\ d.Y = c.Y /\ d.DB = v
         /\ d.sp = c.sp + 1 /\ d.ram = c.ram
<1> DEFINE e == Drop(c, 1)
           Q == Update8(e.P, v)
           f == [e EXCEPT !.DB = v, !.P = Q]
<1>1. c.sp \in Int /\ c.sp + 1 <= 65535
  BY SpIsInt, StackBounds, UInt16Bounds
<1>2. Peek(c, 1) = v /\ v \in UInt8
  BY <1>1, Peeked
<1>3. d = Advance(f, 1)
  BY <1>2 DEF PLB
<1>4. /\ Native(e) /\ SameRegisters(c, e) /\ e.P = c.P
      /\ e.sp = c.sp + 1 /\ e.ram = c.ram
  BY <1>1, Dropped
<1>5. Mixed(Q)
  <2>1. v \in Int /\ 256 \in Int /\ Mixed(e.P)
    BY <1>2, <1>4, UInt8Bounds DEF Native
  <2>. HIDE DEF e
  <2>. QED BY <2>1, MixedAfter DEF Update8
<1>6. e \in Cpus /\ Q \in SUBSET Flags
  BY <1>4, <1>5 DEF Native, Mixed
<1>. HIDE DEF Q, e
<1>7. /\ f.DB = v /\ f.P = Q /\ f.A = e.A /\ f.X = e.X /\ f.Y = e.Y
      /\ f.D = e.D /\ f.RES = e.RES /\ f.sp = e.sp /\ f.ram = e.ram
      /\ f \in Cpus
  BY <1>2, <1>6, Zenon DEF Cpus
<1>. HIDE DEF f
<1>8. Native(f)
  BY <1>4, <1>5, <1>7 DEF Native
<1>9. Native(d) /\ Same(f, d)
  BY <1>3, <1>8, Advanced
<1>. QED BY <1>4, <1>7, <1>9 DEF Same, SameRegisters, SameStack

\* The status byte in native mode, pushed and pulled again.
LEMMA NativeCarried ==
  ASSUME NEW P, "e" \notin P
  PROVE  /\ Carried(P) = Flags \ {"b", "e"}
         /\ \A f \in Carried(P) : Weight[f] \in Weights
         /\ \A f, g \in Carried(P) : Weight[f] = Weight[g] => f = g
BY DEF Carried, Flags, Weight, Weights

LEMMA StatusRestored ==
  ASSUME NEW P, Mixed(P), NEW byte, byte = GetRegisterValue(P)
  PROVE  byte \in UInt8 /\ SetRegisterValue(P, byte) = P
<1>1. "e" \notin P /\ P \subseteq Flags
  BY DEF Mixed
<1>2. StatusBits(P) \in SUBSET Weights
  BY <1>1, NativeCarried DEF StatusBits
<1>3. byte \in UInt8 /\ Bits(byte) = StatusBits(P)
  BY <1>2, BitsOfByte, FitsBytes DEF GetRegisterValue
<1>4. \A g \in Carried(P) : Weight[g] \in StatusBits(P) <=> g \in P
  BY <1>1, NativeCarried DEF StatusBits
<1>5. SetRegisterValue(P, byte) = (P \cap Carried(P)) \cup (P \cap {"b"})
  BY <1>1, <1>3, <1>4 DEF SetRegisterValue, SetRegisterBits
<1>. QED BY <1>1, <1>3, <1>5, NativeCarried

LEMMA PHPIs ==
  ASSUME NEW c, Native(c), c.sp \in STACK, c.sp >= 1, NEW d, d = PHP(c)
  PROVE  /\ Native(d) /\ SameRegisters(c, d) /\ d.P = c.P /\ d.sp = c.sp - 1
         /\ d.ram[c.sp] = GetRegisterValue(c.P)
         /\ \A a \in STACK : a # c.sp => d.ram[a] = c.ram[a]
<1> DEFINE v == GetRegisterValue(c.P)
           e == Push8(c, v)
<1>1. v \in UInt8
  BY StatusRestored DEF Native
<1>2. d = Advance(e, 1)
  BY DEF PHP
<1>. HIDE DEF v, e
<1>3. /\ Native(e) /\ SameRegisters(c, e) /\ e.P = c.P /\ e.sp = c.sp - 1
      /\ e.ram[c.sp] = v
      /\ \A a \in STACK : a # c.sp => e.ram[a] = c.ram[a]
  BY <1>1, Pushed8 DEF e
<1>4. Native(d) /\ Same(e, d)
  BY <1>2, <1>3, Advanced
<1>5. d.ram[c.sp] = v
  BY <1>3, <1>4 DEF Same, SameStack
<1>. QED BY <1>3, <1>4, <1>5 DEF Same, SameRegisters, SameStack, v

LEMMA PLPIs ==
  ASSUME NEW c, Native(c), c.sp + 1 \in STACK,
         c.ram[c.sp + 1] = GetRegisterValue(c.P), NEW d, d = PLP(c)
  PROVE  /\ Native(d) /\ SameRegisters(c, d) /\ d.P = c.P
         /\ d.sp = c.sp + 1 /\ d.ram = c.ram
<1> DEFINE e == Drop(c, 1)
           Q == c.P
           f == [e EXCEPT !.P = Q]
<1>1. c.sp \in Int /\ c.sp + 1 <= 65535
  BY SpIsInt, StackBounds, UInt16Bounds
<1>2. /\ Native(e) /\ SameRegisters(c, e) /\ e.P = c.P
      /\ e.sp = c.sp + 1 /\ e.ram = c.ram
  BY <1>1, Dropped
<1>3. Peek(c, 1) = GetRegisterValue(Q)
  BY <1>1, Peeked
<1>4. SetRegisterValue(e.P, Peek(c, 1)) = Q
  BY <1>2, <1>3, StatusRestored DEF Native
<1>5. d = Advance(f, 1)
  BY <1>4 DEF PLP
<1>6. e \in Cpus /\ Q \in SUBSET Flags
  BY <1>2 DEF Native, Mixed
<1>. HIDE DEF Q, e
<1>7. /\ f.DB = e.DB /\ f.P = Q /\ f.A = e.A /\ f.X = e.X /\ f.Y = e.Y
      /\ f.D = e.D /\ f.RES = e.RES /\ f.sp = e.sp /\ f.ram = e.ram
      /\ f \in Cpus
  BY <1>6, Zenon DEF Cpus
<1>. HIDE DEF f
<1>8. Native(f)
  BY <1>2, <1>7 DEF Native, Q
<1>9. Native(d) /\ Same(f, d)
  BY <1>5, <1>8, Advanced
<1>. QED BY <1>2, <1>7, <1>9 DEF Same, SameRegisters, SameStack, Q

\* The processor out of its reset.
Raised(c) ==
  /\ c \in Cpus /\ c.D = 0 /\ c.X = 0 /\ c.Y = 0 /\ c.DB = 0 /\ ~c.RES
  /\ c.P = {"e", "m", "x"}

LEMMA FlagsSet ==
  ASSUME NEW c \in Cpus, NEW Q \in SUBSET Flags, NEW n \in Int,
         NEW d, d = Advance([c EXCEPT !.P = Q], n)
  PROVE  /\ d \in Cpus /\ d.P = Q /\ SameRegisters(c, d) /\ SameStack(c, d)
         /\ d.D = c.D /\ d.RES = c.RES
<1> DEFINE e == [c EXCEPT !.P = Q]
           w == Wrap(e.pc + n)
<1>1. /\ e \in Cpus /\ e.P = Q /\ SameRegisters(c, e) /\ SameStack(c, e)
      /\ e.D = c.D /\ e.RES = c.RES
  BY Zenon DEF Cpus, SameRegisters, SameStack
<1>2. d = [e EXCEPT !.pc = w]
  BY DEF Advance
<1>. HIDE DEF e
<1>3. w \in UInt16
  BY <1>1, Wrapped, UInt16Bounds DEF Cpus
<1>. HIDE DEF w
<1>4. /\ d \in Cpus /\ d.P = e.P /\ SameRegisters(e, d) /\ SameStack(e, d)
      /\ d.D = e.D /\ d.RES = e.RES
  BY <1>1, <1>2, <1>3, Zenon DEF Cpus, SameRegisters, SameStack
<1>. QED BY <1>1, <1>4 DEF SameRegisters, SameStack

LEMMA GoNativeIs ==
  ASSUME NEW c, Raised(c), NEW d, d = REP(XCE(ClearFlag(c, "c")), 32)
  PROVE  Native(d) /\ d.DB = 0
<1> DEFINE e == ClearFlag(c, "c")
           f == XCE(e)
           Q == {"c", "m", "x"}
           R == SetRegisterBits(Q, StatusBits(Q) \ Bits(32))
<1>1. c \in Cpus /\ c.P \ {"c"} = {"e", "m", "x"}
  BY DEF Raised
<1>2. {"e", "m", "x"} \in SUBSET Flags /\ Q \in SUBSET Flags
  BY DEF Flags
<1>3. /\ e \in Cpus /\ e.P = {"e", "m", "x"} /\ SameRegisters(c, e)
      /\ e.D = c.D /\ e.RES = c.RES
  <2> DEFINE P == c.P \ {"c"}
  <2>1. e = Advance([c EXCEPT !.P = P], 1)
    BY DEF ClearFlag
  <2>2. P \in SUBSET Flags /\ P = {"e", "m", "x"}
    BY <1>1, <1>2
  <2>. HIDE DEF e, P
  <2>3. e \in Cpus /\ e.P = P /\ SameRegisters(c, e)
        /\ e.D = c.D /\ e.RES = c.RES
    BY <1>1, <2>1, <2>2, FlagsSet
  <2>. QED BY <2>2, <2>3
<1>. HIDE DEF e
<1>4. /\ f \in Cpus /\ f.P = Q /\ SameRegisters(e, f)
      /\ f.D = e.D /\ f.RES = e.RES
  <2> DEFINE P == (e.P \ {"c", "e"}) \cup (IF "c" \in e.P THEN {"e"} ELSE {})
                                     \cup (IF Emulation(e) THEN {"c"} ELSE {})
  <2>1. P = Q /\ "e" \notin P
    BY <1>3 DEF Emulation
  <2>2. f = Advance([e EXCEPT !.P = P], 1)
    BY <2>1 DEF XCE
  <2>. HIDE DEF P, Q, f
  <2>. QED BY <1>2, <1>3, <2>1, <2>2, FlagsSet
<1>. HIDE DEF f
<1>5. R = {"c", "x"}
  <2>1. "e" \notin Q
    OBVIOUS
  <2>2. Carried(Q) = {"c", "z", "i", "d", "v", "n", "x", "m"}
    BY <2>1 DEF Carried
  <2>3. StatusBits(Q) = {1, 16, 32}
    BY <2>2 DEF StatusBits, Weight
  <2>4. Bits(32) = {32}
    BY DEF Bits
  <2>5. StatusBits(Q) \ Bits(32) = {1, 16}
    BY <2>3, <2>4
  <2>6. {g \in Carried(Q) : Weight[g] \in {1, 16}} = {"c", "x"}
    BY <2>2 DEF Weight
  <2>. QED BY <2>1, <2>5, <2>6 DEF SetRegisterBits
<1>6. R \in SUBSET Flags /\ Mixed(R)
  BY <1>5 DEF Mixed, Flags
<1>7. d = Advance([f EXCEPT !.P = R], 2)
  BY <1>4, Zenon DEF REP, e, f
<1>. HIDE DEF Q, R
<1>8. /\ d \in Cpus /\ d.P = R /\ SameRegisters(f, d)
      /\ d.D = f.D /\ d.RES = f.RES
  BY <1>4, <1>6, <1>7, FlagsSet
<1>9. 0 \in UInt8
  BY UInt8Bounds
<1>10. /\ d.X = 0 /\ d.Y = 0 /\ d.DB = 0 /\ d.D = 0 /\ ~d.RES
  BY <1>3, <1>4, <1>8 DEF Raised, SameRegisters
<1>. QED BY <1>6, <1>8, <1>9, <1>10 DEF Native

\* Comparing does not change the mode.
LEMMA CMPIs ==
  ASSUME NEW P, Mixed(P), NEW a \in Int, NEW v \in Int,
         NEW Q, Q = CMP(P, a, v, 65536)
  PROVE  Mixed(Q)
<1> DEFINE R == Put(P, "c", a >= v)
           r == (a - v) % 65536
<1>1. Q = SignZero(R, r, 65536) /\ r \in Int
  BY DEF CMP
<1>2. Mixed(R)
  <2>1. \A g : g # "c" => (g \in R <=> g \in P)
    BY DEF Put
  <2>2. R \subseteq P \cup {"c"}
    BY DEF Put
  <2>. HIDE DEF R
  <2>. QED BY <2>1, <2>2 DEF Mixed, Flags
<1>. HIDE DEF R, r
<1>. QED BY <1>1, <1>2, MixedAfter

\* What a probe leaves in the processor.
Compared(c, got, Q) == [c EXCEPT !.A = got, !.P = Q]

LEMMA ProbedIs ==
  ASSUME NEW c, Native(c), NEW got \in UInt16, NEW Q, Mixed(Q),
         NEW d, d = Compared(c, got, Q)
  PROVE  /\ Native(d) /\ d.X = c.X /\ d.Y = c.Y /\ d.DB = c.DB
         /\ SameStack(c, d)
<1>1. c \in Cpus /\ Q \in SUBSET Flags
  BY DEF Native, Mixed
<1>2. /\ d \in Cpus /\ d.P = Q /\ d.X = c.X /\ d.Y = c.Y /\ d.DB = c.DB
      /\ d.D = c.D /\ d.RES = c.RES /\ d.sp = c.sp /\ d.ram = c.ram
  BY <1>1, Zenon DEF Cpus, Compared
<1>. QED BY <1>2 DEF Native, SameStack

\* What a test of a table leaves.
Accumulating(c, v) == [c EXCEPT !.A = v]

LEMMA Accumulated ==
  ASSUME NEW c, Native(c), NEW v \in UInt16, NEW d, d = Accumulating(c, v)
  PROVE  Native(d) /\ d.DB = c.DB /\ d.sp = c.sp /\ d.ram = c.ram
BY DEF Native, Cpus, Accumulating

LEMMA UartHigh ==
  ASSUME NEW u \in {0, 1}
  PROVE  UartAddr(u) \in UInt16 /\ High(UartAddr(u)) # 0
BY UInt16Bounds DEF UartAddr, High

LEMMA LoopTestedIs ==
  ASSUME NEW c, Native(c), c.sp = 1023, NEW u \in {0, 1},
         NEW d, d = LoopTested(c, u)
  PROVE  /\ Native(d) /\ d.sp = 1023 /\ d.DB = c.DB /\ d.Y = 0
         /\ ("z" \in d.P <=> u \in working)
<1> DEFINE v == UartAddr(u)
           e == PEA(c, v)
           f == JSR(e, 0)
           r == [a \in STACK |-> IF a - f.sp \in {3, 4} THEN 0 ELSE f.ram[a]]
           g == IF u \in working THEN [f EXCEPT !.ram = r] ELSE f
           h == LDY(g, 0)
           i == RTS(h)
<1>1. d = PLA(i)
  BY Zenon DEF LoopTested
<1>2. v \in UInt16 /\ High(v) # 0 /\ High(v) \in UInt8 /\ Low(v) \in UInt8
  BY UartHigh, FitsBytes, Bytes
<1>. HIDE DEF v, e, f
<1>3. WordPushed(c, e, v)
  <2>1. Room(c)
    BY StackBounds DEF Room
  <2>. QED BY <1>2, <2>1, PEAIs DEF e
<1>4. PICK w \in UInt16 : WordPushed(e, f, w)
  <2>1. Native(e) /\ Room(e)
    BY <1>3, StackBounds DEF WordPushed, Room
  <2>. QED BY <2>1, JSRIs DEF f
<1>5. /\ Native(f) /\ f.sp = 1019 /\ f.DB = c.DB
      /\ f.ram[1023] = High(v) /\ f.ram[1022] = Low(v)
  BY <1>3, <1>4, StackBounds DEF WordPushed, SameRegisters
<1>6. /\ Native(g) /\ g.sp = 1019 /\ g.DB = c.DB
      /\ u \in working => g.ram[1023] = 0 /\ g.ram[1022] = 0
      /\ u \notin working => g.ram[1023] = High(v) /\ g.ram[1022] = Low(v)
  <2>1. CASE u \notin working
    <3>1. g = f
      BY <2>1
    <3>. HIDE DEF g
    <3>. QED BY <1>5, <2>1, <3>1
  <2>2. CASE u \in working
    <3>1. g = [f EXCEPT !.ram = r]
      BY <2>2
    <3>2. f.ram \in [STACK -> UInt8] /\ f \in Cpus /\ 0 \in UInt8
      BY <1>5, UInt8Bounds DEF Native, Cpus
    <3>3. r \in [STACK -> UInt8] /\ r[1023] = 0 /\ r[1022] = 0
      BY <1>5, <3>2, StackBounds
    <3>. HIDE DEF r, g
    <3>4. /\ g \in Cpus /\ g.ram = r /\ g.sp = f.sp /\ g.DB = f.DB
          /\ g.D = f.D /\ g.X = f.X /\ g.Y = f.Y /\ g.P = f.P
          /\ g.RES = f.RES
      BY <3>1, <3>2, <3>3, Zenon DEF Cpus
    <3>5. Native(g)
      BY <1>5, <3>4 DEF Native
    <3>. QED BY <1>5, <2>2, <3>3, <3>4, <3>5
  <2>. QED BY <2>1, <2>2
<1>. HIDE DEF g, h, i, r
<1>7. YLoaded(g, h, 0)
  <2>1. 0 \in UInt8
    BY UInt8Bounds
  <2>. QED BY <1>6, <2>1, LDYIs DEF h
<1>8. /\ Native(i) /\ i.sp = 1021 /\ i.DB = c.DB /\ i.Y = 0
      /\ i.ram = g.ram
  <2>1. Native(h) /\ h.sp = 1019 /\ h.DB = c.DB /\ h.Y = 0 /\ h.ram = g.ram
    BY <1>6, <1>7 DEF YLoaded, SameStack
  <2>2. Above(h)
    BY <2>1, StackBounds DEF Above
  <2>. QED BY <2>1, <2>2, RTSIs DEF i, SameRegisters
<1>9. Above(i)
  BY <1>8, StackBounds DEF Above
<1>10. PICK p : p = Peek16(i, 1)
  OBVIOUS
<1>11. /\ Native(d) /\ d.sp = 1023 /\ d.DB = i.DB /\ d.Y = i.Y
       /\ ("z" \in d.P <=> p = 0)
  BY <1>1, <1>8, <1>9, <1>10, PLAIs
<1>12. p \in {Word(i.ram[1023], i.ram[1022]), Word(i.ram[1022], i.ram[1023])}
  <2>1. i.sp + 1 = 1022 /\ i.sp + 2 = 1023
    BY <1>8
  <2>. QED BY <1>8, <1>9, <1>10, <2>1, Peeked16
<1>13. p = 0 <=> u \in working
  <2>1. CASE u \in working
    <3>1. Word(0, 0) = 0
      BY DEF Word
    <3>2. i.ram[1023] = 0 /\ i.ram[1022] = 0
      BY <2>1, <1>6, <1>8
    <3>. QED BY <2>1, <3>1, <3>2, <1>12
  <2>2. CASE u \notin working
    <3>1. i.ram[1023] = High(v) /\ i.ram[1022] = Low(v)
      BY <2>2, <1>6, <1>8
    <3>2. Word(High(v), Low(v)) # 0 /\ Word(Low(v), High(v)) # 0
      BY <1>2, UInt8Bounds DEF Word
    <3>. QED BY <2>2, <3>1, <3>2, <1>12
  <2>. QED BY <2>1, <2>2
<1>. QED BY <1>8, <1>11, <1>13

-----------------------------------------------------------------------------
(* The stores of the self-test, and the words of the tables.               *)

LEMMA DirectPageIs ==
  ASSUME NEW c, Native(c), NEW n \in Int, 0 <= n, n <= 1000
  PROVE  DirectPage(c, n) = Address(0, n)
<1>1. c.D + n = n /\ Wrap(n) = n
  BY Wrapped DEF Native
<1>. QED BY <1>1 DEF DirectPage

\* The stores of words that clear the zero page and keep the count.
LEMMA StoresAre ==
  ASSUME NEW c, Native(c)
  PROVE  /\ c.X <= 21 =>
              Store(board, mem, c, "STZ", "DirectPageIndexedWithX", 0) =
                StoreTwoBytes(board, mem, Address(0, c.X), 0)
         /\ Store(board, mem, c, "STX", "DirectPage", banks) =
              StoreTwoBytes(board, mem, Address(0, 0), c.X)
<1>1. c.X \in Int /\ 0 <= c.X /\ Low(c.X) = c.X /\ 0 + c.X = c.X
  BY LowOfByte, UInt8Bounds DEF Native
<1>2. ~A8(c) /\ X8(c) /\ ~Emulation(c)
  BY NativeModes DEF Modes
<1>3. /\ Narrow(c, "STZ") = A8(c) /\ Narrow(c, "STX") = A8(c)
      /\ ToStore(c, "STZ") = 0 /\ ToStore(c, "STX") = c.X
  BY DEF Narrow, ToStore
<1>4. Target(board, mem, c, "DirectPageIndexedWithX", 0) = DirectPage(c, c.X)
  BY <1>1, <1>2 DEF Target, IndexX
<1>5. Target(board, mem, c, "DirectPage", banks) = DirectPage(c, 0)
  BY <1>2 DEF Target, banks
<1>6. c.X <= 21 => DirectPage(c, c.X) = Address(0, c.X)
  BY <1>1, DirectPageIs
<1>7. DirectPage(c, 0) = Address(0, 0)
  BY DirectPageIs
<1>. QED BY <1>2, <1>3, <1>4, <1>5, <1>6, <1>7 DEF Store, Stored

LEMMA PointerNumbers ==
  ASSUME NEW P, Mixed(P), NEW t \in Names,
         NEW s, s = ASL(P, Tested[t].index, 65536),
         NEW a, a = ADC(s.P, Tested[t].table, 0, 65536)
  PROVE  /\ Fits(s.r, 65536) /\ Fits(a.r, 65536) /\ High(a.r) = 0
         /\ TableAddress(t) = Address(Low(a.r), s.r)
<1> DEFINE i == Tested[t].index
           b == Tested[t].table
           k == IF i >= 32768 THEN 1 ELSE 0
           Q == s.P
<1>1. /\ i \in Int /\ b \in Int /\ i \in {8192, 61448} /\ b \in {232, 254}
      /\ (t = "sin" => i = 8192 /\ b = 232)
      /\ (t = "mul" => i = 61448 /\ b = 254)
  BY TestedIs DEF Names
<1>2. /\ s.r = (2 * i) % 65536
      /\ Q = SignZero(Put(P, "c", i >= 32768), s.r, 65536)
  BY <1>1 DEF ASL, ShiftLeft, Result
<1>. HIDE DEF Q
<1>3. ("c" \in Q <=> i >= 32768) /\ "d" \notin Q
  <2>1. s.r \in Int
    BY <1>1, <1>2
  <2>2. \A g : g \notin {"n", "z"} =>
                (g \in Q <=> g \in Put(P, "c", i >= 32768))
    BY <1>2, <2>1, SignZeroFlags
  <2>3. "c" \in Put(P, "c", i >= 32768) <=> i >= 32768
    BY DEF Put
  <2>4. "d" \notin Put(P, "c", i >= 32768)
    BY DEF Put, Mixed
  <2>. QED BY <2>2, <2>3, <2>4
<1>4. Carry(Q) = k
  BY <1>3 DEF Carry
<1>5. a.r = (b + 0 + Carry(Q)) % 65536
  BY <1>3 DEF ADC, BinaryADC, Result, Q
<1>. HIDE DEF i, b
<1>6. CASE t = "sin"
  <2>1. s.r = 16384 /\ a.r = 232
    BY <1>1, <1>2, <1>4, <1>5, <1>6
  <2>2. High(232) = 0 /\ Low(232) = 232
    BY DEF High, Low
  <2>. QED BY <1>6, <2>1, <2>2, TableAddressIs DEF Fits
<1>7. CASE t = "mul"
  <2>1. s.r = 57360 /\ a.r = 255
    BY <1>1, <1>2, <1>4, <1>5, <1>7
  <2>2. High(255) = 0 /\ Low(255) = 255
    BY DEF High, Low
  <2>. QED BY <1>7, <2>1, <2>2, TableAddressIs DEF Fits
<1>. QED BY <1>6, <1>7 DEF Names

\* m_rom_test reads the tables through the pointer that it has just stored.
LEMMA PointingIs ==
  ASSUME board \in BOARDS, IsRam(0), Native(cpu), MemoryOK(mem),
         NEW t \in Names, NEW p, p = Pointing(t),
         NEW a, a = Target(board, p, cpu, "DirectPageIndirectLong", temp)
  PROVE  /\ MemoryOK(p) /\ Byte(p, 0) = Byte(mem, 0)
         /\ Byte(p, 1) = Byte(mem, 1) /\ a = TableAddress(t)
<1> DEFINE s == ASL(cpu.P, Tested[t].index, 65536)
           d == ADC(s.P, Tested[t].table, 0, 65536)
           q == StoreTwoBytes(board, mem, Address(0, 2), s.r)
<1>1. /\ Fits(s.r, 65536) /\ Fits(d.r, 65536) /\ High(d.r) = 0
      /\ TableAddress(t) = Address(Low(d.r), s.r)
  BY PointerNumbers DEF Native
<1>2. p = StoreTwoBytes(board, q, Address(0, 4), d.r)
  BY DEF Pointing, temp
<1>. HIDE DEF s, d, q
<1>3. Fits(2, 32) /\ Fits(4, 32)
  BY DEF Fits
<1>4. /\ MemoryOK(q) /\ Byte(q, 2) = Low(s.r) /\ Byte(q, 2 + 1) = High(s.r)
      /\ \A o : o # 2 /\ o # 2 + 1 => Byte(q, o) = Byte(mem, o)
  BY <1>1, <1>3, StoreZeroPage DEF q
<1>5. /\ MemoryOK(p) /\ Byte(p, 4) = Low(d.r)
      /\ \A o : o # 4 /\ o # 4 + 1 => Byte(p, o) = Byte(q, o)
  BY <1>1, <1>2, <1>3, <1>4, StoreZeroPage
<1>6. /\ Byte(p, 0) = Byte(mem, 0) /\ Byte(p, 1) = Byte(mem, 1)
      /\ Byte(p, 2) = Low(s.r) /\ Byte(p, 3) = High(s.r)
  BY <1>4, <1>5
<1>7. a = ReadAddressAt(board, p, Address(0, 2))
  <2>1. Pointer(cpu, "DirectPageIndirectLong", 2) = Address(0, 2)
    BY DirectPageIs DEF Pointer
  <2>2. FollowPointer(board, p, cpu, "DirectPageIndirectLong", 2) =
          ReadAddressAt(board, p, Address(0, 2))
    BY <2>1 DEF FollowPointer, LongPointers
  <2>. QED BY <2>2 DEF Target, temp
<1>8. ReadAddressAt(board, p, Address(0, 2)) =
        Address(Byte(p, 2 + 2), 256 * Byte(p, 2 + 1) + Byte(p, 2))
  BY <1>3, ReadZeroPage
<1>9. 256 * High(s.r) + Low(s.r) = s.r
  BY <1>1, Bytes DEF Word
<1>10. a = Address(Low(d.r), s.r)
  BY <1>5, <1>6, <1>7, <1>8, <1>9
<1>. QED BY <1>1, <1>5, <1>6, <1>10

LEMMA TableWordIs ==
  ASSUME board \in BOARDS, NEW m, MemoryOK(m), NEW t \in Names,
         NEW got, got = ReadTwoBytes(board, m, TableAddress(t))
  PROVE  /\ got = Tested[t].word <=> Present(t)
         /\ Fits(got, 65536)
<1> DEFINE w == Tested[t].word
<1>1. w \in {23170, 1920} /\ w # 0 /\ Fits(w, 65536) /\ Fits(0, 65536)
  BY TestedIs DEF Names, Fits
<1>. HIDE DEF w
<1>2. /\ Content(m, TableCell(t, 0)) = IF Present(t) THEN Low(w) ELSE 0
      /\ Content(m, TableCell(t, 1)) = IF Present(t) THEN High(w) ELSE 0
  BY DEF MemoryOK, TableValue, w
<1>3. got = 256 * Content(m, TableCell(t, 1)) + Content(m, TableCell(t, 0))
  BY DEF ReadTwoBytes, TableCell
<1>4. CASE Present(t)
  <2>1. got = Word(High(w), Low(w))
    BY <1>2, <1>3, <1>4 DEF Word
  <2>. QED BY <1>1, <1>4, <2>1, Bytes DEF w
<1>5. CASE ~Present(t)
  <2>1. got = 0
    BY <1>2, <1>3, <1>5
  <2>. QED BY <1>1, <1>5, <2>1 DEF w
<1>. QED BY <1>4, <1>5

-----------------------------------------------------------------------------
(* The invariant: what holds with the next instruction at label l, the     *)
(* processor c, the memory m and the report r, on the board at hand.       *)

InHiram     == {"next_bank", "high1", "high2", "more", "end_banks"}
InRomTest   == {"rom0", "rom1", "rom_done"}
ReportKnown == {"rom_test", "flags", "mon_start"} \cup InRomTest
RamKnown    == {"print"} \cup ReportKnown
UartsKnown  == {"hiram"} \cup InHiram \cup RamKnown

Placed(l) ==
  /\ board \in BOARDS /\ tables \subseteq Names /\ working \subseteq {0, 1}
  /\ high = HighBanks /\ l \in Labels

Runs(l, c) ==
  /\ c \in Cpus
  /\ l = "reset" => Raised(c)
  /\ l \notin {"reset", "mon_start", "post_fail"} => Native(c)

\* Y is zero when hiram_test needs it, and X then is the bank.
Balanced(l, c) ==
  /\ l \in Outside => c.sp = 1023
  /\ l \in InHiram \cup InRomTest => c.sp = 1021
  /\ l \in {"low1", "low2", "stack"} \cup Outside \cup InRomTest => c.DB = 0
  /\ l \in InHiram \ {"next_bank"} => c.DB = c.X
  /\ l \in {"hiram"} \cup InHiram => c.Y = 0

\* All banks below the one in X are RAM.
Counts(l, c) ==
  /\ l = "clear" => 1 <= c.X /\ c.X <= 22
  /\ l \in InHiram =>
       1 <= c.X /\ \A b \in UInt8 : 1 <= b /\ b < c.X => IsRam(b)
  /\ l = "more" => IsRam(c.X)
  /\ l = "end_banks" => ~IsRam(c.X)

\* What is found out, and that no sound board fails.
Passed(l) ==
  /\ l \in {"stack"} \cup Outside \cup InHiram \cup InRomTest => IsRam(0)
  /\ l \in {"setup", "uart1"} \cup UartsKnown => 0 \in working
  /\ l \in UartsKnown => 1 \in working
  /\ l = "mon_start" => \A t \in Names : Present(t)
  /\ l = "post_fail" => ~Sound

\* The flags of the tables found.
FlagsAt(l) ==
  {Tested[t].flag : t \in {u \in Names : Present(u) /\
     \/ l \in {"rom_done", "flags", "mon_start"}
     \/ l = "rom1" /\ u = "sin"}}

Keeps(l, m) ==
  /\ MemoryOK(m)
  /\ l \in RamKnown => Byte(m, 0) = high /\ Bits(Byte(m, 1)) = FlagsAt(l)
  /\ l = "print" => Byte(m, 1) = 0

AllBanks == [hi |-> high, lo |-> 0]
Tells(l, r) ==
  /\ l \in ReportKnown => r = AllBanks
  /\ l \notin ReportKnown \cup {"post_fail"} => r = None
  /\ l = "post_fail" => r \in {None, AllBanks}

Good(l, c, m, r) ==
  /\ Placed(l) /\ Runs(l, c) /\ Balanced(l, c) /\ Counts(l, c)
  /\ Passed(l) /\ Keeps(l, m) /\ Tells(l, r)

PostInv == Good(at, cpu, mem, report)

\* The board does not change, and so neither does what the invariant says of
\* the rest.
LEMMA BoardStays ==
  ASSUME UNCHANGED <<board, tables, working, high>>
  PROVE  /\ \A b : IsRam(b)' <=> IsRam(b)
         /\ HighBanks' = HighBanks
         /\ \A t : Present(t)' <=> Present(t)
         /\ \A t, k : TableCell(t, k)' = TableCell(t, k)
         /\ Sound' = Sound
<1>1. board' = board /\ tables' = tables /\ working' = working
  OBVIOUS
<1>2. \A b : IsRam(b)' <=> IsRam(b)
  BY <1>1 DEF IsRam
<1>3. HighBanks' = HighBanks
  BY <1>1 DEF HighBanks, IsRam
<1>4. \A t : Present(t)' <=> Present(t)
  BY <1>1 DEF Present
<1>5. \A t, k : TableCell(t, k)' = TableCell(t, k)
  BY <1>1 DEF TableCell
<1>6. Sound' = Sound
  BY <1>1 DEF Sound, IsRam, Present
<1>. QED BY <1>2, <1>3, <1>4, <1>5, <1>6

LEMMA GoodStays ==
  ASSUME UNCHANGED <<board, tables, working, high>>,
         Good(at', cpu', mem', report')
  PROVE  PostInv'
<1>1. Placed(at)'
  BY BoardStays DEF Good, Placed
<1>2. Runs(at, cpu)' /\ Balanced(at, cpu)' /\ Tells(at, report)'
  BY DEF Good, Runs, Balanced, Tells, AllBanks
<1>3. Counts(at, cpu)'
  BY BoardStays DEF Good, Counts
<1>4. Passed(at)'
  BY BoardStays DEF Good, Passed
<1>5. Keeps(at, mem)'
  <2>1. MemoryOK(mem)'
    <3>1. \A t, k : TableValue(t, k)' = TableValue(t, k)
      BY BoardStays DEF TableValue
    <3>. QED BY <3>1, BoardStays DEF Good, Keeps, MemoryOK
  <2>2. FlagsAt(at)' = FlagsAt(at')
    BY BoardStays DEF FlagsAt
  <2>. QED BY <2>1, <2>2 DEF Good, Keeps, Byte
<1>. QED BY <1>1, <1>2, <1>3, <1>4, <1>5 DEF PostInv, Good

-----------------------------------------------------------------------------
(* One lemma per action.                                                   *)

LEMMA PoweredOn ==
  ASSUME NEW low \in StackLows, NEW c, c = [Reset(PowerOn, low) EXCEPT !.pc = 0]
  PROVE  Raised(c)
<1> DEFINE s == SetEmulation(low)
           v == Vector["ERES"]
           r == [a \in STACK |-> 0]
           Q == {"e"} \cup {"e", "m", "x"}
<1>0. PICK e : e = Reset(PowerOn, low)
  OBVIOUS
<1>1. s \in UInt16
  <2>1. low \in UInt8
    BY KernelPostAssumption
  <2>. QED BY <2>1, UInt8Bounds, UInt16Bounds DEF SetEmulation, Word, Low
<1>2. v \in UInt16 /\ 0 \in UInt16 /\ 0 \in UInt8 /\ Low(0) = 0
  BY CpuAssumption, UInt16Bounds, UInt8Bounds DEF Low
<1>3. r \in [STACK -> UInt8]
  BY <1>2
<1>4. Q = {"e", "m", "x"} /\ Q \in SUBSET Flags
  BY DEF Flags
<1>5. e = [A |-> 0, X |-> 0, Y |-> 0, D |-> 0, DB |-> 0, P |-> Q, pb |-> 0,
           pc |-> v, sp |-> s, ram |-> r, RES |-> FALSE, RDY |-> FALSE]
  BY <1>0, <1>2 DEF Reset, PowerOn
<1>6. c = [e EXCEPT !.pc = 0]
  BY <1>0
<1>. HIDE DEF s, v, r, Q
<1>7. c = [A |-> 0, X |-> 0, Y |-> 0, D |-> 0, DB |-> 0, P |-> Q, pb |-> 0,
           pc |-> 0, sp |-> s, ram |-> r, RES |-> FALSE, RDY |-> FALSE]
  BY <1>5, <1>6
<1>8. Q \in SUBSET Flags
  BY <1>4
<1>9. c \in Cpus
  <2>1. [A |-> 0, X |-> 0, Y |-> 0, D |-> 0, DB |-> 0, P |-> Q, pb |-> 0,
         pc |-> 0, sp |-> s, ram |-> r, RES |-> FALSE, RDY |-> FALSE] \in Cpus
    BY <1>1, <1>2, <1>3, <1>8, Zenon DEF Cpus
  <2>. QED BY <1>7, <2>1, Zenon
<1>10. /\ c.D = 0 /\ c.X = 0 /\ c.Y = 0 /\ c.DB = 0 /\ c.P = Q
       /\ c.RES = FALSE
  BY <1>7
<1>. QED BY <1>4, <1>9, <1>10 DEF Raised

LEMMA InitInv == Init => PostInv
<1>. SUFFICES ASSUME Init PROVE PostInv
  OBVIOUS
<1>1. Placed(at)
  BY TestedIs DEF Init, Placed, Labels
<1>2. Raised(cpu)
  BY PoweredOn DEF Init
<1>3. MemoryOK(mem)
  <2>1. mem = TableMemory
    BY DEF Init, TableMemory
  <2>. QED BY <2>1, TableMemoryOK DEF Init
<1>. QED
  BY <1>1, <1>2, <1>3 DEF Init, PostInv, Good, Runs, Balanced, Counts, Passed,
     Keeps, Tells, Raised, Outside, InHiram, InRomTest, RamKnown, ReportKnown,
     UartsKnown

LEMMA GotoIs ==
  ASSUME NEW l, NEW c, Native(c), Goto(l, c)
  PROVE  at' = l /\ Native(cpu') /\ Same(c, cpu')
<1>1. 0 \in UInt16
  BY UInt16Bounds
<1>. QED BY <1>1, Jumped DEF Goto

LEMMA GoNativeInv ==
  ASSUME PostInv, GoNative
  PROVE  Good(at', cpu', mem', report')
<1> DEFINE c == REP(XCE(ClearFlag(cpu, "c")), 32)
<1>1. /\ at = "reset" /\ Raised(cpu) /\ Placed(at) /\ MemoryOK(mem)
      /\ report = None
  BY DEF PostInv, Good, Runs, Keeps, Tells, GoNative, ReportKnown, InRomTest
<1>2. Native(c) /\ c.DB = 0
  BY <1>1, GoNativeIs
<1>3. Goto("low1", c) /\ mem' = mem /\ report' = report
  BY DEF GoNative
<1>. HIDE DEF c
<1>4. at' = "low1" /\ Native(cpu') /\ cpu'.DB = 0
  BY <1>2, <1>3, GotoIs DEF Same, SameRegisters
<1>. QED
  BY <1>1, <1>3, <1>4 DEF Good, Placed, Labels, Runs, Native, Balanced, Counts,
     Passed, Keeps, Tells, Outside, InHiram, InRomTest, RamKnown, ReportKnown,
     UartsKnown

\* What any of the four probes finds and leaves.
LEMMA ProbeIs ==
  ASSUME board \in BOARDS, Native(cpu), MemoryOK(mem), NEW here,
         NEW v \in {PATTERN1, PATTERN2}, NEW kept, NEW lost,
         Probe(here, v, kept, lost)
  PROVE  /\ at' = IF IsRam(cpu.DB) THEN kept ELSE lost
         /\ MemoryOK(mem') /\ report' = report
         /\ Native(cpu') /\ cpu'.X = cpu.X /\ cpu'.Y = cpu.Y
         /\ cpu'.DB = cpu.DB /\ SameStack(cpu, cpu')
<1> DEFINE b == cpu.DB
<1>1. PICK s, got, Q :
        /\ s = StoreTwoBytes(board, mem, Address(b, 0), v)
        /\ got = ReadTwoBytes(board, s, Address(b, 0))
        /\ Q = CMP(cpu.P, got, v, 65536)
  OBVIOUS
<1>2. /\ mem' = s /\ report' = report
      /\ Goto(IF got = v THEN kept ELSE lost, [cpu EXCEPT !.A = got, !.P = Q])
  BY <1>1 DEF Probe
<1>3. Fits(v, 65536) /\ v # 0 /\ v \in UInt16 /\ v \in Int
  BY UInt16Bounds DEF PATTERN1, PATTERN2, Fits
<1>4. Fits(b, 256)
  BY FitsBytes DEF Native, Cpus
<1>. HIDE DEF b
<1>5. MemoryOK(s) /\ Fits(got, 65536) /\ (got = v <=> IsRam(b))
  BY <1>1, <1>3, <1>4, Probes
<1>6. got \in UInt16 /\ got \in Int
  BY <1>5, FitsBytes DEF Fits
<1>7. Mixed(Q)
  BY <1>1, <1>3, <1>6, CMPIs DEF Native
<1>8. PICK d : d = Compared(cpu, got, Q)
  OBVIOUS
<1>9. /\ Native(d) /\ d.X = cpu.X /\ d.Y = cpu.Y /\ d.DB = cpu.DB
      /\ SameStack(cpu, d)
  BY <1>6, <1>7, <1>8, ProbedIs
<1>10. Goto(IF got = v THEN kept ELSE lost, d)
  BY <1>2, <1>8 DEF Compared
<1>11. /\ Native(cpu') /\ Same(d, cpu')
       /\ at' = IF got = v THEN kept ELSE lost
  BY <1>9, <1>10, GotoIs
<1>. QED
  BY <1>2, <1>5, <1>9, <1>11 DEF b, Same, SameRegisters, SameStack

LEMMA LowProbeInv ==
  ASSUME PostInv, LowProbe
  PROVE  Good(at', cpu', mem', report') /\ ~cpu'.RES
<1>1. PICK here \in {"low1", "low2"}, v \in {PATTERN1, PATTERN2},
           kept \in {"low2", "stack"} :
        at = here /\ Probe(here, v, kept, "post_fail")
  BY DEF LowProbe, Probe
<1>2. /\ Native(cpu) /\ Placed(at) /\ MemoryOK(mem) /\ report = None
      /\ cpu.DB = 0
  BY <1>1 DEF PostInv, Good, Runs, Balanced, Keeps, Tells, ReportKnown,
     InRomTest
<1>3. /\ at' = IF IsRam(0) THEN kept ELSE "post_fail"
      /\ MemoryOK(mem') /\ report' = report /\ Native(cpu') /\ cpu'.DB = 0
  BY <1>1, <1>2, ProbeIs DEF Placed
<1>4. CASE IsRam(0)
  BY <1>1, <1>2, <1>3, <1>4 DEF Good, Placed, Labels, Runs, Native, Balanced,
     Counts, Passed, Keeps, Tells, Outside, InHiram, InRomTest, RamKnown,
     ReportKnown, UartsKnown
<1>5. CASE ~IsRam(0)
  <2>1. ~Sound
    BY <1>5 DEF Sound
  <2>. QED
    BY <1>1, <1>2, <1>3, <1>5, <2>1 DEF Good, Placed, Labels, Runs, Native,
       Balanced, Counts, Passed, Keeps, Tells, Outside, InHiram, InRomTest,
       RamKnown, ReportKnown, UartsKnown
<1>. QED BY <1>4, <1>5

LEMMA SetStackInv ==
  ASSUME PostInv, SetStack
  PROVE  Good(at', cpu', mem', report')
<1> DEFINE d == LDA(cpu, 1023)
           e == TCS(d)
           f == LDX(e, 22)
<1>1. /\ at = "stack" /\ Native(cpu) /\ Placed(at) /\ MemoryOK(mem)
      /\ report = None /\ cpu.DB = 0 /\ IsRam(0)
  BY DEF PostInv, Good, Runs, Balanced, Passed, Keeps, Tells, SetStack,
     ReportKnown, InRomTest
<1>2. 1023 \in UInt16 /\ 22 \in UInt8 /\ k_base - 1 = 1023
  BY UInt16Bounds, UInt8Bounds DEF k_base
<1>3. Goto("clear", f) /\ mem' = mem /\ report' = report
  BY <1>2 DEF SetStack, K_ZERO
<1>. HIDE DEF d, e, f
<1>4. ALoaded(cpu, d, 1023)
  BY <1>1, <1>2, LDAIs DEF d
<1>5. Native(e) /\ e.sp = 1023 /\ e.DB = 0
  BY <1>1, <1>4, TCSIs DEF e, ALoaded, SameRegisters
<1>6. Native(f) /\ f.sp = 1023 /\ f.DB = 0 /\ f.X = 22
  BY <1>2, <1>5, LDXIs DEF f, XLoaded, SameStack
<1>7. /\ at' = "clear" /\ Native(cpu') /\ cpu'.sp = 1023 /\ cpu'.DB = 0
      /\ cpu'.X = 22
  BY <1>3, <1>6, GotoIs DEF Same, SameRegisters, SameStack
<1>. QED
  BY <1>1, <1>3, <1>7 DEF Good, Placed, Labels, Runs, Native, Balanced, Counts,
     Passed, Keeps, Tells, Outside, InHiram, InRomTest, RamKnown, ReportKnown,
     UartsKnown

LEMMA ClearByteInv ==
  ASSUME PostInv, ClearByte
  PROVE  Good(at', cpu', mem', report')
<1> DEFINE c == INCDEC_X(cpu, -1)
           l == IF Zero(c) THEN "uart0" ELSE "clear"
<1>1. /\ at = "clear" /\ Native(cpu) /\ Placed(at) /\ MemoryOK(mem)
      /\ report = None /\ cpu.sp = 1023 /\ cpu.DB = 0 /\ IsRam(0)
      /\ 1 <= cpu.X /\ cpu.X <= 22
  BY DEF PostInv, Good, Runs, Balanced, Counts, Passed, Keeps, Tells, ClearByte,
     ReportKnown, InRomTest, Outside
<1>2. /\ mem' = Store(board, mem, c, "STZ", "DirectPageIndexedWithX", 0)
      /\ Goto(l, c) /\ report' = report
  BY DEF ClearByte
<1>3. cpu.X \in Int /\ cpu.X + -1 \in UInt8 /\ -1 \in {1, -1}
  BY <1>1, UInt8Bounds DEF Native
<1>4. XLoaded(cpu, c, cpu.X + -1)
  BY <1>1, <1>3, INCDECXIs
<1>5. /\ Native(c) /\ c.sp = 1023 /\ c.DB = 0 /\ c.X = cpu.X + -1
      /\ (Zero(c) <=> c.X = 0)
  BY <1>1, <1>4 DEF XLoaded, SameStack, Zero
<1>. HIDE DEF c
<1>6. c.X \in Int /\ 0 <= c.X /\ c.X <= 21
  BY <1>1, <1>3, <1>5
<1>7. mem' = StoreTwoBytes(board, mem, Address(0, c.X), 0)
  BY <1>2, <1>5, <1>6, StoresAre
<1>8. Fits(c.X, 32) /\ Fits(0, 65536)
  BY <1>6 DEF Fits
<1>9. MemoryOK(mem')
  BY <1>1, <1>7, <1>8, StoreZeroPage DEF Placed
<1>10. /\ at' = l /\ Native(cpu') /\ cpu'.sp = 1023 /\ cpu'.DB = 0
       /\ cpu'.X = c.X
  BY <1>2, <1>5, GotoIs DEF Same, SameRegisters, SameStack
<1>11. \/ at' = "uart0"
       \/ at' = "clear" /\ 1 <= c.X /\ c.X <= 22
  BY <1>5, <1>6, <1>10
<1>. HIDE DEF l
<1>. QED
  BY <1>1, <1>2, <1>9, <1>10, <1>11 DEF Good, Placed, Labels, Runs, Native,
     Balanced, Counts, Passed, Keeps, Tells, Outside, InHiram, InRomTest,
     RamKnown, ReportKnown, UartsKnown

LEMMA TestUartsInv ==
  ASSUME PostInv, TestUarts
  PROVE  Good(at', cpu', mem', report') /\ ~cpu'.RES
<1>1. PICK here \in {"uart0", "uart1"}, u \in {0, 1},
           next \in {"setup", "hiram"} :
        /\ at = here /\ TestUart(here, u, next)
        /\ \/ here = "uart0" /\ u = 0 /\ next = "setup"
           \/ here = "uart1" /\ u = 1 /\ next = "hiram"
  BY DEF TestUarts, TestUart
<1> DEFINE c == LoopTested(cpu, u)
           l == IF Zero(c) THEN next ELSE "post_fail"
<1>2. /\ Native(cpu) /\ Placed(at) /\ MemoryOK(mem) /\ report = None
      /\ cpu.sp = 1023 /\ cpu.DB = 0 /\ IsRam(0)
      /\ here = "uart1" => 0 \in working
  BY <1>1 DEF PostInv, Good, Runs, Balanced, Passed, Keeps, Tells, ReportKnown,
     InRomTest, Outside
<1>3. Goto(l, c) /\ mem' = mem /\ report' = report
  BY <1>1 DEF TestUart
<1>4. /\ Native(c) /\ c.sp = 1023 /\ c.DB = 0 /\ c.Y = 0
      /\ (Zero(c) <=> u \in working)
  BY <1>2, LoopTestedIs DEF Zero
<1>. HIDE DEF c
<1>5. /\ at' = l /\ Native(cpu') /\ cpu'.sp = 1023 /\ cpu'.DB = 0
      /\ cpu'.Y = 0
  BY <1>3, <1>4, GotoIs DEF Same, SameRegisters, SameStack
<1>6. CASE u \in working
  <2>1. at' = next
    BY <1>4, <1>5, <1>6
  <2>. QED
    BY <1>1, <1>2, <1>3, <1>5, <1>6, <2>1 DEF Good, Placed, Labels, Runs,
       Native, Balanced, Counts, Passed, Keeps, Tells, Outside, InHiram,
       InRomTest, RamKnown, ReportKnown, UartsKnown
<1>7. CASE u \notin working
  <2>1. at' = "post_fail"
    BY <1>4, <1>5, <1>7
  <2>2. ~Sound
    BY <1>7 DEF Sound
  <2>. QED
    BY <1>2, <1>3, <1>5, <2>1, <2>2 DEF Good, Placed, Labels, Runs, Native,
       Balanced, Counts, Passed, Keeps, Tells, Outside, InHiram, InRomTest,
       RamKnown, ReportKnown, UartsKnown
<1>. QED BY <1>6, <1>7

LEMMA SetUpUart0Inv ==
  ASSUME PostInv, SetUpUart0
  PROVE  Good(at', cpu', mem', report')
<1> DEFINE c == LDY(cpu, 1)
<1>1. /\ at = "setup" /\ Native(cpu) /\ Placed(at) /\ MemoryOK(mem)
      /\ report = None /\ cpu.sp = 1023 /\ cpu.DB = 0 /\ IsRam(0)
      /\ 0 \in working
  BY DEF PostInv, Good, Runs, Balanced, Passed, Keeps, Tells, SetUpUart0,
     ReportKnown, InRomTest, Outside
<1>2. Goto("uart1", c) /\ mem' = mem /\ report' = report /\ 1 \in UInt8
  BY UInt8Bounds DEF SetUpUart0
<1>3. Native(c) /\ c.sp = 1023 /\ c.DB = 0
  BY <1>1, <1>2, LDYIs DEF YLoaded, SameStack
<1>. HIDE DEF c
<1>4. at' = "uart1" /\ Native(cpu') /\ cpu'.sp = 1023 /\ cpu'.DB = 0
  BY <1>2, <1>3, GotoIs DEF Same, SameRegisters, SameStack
<1>. QED
  BY <1>1, <1>2, <1>4 DEF Good, Placed, Labels, Runs, Native, Balanced, Counts,
     Passed, Keeps, Tells, Outside, InHiram, InRomTest, RamKnown, ReportKnown,
     UartsKnown

LEMMA CallHiramInv ==
  ASSUME PostInv, CallHiram
  PROVE  Good(at', cpu', mem', report')
<1> DEFINE d == JSR(cpu, 0)
           e == LDX(d, 1)
<1>1. /\ at = "hiram" /\ Native(cpu) /\ Placed(at) /\ MemoryOK(mem)
      /\ report = None /\ cpu.sp = 1023 /\ cpu.DB = 0 /\ cpu.Y = 0 /\ IsRam(0)
      /\ 0 \in working /\ 1 \in working
  BY DEF PostInv, Good, Runs, Balanced, Passed, Keeps, Tells, CallHiram,
     ReportKnown, InRomTest, Outside, UartsKnown
<1>2. Goto("next_bank", e) /\ mem' = mem /\ report' = report /\ 1 \in UInt8
  BY UInt8Bounds DEF CallHiram
<1>. HIDE DEF d, e
<1>3. Native(d) /\ d.sp = 1021 /\ d.Y = 0
  <2>1. Room(cpu)
    BY <1>1, StackBounds DEF Room
  <2>2. PICK v \in UInt16 : WordPushed(cpu, d, v)
    BY <1>1, <2>1, JSRIs DEF d
  <2>. QED BY <1>1, <2>2 DEF WordPushed, SameRegisters
<1>4. Native(e) /\ e.sp = 1021 /\ e.Y = 0 /\ e.X = 1
  BY <1>2, <1>3, LDXIs DEF XLoaded, SameStack, e
<1>5. /\ at' = "next_bank" /\ Native(cpu') /\ cpu'.sp = 1021 /\ cpu'.Y = 0
      /\ cpu'.X = 1
  BY <1>2, <1>4, GotoIs DEF Same, SameRegisters, SameStack
<1>6. \A b \in UInt8 : ~(1 <= b /\ b < 1)
  BY UInt8Bounds
<1>. QED
  BY <1>1, <1>2, <1>5, <1>6 DEF Good, Placed, Labels, Runs, Native, Balanced,
     Counts, Passed, Keeps, Tells, Outside, InHiram, InRomTest, RamKnown,
     ReportKnown, UartsKnown

LEMMA NextBankInv ==
  ASSUME PostInv, NextBank
  PROVE  Good(at', cpu', mem', report')
<1> DEFINE d == PHX(cpu)
           e == PLB(d)
<1>1. /\ at = "next_bank" /\ Native(cpu) /\ Placed(at) /\ MemoryOK(mem)
      /\ report = None /\ cpu.sp = 1021 /\ cpu.Y = 0 /\ IsRam(0)
      /\ 0 \in working /\ 1 \in working /\ 1 <= cpu.X
      /\ \A b \in UInt8 : 1 <= b /\ b < cpu.X => IsRam(b)
  BY DEF PostInv, Good, Runs, Balanced, Counts, Passed, Keeps, Tells, NextBank,
     ReportKnown, InRomTest, InHiram, UartsKnown
<1>2. Goto("high1", e) /\ mem' = mem /\ report' = report
  BY DEF NextBank
<1>. HIDE DEF d, e
<1>3. /\ Native(d) /\ d.sp = 1020 /\ d.Y = 0 /\ d.X = cpu.X
      /\ d.ram[1021] = cpu.X
  <2>1. cpu.sp \in STACK /\ cpu.sp >= 1 /\ cpu.sp - 1 = 1020
    BY <1>1, StackBounds
  <2>2. /\ Native(d) /\ SameRegisters(cpu, d) /\ d.sp = cpu.sp - 1
        /\ d.ram[cpu.sp] = cpu.X
    BY <1>1, <2>1, PHXYIs DEF d
  <2>. QED BY <1>1, <2>1, <2>2 DEF SameRegisters
<1>4. /\ Native(e) /\ e.sp = 1021 /\ e.Y = 0 /\ e.X = cpu.X /\ e.DB = cpu.X
  <2>1. d.sp + 1 = 1021 /\ d.sp + 1 \in STACK
    BY <1>3, StackBounds
  <2>. QED BY <1>3, <2>1, PLBIs DEF e
<1>5. /\ at' = "high1" /\ Native(cpu') /\ cpu'.sp = 1021 /\ cpu'.Y = 0
      /\ cpu'.X = cpu.X /\ cpu'.DB = cpu.X
  BY <1>2, <1>4, GotoIs DEF Same, SameRegisters, SameStack
<1>. QED
  BY <1>1, <1>2, <1>5 DEF Good, Placed, Labels, Runs, Native, Balanced, Counts,
     Passed, Keeps, Tells, Outside, InHiram, InRomTest, RamKnown, ReportKnown,
     UartsKnown

LEMMA HighProbeInv ==
  ASSUME PostInv, HighProbe
  PROVE  Good(at', cpu', mem', report')
<1>1. PICK here \in {"high1", "high2"}, v \in {PATTERN1, PATTERN2},
           kept \in {"high2", "more"} :
        at = here /\ Probe(here, v, kept, "end_banks")
  BY DEF HighProbe, Probe
<1>2. /\ Native(cpu) /\ Placed(at) /\ MemoryOK(mem) /\ report = None
      /\ cpu.sp = 1021 /\ cpu.Y = 0 /\ IsRam(0) /\ cpu.DB = cpu.X
      /\ 0 \in working /\ 1 \in working /\ 1 <= cpu.X
      /\ \A b \in UInt8 : 1 <= b /\ b < cpu.X => IsRam(b)
  BY <1>1 DEF PostInv, Good, Runs, Balanced, Counts, Passed, Keeps, Tells,
     ReportKnown, InRomTest, InHiram, UartsKnown
<1>3. /\ at' = IF IsRam(cpu.X) THEN kept ELSE "end_banks"
      /\ MemoryOK(mem') /\ report' = report /\ Native(cpu')
      /\ cpu'.X = cpu.X /\ cpu'.Y = 0 /\ cpu'.DB = cpu.X /\ cpu'.sp = 1021
  BY <1>1, <1>2, ProbeIs DEF Placed, SameStack
<1>4. \/ at' = kept /\ IsRam(cpu'.X)
      \/ at' = "end_banks" /\ ~IsRam(cpu'.X)
  BY <1>3
<1>. QED
  BY <1>1, <1>2, <1>3, <1>4 DEF Good, Placed, Labels, Runs, Native, Balanced,
     Counts, Passed, Keeps, Tells, Outside, InHiram, InRomTest, RamKnown,
     ReportKnown, UartsKnown

LEMMA MoreBanksInv ==
  ASSUME PostInv, MoreBanks
  PROVE  Good(at', cpu', mem', report')
<1> DEFINE c == INCDEC_X(cpu, 1)
<1>1. /\ at = "more" /\ Native(cpu) /\ Placed(at) /\ MemoryOK(mem)
      /\ report = None /\ cpu.sp = 1021 /\ cpu.Y = 0 /\ IsRam(0)
      /\ 0 \in working /\ 1 \in working /\ 1 <= cpu.X /\ IsRam(cpu.X)
      /\ \A b \in UInt8 : 1 <= b /\ b < cpu.X => IsRam(b)
  BY DEF PostInv, Good, Runs, Balanced, Counts, Passed, Keeps, Tells, MoreBanks,
     ReportKnown, InRomTest, InHiram, UartsKnown
<1>2. Goto("next_bank", c) /\ mem' = mem /\ report' = report
  BY DEF MoreBanks
<1>3. cpu.X < 255 /\ cpu.X \in Int /\ cpu.X + 1 \in UInt8
  <2>1. Fits(cpu.X, 256)
    BY <1>1, FitsBytes DEF Native
  <2>2. cpu.X < 255
    BY <1>1, <2>1, RamIs DEF Placed
  <2>. QED BY <1>1, <2>1, <2>2, UInt8Bounds DEF Fits
<1>4. /\ Native(c) /\ c.sp = 1021 /\ c.Y = 0 /\ c.X = cpu.X + 1
  BY <1>1, <1>3, INCDECXIs DEF XLoaded, SameStack
<1>. HIDE DEF c
<1>5. /\ at' = "next_bank" /\ Native(cpu') /\ cpu'.sp = 1021 /\ cpu'.Y = 0
      /\ cpu'.X = cpu.X + 1
  BY <1>2, <1>4, GotoIs DEF Same, SameRegisters, SameStack
<1>6. /\ 1 <= cpu'.X
      /\ \A b \in UInt8 : 1 <= b /\ b < cpu'.X => IsRam(b)
  <2>1. \A b \in UInt8 : b < cpu.X + 1 => b < cpu.X \/ b = cpu.X
    BY <1>3, UInt8Bounds
  <2>. QED BY <1>1, <1>3, <1>5, <2>1
<1>. QED
  BY <1>1, <1>2, <1>5, <1>6 DEF Good, Placed, Labels, Runs, Native, Balanced,
     Counts, Passed, Keeps, Tells, Outside, InHiram, InRomTest, RamKnown,
     ReportKnown, UartsKnown

\* The banks without a gap end in one place only.
LEMMA HighBanksAre ==
  ASSUME NEW n \in UInt8, ~IsRam(n + 1),
         \A b \in UInt8 : 1 <= b /\ b <= n => IsRam(b)
  PROVE  HighBanks = n
<1> DEFINE Ends(m) == /\ m = 255 \/ ~IsRam(m + 1)
                      /\ \A bank \in 1..m : IsRam(bank)
<1>1. Ends(n)
  BY UInt8Bounds
<1>2. PICK h : h = HighBanks
  OBVIOUS
<1>3. h \in UInt8 /\ Ends(h)
  BY <1>1, <1>2 DEF HighBanks
<1>4. h \in Int /\ n \in Int /\ h <= 255 /\ n <= 255 /\ 0 <= h /\ 0 <= n
  BY <1>3, UInt8Bounds
<1>5. ~(h < n)
  <2>. SUFFICES ASSUME h < n PROVE FALSE
    OBVIOUS
  <2>1. h + 1 \in UInt8 /\ 1 <= h + 1 /\ h + 1 <= n /\ h # 255
    BY <1>4, UInt8Bounds
  <2>. QED BY <1>3, <2>1
<1>6. ~(n < h)
  <2>. SUFFICES ASSUME n < h PROVE FALSE
    OBVIOUS
  <2>1. n + 1 \in 1..h
    BY <1>4
  <2>. QED BY <1>3, <2>1
<1>. QED BY <1>2, <1>4, <1>5, <1>6

LEMMA NoBits == Bits(0) = {}
BY DEF Bits

LEMMA EndBanksInv ==
  ASSUME PostInv, EndBanks
  PROVE  Good(at', cpu', mem', report')
<1> DEFINE c == INCDEC_X(cpu, -1)
           d == PHY(c)
           e == PLB(d)
           f == RTS(e)
<1>1. /\ at = "end_banks" /\ Native(cpu) /\ Placed(at) /\ MemoryOK(mem)
      /\ report = None /\ cpu.sp = 1021 /\ cpu.Y = 0 /\ IsRam(0)
      /\ 0 \in working /\ 1 \in working /\ 1 <= cpu.X /\ ~IsRam(cpu.X)
      /\ \A b \in UInt8 : 1 <= b /\ b < cpu.X => IsRam(b)
  BY DEF PostInv, Good, Runs, Balanced, Counts, Passed, Keeps, Tells, EndBanks,
     ReportKnown, InRomTest, InHiram, UartsKnown
<1>2. /\ mem' = Store(board, mem, c, "STX", "DirectPage", banks)
      /\ Goto("print", f) /\ report' = report
  BY DEF EndBanks
<1>3. cpu.X \in Int /\ cpu.X + -1 \in UInt8 /\ -1 \in {1, -1}
  BY <1>1, UInt8Bounds DEF Native
<1>4. /\ Native(c) /\ c.sp = 1021 /\ c.Y = 0 /\ c.X = cpu.X + -1
  BY <1>1, <1>3, INCDECXIs DEF XLoaded, SameStack
<1>. HIDE DEF c, d, e, f
<1>5. c.X \in UInt8 /\ c.X \in Int /\ c.X + 1 = cpu.X
  BY <1>3, <1>4
<1>6. HighBanks = c.X
  <2>1. \A b \in UInt8 : b <= c.X => b < cpu.X
    BY <1>5, UInt8Bounds
  <2>. QED BY <1>1, <1>5, <2>1, HighBanksAre
<1>7. /\ MemoryOK(mem') /\ Byte(mem', 0) = high /\ Byte(mem', 1) = 0
  <2>1. mem' = StoreTwoBytes(board, mem, Address(0, 0), c.X)
    BY <1>2, <1>4, StoresAre
  <2>2. Fits(0, 32) /\ Fits(c.X, 65536)
    BY <1>5, UInt8Bounds DEF Fits
  <2>3. /\ MemoryOK(mem') /\ Byte(mem', 0) = Low(c.X)
        /\ Byte(mem', 0 + 1) = High(c.X)
    BY <1>1, <2>1, <2>2, StoreZeroPage DEF Placed
  <2>4. Low(c.X) = c.X /\ High(c.X) = 0
    BY <1>5, UInt8Bounds DEF Low, High
  <2>. QED BY <1>1, <1>6, <2>3, <2>4 DEF Placed
<1>8. /\ Native(d) /\ d.sp = 1020 /\ d.ram[1021] = 0
  <2>1. c.sp \in STACK /\ c.sp >= 1 /\ c.sp - 1 = 1020
    BY <1>4, StackBounds
  <2>2. /\ Native(d) /\ d.sp = c.sp - 1 /\ d.ram[c.sp] = c.Y
    BY <1>4, <2>1, PHXYIs DEF d
  <2>. QED BY <1>4, <2>1, <2>2
<1>9. Native(e) /\ e.sp = 1021 /\ e.DB = 0
  <2>1. d.sp + 1 = 1021 /\ d.sp + 1 \in STACK
    BY <1>8, StackBounds
  <2>. QED BY <1>8, <2>1, PLBIs DEF e
<1>10. Native(f) /\ f.sp = 1023 /\ f.DB = 0
  <2>1. Above(e)
    BY <1>9, StackBounds DEF Above
  <2>. QED BY <1>9, <2>1, RTSIs DEF f, SameRegisters
<1>11. /\ at' = "print" /\ Native(cpu') /\ cpu'.sp = 1023 /\ cpu'.DB = 0
  BY <1>2, <1>10, GotoIs DEF Same, SameRegisters, SameStack
<1>12. FlagsAt("print") = {}
  BY DEF FlagsAt
<1>. QED
  BY <1>1, <1>2, <1>7, <1>11, <1>12, NoBits DEF Good, Placed, Labels, Runs,
     Native, Balanced, Counts, Passed, Keeps, Tells, Outside, InHiram,
     InRomTest, RamKnown, ReportKnown, UartsKnown

LEMMA CallRomTestInv ==
  ASSUME PostInv, CallRomTest
  PROVE  Good(at', cpu', mem', report')
<1> DEFINE c == JSR(cpu, 0)
<1>1. /\ at = "rom_test" /\ Native(cpu) /\ Placed(at) /\ MemoryOK(mem)
      /\ report = AllBanks /\ cpu.sp = 1023 /\ cpu.DB = 0 /\ IsRam(0)
      /\ 0 \in working /\ 1 \in working /\ Byte(mem, 0) = high
      /\ Bits(Byte(mem, 1)) = FlagsAt("rom_test")
  BY DEF PostInv, Good, Runs, Balanced, Passed, Keeps, Tells, CallRomTest,
     ReportKnown, RamKnown, Outside, UartsKnown
<1>2. Goto("rom0", c) /\ mem' = mem /\ report' = report
  BY DEF CallRomTest
<1>. HIDE DEF c
<1>3. Native(c) /\ c.sp = 1021 /\ c.DB = 0
  <2>1. Room(cpu)
    BY <1>1, StackBounds DEF Room
  <2>2. PICK v \in UInt16 : WordPushed(cpu, c, v)
    BY <1>1, <2>1, JSRIs DEF c
  <2>. QED BY <1>1, <2>2 DEF WordPushed, SameRegisters
<1>4. at' = "rom0" /\ Native(cpu') /\ cpu'.sp = 1021 /\ cpu'.DB = 0
  BY <1>2, <1>3, GotoIs DEF Same, SameRegisters, SameStack
<1>5. FlagsAt("rom0") = FlagsAt("rom_test")
  BY DEF FlagsAt
<1>. QED
  BY <1>1, <1>2, <1>4, <1>5 DEF Good, Placed, Labels, Runs, Native, Balanced,
     Counts, Passed, Keeps, Tells, Outside, InHiram, InRomTest, RamKnown,
     ReportKnown, UartsKnown

LEMMA ReturnRomTestInv ==
  ASSUME PostInv, ReturnRomTest
  PROVE  Good(at', cpu', mem', report')
<1> DEFINE c == RTS(cpu)
<1>1. /\ at = "rom_done" /\ Native(cpu) /\ Placed(at) /\ MemoryOK(mem)
      /\ report = AllBanks /\ cpu.sp = 1021 /\ cpu.DB = 0 /\ IsRam(0)
      /\ 0 \in working /\ 1 \in working /\ Byte(mem, 0) = high
      /\ Bits(Byte(mem, 1)) = FlagsAt("rom_done")
  BY DEF PostInv, Good, Runs, Balanced, Passed, Keeps, Tells, ReturnRomTest,
     ReportKnown, RamKnown, InRomTest, UartsKnown
<1>2. Goto("flags", c) /\ mem' = mem /\ report' = report
  BY DEF ReturnRomTest
<1>. HIDE DEF c
<1>3. Native(c) /\ c.sp = 1023 /\ c.DB = 0
  <2>1. Above(cpu)
    BY <1>1, StackBounds DEF Above
  <2>. QED BY <1>1, <2>1, RTSIs DEF c, SameRegisters
<1>4. at' = "flags" /\ Native(cpu') /\ cpu'.sp = 1023 /\ cpu'.DB = 0
  BY <1>2, <1>3, GotoIs DEF Same, SameRegisters, SameStack
<1>5. FlagsAt("flags") = FlagsAt("rom_done")
  BY DEF FlagsAt
<1>. QED
  BY <1>1, <1>2, <1>4, <1>5 DEF Good, Placed, Labels, Runs, Native, Balanced,
     Counts, Passed, Keeps, Tells, Outside, InHiram, InRomTest, RamKnown,
     ReportKnown, UartsKnown

\* What m_ul2a finds where the count was pushed, and what is left when it has
\* returned and its arguments are dropped.
LEMMA PrintedIs ==
  ASSUME NEW c, Native(c), c.sp = 1023, NEW w \in UInt16,
         NEW d, d = PHP(JSR(PEA(PEI(PEA(c, k_buf1), w), 0), 0))
  PROVE  /\ Word(Peek(d, 7), Peek(d, 6)) = w /\ Word(Peek(d, 5), Peek(d, 4)) = 0
         /\ Native(d) /\ d.DB = c.DB /\ d.sp = 1014
         /\ d.ram[1015] = GetRegisterValue(d.P)
<1> DEFINE e == PEA(c, k_buf1)
           f == PEI(e, w)
           g == PEA(f, 0)
           h == JSR(g, 0)
<1>1. k_buf1 \in UInt16 /\ 0 \in UInt16
  BY UInt16Bounds DEF k_buf1
<1>2. d = PHP(h)
  OBVIOUS
<1>. HIDE DEF e, f, g, h
<1>3. Native(e) /\ e.sp = 1021 /\ e.DB = c.DB
  <2>1. Room(c)
    BY StackBounds DEF Room
  <2>. QED BY <1>1, <2>1, PEAIs DEF e, WordPushed, SameRegisters
<1>4. /\ Native(f) /\ f.sp = 1019 /\ f.DB = c.DB
      /\ f.ram[1021] = High(w) /\ f.ram[1020] = Low(w)
  <2>1. Room(e) /\ e.sp - 1 = 1020
    BY <1>3, StackBounds DEF Room
  <2>2. WordPushed(e, f, w)
    BY <1>3, <2>1, PEAIs DEF f
  <2>. QED BY <1>3, <2>1, <2>2 DEF WordPushed, SameRegisters
<1>5. /\ Native(g) /\ g.sp = 1017 /\ g.DB = c.DB
      /\ g.ram[1021] = High(w) /\ g.ram[1020] = Low(w)
      /\ g.ram[1019] = 0 /\ g.ram[1018] = 0
  <2>1. Room(f) /\ f.sp - 1 = 1018
    BY <1>4, StackBounds DEF Room
  <2>2. WordPushed(f, g, 0)
    BY <1>1, <1>4, <2>1, PEAIs DEF g
  <2>3. High(0) = 0 /\ Low(0) = 0
    BY DEF High, Low
  <2>4. 1021 \in STACK /\ 1020 \in STACK
    BY StackBounds
  <2>. QED BY <1>4, <2>1, <2>2, <2>3, <2>4 DEF WordPushed, SameRegisters
<1>6. /\ Native(h) /\ h.sp = 1015 /\ h.DB = c.DB
      /\ h.ram[1021] = High(w) /\ h.ram[1020] = Low(w)
      /\ h.ram[1019] = 0 /\ h.ram[1018] = 0
  <2>1. Room(g) /\ g.sp - 1 = 1016
    BY <1>5, StackBounds DEF Room
  <2>2. PICK v \in UInt16 : WordPushed(g, h, v)
    BY <1>5, <2>1, JSRIs DEF h
  <2>3. 1021 \in STACK /\ 1020 \in STACK /\ 1019 \in STACK /\ 1018 \in STACK
    BY StackBounds
  <2>. QED BY <1>5, <2>1, <2>2, <2>3 DEF WordPushed, SameRegisters
<1>7. /\ Native(d) /\ d.sp = 1014 /\ d.DB = c.DB
      /\ d.ram[1015] = GetRegisterValue(d.P)
      /\ d.ram[1021] = High(w) /\ d.ram[1020] = Low(w)
      /\ d.ram[1019] = 0 /\ d.ram[1018] = 0
  <2>1. h.sp \in STACK /\ h.sp >= 1 /\ h.sp - 1 = 1014
    BY <1>6, StackBounds
  <2>2. /\ Native(d) /\ SameRegisters(h, d) /\ d.P = h.P /\ d.sp = h.sp - 1
        /\ d.ram[h.sp] = GetRegisterValue(h.P)
        /\ \A a \in STACK : a # h.sp => d.ram[a] = h.ram[a]
    BY <1>2, <1>6, <2>1, PHPIs
  <2>3. 1021 \in STACK /\ 1020 \in STACK /\ 1019 \in STACK /\ 1018 \in STACK
    BY StackBounds
  <2>. QED BY <1>6, <2>1, <2>2, <2>3 DEF SameRegisters
<1>8. /\ Peek(d, 7) = High(w) /\ Peek(d, 6) = Low(w)
      /\ Peek(d, 5) = 0 /\ Peek(d, 4) = 0
  <2>1. /\ d.sp + 7 = 1021 /\ d.sp + 6 = 1020 /\ d.sp + 5 = 1019
        /\ d.sp + 4 = 1018
    BY <1>7
  <2>2. 1021 \in STACK /\ 1020 \in STACK /\ 1019 \in STACK /\ 1018 \in STACK
    BY StackBounds
  <2>. QED BY <1>7, <2>1, <2>2, Peeked
<1>9. Word(High(w), Low(w)) = w /\ Word(0, 0) = 0
  <2>1. Fits(w, 65536)
    BY FitsBytes
  <2>. QED BY <2>1, Bytes DEF Word
<1>. QED BY <1>7, <1>8, <1>9

LEMMA ArgumentsDropped ==
  ASSUME NEW d, Native(d), d.sp = 1014, d.ram[1015] = GetRegisterValue(d.P),
         NEW j, j = PLA(PLA(PLA(RTS(PLP(d)))))
  PROVE  Native(j) /\ j.DB = d.DB /\ j.sp = 1023
<1> DEFINE e == PLP(d)
           f == RTS(e)
           g == PLA(f)
           h == PLA(g)
<1>1. j = PLA(h)
  OBVIOUS
<1>. HIDE DEF e, f, g, h
<1>2. Native(e) /\ e.DB = d.DB /\ e.sp = 1015
  <2>1. d.sp + 1 = 1015 /\ d.sp + 1 \in STACK
    BY StackBounds
  <2>. QED BY <2>1, PLPIs DEF e, SameRegisters
<1>3. Native(f) /\ f.DB = d.DB /\ f.sp = 1017
  <2>1. Above(e)
    BY <1>2, StackBounds DEF Above
  <2>. QED BY <1>2, <2>1, RTSIs DEF f, SameRegisters
<1>4. Native(g) /\ g.DB = d.DB /\ g.sp = 1019
  <2>1. Above(f)
    BY <1>3, StackBounds DEF Above
  <2>. QED BY <1>3, <2>1, PLAIs DEF g
<1>5. Native(h) /\ h.DB = d.DB /\ h.sp = 1021
  <2>1. Above(g)
    BY <1>4, StackBounds DEF Above
  <2>. QED BY <1>4, <2>1, PLAIs DEF h
<1>6. Above(h)
  BY <1>5, StackBounds DEF Above
<1>. QED BY <1>1, <1>5, <1>6, PLAIs

LEMMA PrintRamInv ==
  ASSUME PostInv, PrintRam
  PROVE  /\ Good(at', cpu', mem', report')
         /\ report = None /\ report' = AllBanks
<1>1. PICK w, d, j :
        /\ w = ZeroPageWord(banks)
        /\ d = PHP(JSR(PEA(PEI(PEA(cpu, k_buf1), w), 0), 0))
        /\ j = PLA(PLA(PLA(RTS(PLP(d)))))
  OBVIOUS
<1>2. PICK firsts : firsts = IF report'.hi = 0 THEN {0} ELSE 49..57
  OBVIOUS
<1>3. /\ at = "print" /\ Native(cpu) /\ Placed(at) /\ MemoryOK(mem)
      /\ report = None /\ cpu.sp = 1023 /\ cpu.DB = 0 /\ IsRam(0)
      /\ 0 \in working /\ 1 \in working /\ Byte(mem, 0) = high
      /\ Byte(mem, 1) = 0 /\ Bits(Byte(mem, 1)) = FlagsAt("print")
  BY DEF PostInv, Good, Runs, Balanced, Passed, Keeps, Tells, PrintRam,
     ReportKnown, RamKnown, InRomTest, Outside, UartsKnown
<1>4. /\ report' = [hi |-> Word(Peek(d, 7), Peek(d, 6)),
                    lo |-> Word(Peek(d, 5), Peek(d, 4))]
      /\ \E first \in firsts :
           Goto("rom_test", [j EXCEPT !.A = msg_bytes_free, !.X = first,
                                      !.Y = BYTES_FREE])
      /\ mem' = mem
  BY <1>1, <1>2 DEF PrintRam
<1>5. PICK first, k :
        /\ first \in firsts
        /\ k = [j EXCEPT !.A = msg_bytes_free, !.X = first, !.Y = BYTES_FREE]
        /\ Goto("rom_test", k)
  BY <1>4
<1>6. first \in UInt8 /\ BYTES_FREE \in UInt8 /\ msg_bytes_free \in UInt16
  BY <1>2, <1>5, UInt8Bounds, UInt16Bounds DEF BYTES_FREE, msg_bytes_free, Fits
<1>7. w = high /\ w \in UInt16
  <2>1. Fits(0, 32) /\ Fits(high, 256)
    BY <1>3, ByteFits DEF Fits
  <2>2. w = 256 * Byte(mem, 0 + 1) + Byte(mem, 0)
    BY <1>1, <1>3, <2>1, ReadZeroPage DEF Placed, ZeroPageWord, banks
  <2>3. w = high
    BY <1>3, <2>1, <2>2 DEF Fits
  <2>. QED BY <2>1, <2>3, UInt16Bounds DEF Fits
<1>8. /\ Word(Peek(d, 7), Peek(d, 6)) = w /\ Word(Peek(d, 5), Peek(d, 4)) = 0
      /\ Native(d) /\ d.DB = 0 /\ d.sp = 1014
      /\ d.ram[1015] = GetRegisterValue(d.P)
  BY <1>1, <1>3, <1>7, PrintedIs
<1>9. report' = AllBanks
  BY <1>4, <1>7, <1>8 DEF AllBanks
<1>10. Native(j) /\ j.DB = 0 /\ j.sp = 1023
  BY <1>1, <1>8, ArgumentsDropped
<1>11. Native(k) /\ k.DB = 0 /\ k.sp = 1023
  <2>1. k.A = msg_bytes_free /\ k.X = first /\ k.Y = BYTES_FREE
        /\ k.D = j.D /\ k.P = j.P /\ k.RES = j.RES /\ k.DB = j.DB
        /\ k.sp = j.sp
    BY <1>10, <1>5 DEF Native, Cpus
  <2>2. first \in UInt16 /\ BYTES_FREE \in UInt16
    BY <1>6, UInt8Bounds, UInt16Bounds
  <2>3. k \in Cpus
    BY <1>10, <1>5, <1>6, <2>2 DEF Native, Cpus
  <2>. QED BY <1>10, <1>6, <2>1, <2>3 DEF Native
<1>12. at' = "rom_test" /\ Native(cpu') /\ cpu'.sp = 1023 /\ cpu'.DB = 0
  <2>1. Goto("rom_test", k)
    BY <1>5
  <2>. QED BY <2>1, <1>11, GotoIs DEF Same, SameRegisters, SameStack
<1>13. FlagsAt("rom_test") = FlagsAt("print")
  BY DEF FlagsAt
<1>. QED
  BY <1>3, <1>4, <1>9, <1>12, <1>13 DEF Good, Placed, Labels, Runs, Native,
     Balanced, Counts, Passed, Keeps, Tells, Outside, InHiram, InRomTest,
     RamKnown, ReportKnown, UartsKnown

\* The bit of a table is set in the flags from its test on, if the table is
\* present.
LEMMA FlagsGrow ==
  ASSUME NEW here, NEW t, NEW next,
         \/ here = "rom0" /\ t = "sin" /\ next = "rom1"
         \/ here = "rom1" /\ t = "mul" /\ next = "rom_done"
  PROVE  /\ t \in Names /\ Tested[t].flag \in {1, 2}
         /\ Present(t) => FlagsAt(next) = FlagsAt(here) \cup {Tested[t].flag}
         /\ ~Present(t) => FlagsAt(next) = FlagsAt(here)
         /\ FlagsAt(here) \subseteq {1, 2}
<1>1. /\ \A u \in Names : Tested[u].flag \in {1, 2}
      /\ Names = {"sin", "mul"}
  BY TestedIs DEF Names
<1>. QED BY <1>1 DEF FlagsAt

LEMMA TestTablesInv ==
  ASSUME PostInv, TestTables
  PROVE  Good(at', cpu', mem', report')
<1>1. PICK here, t, next :
        /\ at = here /\ TestTable(here, t, next)
        /\ \/ here = "rom0" /\ t = "sin" /\ next = "rom1"
           \/ here = "rom1" /\ t = "mul" /\ next = "rom_done"
  BY DEF TestTables, TestTable
<1>2. /\ Native(cpu) /\ Placed(at) /\ MemoryOK(mem) /\ report = AllBanks
      /\ cpu.sp = 1021 /\ cpu.DB = 0 /\ IsRam(0)
      /\ 0 \in working /\ 1 \in working /\ Byte(mem, 0) = high
      /\ Bits(Byte(mem, 1)) = FlagsAt(here)
  BY <1>1 DEF PostInv, Good, Runs, Balanced, Passed, Keeps, Tells, ReportKnown,
     RamKnown, InRomTest, UartsKnown
<1>3. PICK p, a, got, v, w, f :
        /\ p = Pointing(t)
        /\ a = Target(board, p, cpu, "DirectPageIndirectLong", temp)
        /\ got = ReadTwoBytes(board, p, a)
        /\ f = Tested[t].flag
        /\ v = SetFlagBit(ZeroPageByte(flags), f)
        /\ w = IF got = Tested[t].word THEN Word(High(got), f) ELSE got
  OBVIOUS
<1>4. /\ mem' = IF got = Tested[t].word
                THEN StoreByte(board, p, Address(0, 1), v) ELSE p
      /\ Goto(next, [cpu EXCEPT !.A = w])
      /\ report' = report
  BY <1>1, <1>3 DEF TestTable, flags
<1>5. /\ t \in Names /\ f \in {1, 2} /\ FlagsAt(here) \subseteq {1, 2}
      /\ Present(t) => FlagsAt(next) = FlagsAt(here) \cup {f}
      /\ ~Present(t) => FlagsAt(next) = FlagsAt(here)
  BY <1>1, <1>3, FlagsGrow
<1>6. /\ MemoryOK(p) /\ Byte(p, 0) = high /\ Byte(p, 1) = Byte(mem, 1)
      /\ a = TableAddress(t)
  BY <1>2, <1>3, <1>5, PointingIs DEF Placed
<1>7. (got = Tested[t].word <=> Present(t)) /\ Fits(got, 65536)
  BY <1>2, <1>3, <1>5, <1>6, TableWordIs DEF Placed
<1>8. w \in UInt16
  <2>1. High(got) \in UInt8 /\ f \in UInt8
    BY <1>5, <1>7, Bytes, FitsBytes, UInt8Bounds
  <2>2. Word(High(got), f) \in UInt16
    BY <2>1, WordOfBytes, FitsBytes
  <2>. QED BY <1>3, <1>7, <2>2, FitsBytes
<1>9. Fits(v, 256) /\ Bits(v) = FlagsAt(here) \cup {f}
  <2>1. Fits(1, 32)
    BY DEF Fits
  <2>2. ZeroPageByte(flags) = Byte(mem, 1)
    BY <1>2, <2>1, ReadZeroPage DEF ZeroPageByte, flags, Placed
  <2>3. v = ByteOf(FlagsAt(here) \cup {f})
    BY <1>2, <1>3, <2>2 DEF SetFlagBit
  <2>4. FlagsAt(here) \cup {f} \in SUBSET Weights
    BY <1>5 DEF Weights
  <2>. QED BY <2>3, <2>4, BitsOfByte
<1>10. /\ MemoryOK(mem') /\ Byte(mem', 0) = high
       /\ Bits(Byte(mem', 1)) = FlagsAt(next)
  <2>1. CASE Present(t)
    <3>1. mem' = StoreByte(board, p, Address(0, 1), v) /\ Fits(1, 32)
      BY <1>4, <1>7, <2>1 DEF Fits
    <3>2. /\ MemoryOK(mem') /\ Byte(mem', 1) = v
          /\ \A o : o # 1 => Byte(mem', o) = Byte(p, o)
      BY <1>2, <1>6, <1>9, <3>1, StoreZeroPageByte DEF Placed
    <3>. QED BY <1>5, <1>6, <1>9, <2>1, <3>2
  <2>2. CASE ~Present(t)
    BY <1>2, <1>4, <1>5, <1>6, <1>7, <2>2
  <2>. QED BY <2>1, <2>2
<1>11. at' = next /\ Native(cpu') /\ cpu'.sp = 1021 /\ cpu'.DB = 0
  <2>1. PICK d : d = Accumulating(cpu, w)
    OBVIOUS
  <2>2. Native(d) /\ d.DB = 0 /\ d.sp = 1021
    BY <1>2, <1>8, <2>1, Accumulated
  <2>3. Goto(next, d)
    BY <1>4, <2>1 DEF Accumulating
  <2>. QED BY <2>2, <2>3, GotoIs DEF Same, SameRegisters, SameStack
<1>. QED
  BY <1>1, <1>2, <1>4, <1>10, <1>11 DEF Good, Placed, Labels, Runs, Native,
     Balanced, Counts, Passed, Keeps, Tells, Outside, InHiram, InRomTest,
     RamKnown, ReportKnown, UartsKnown

LEMMA FlagsTell ==
  /\ FlagsAt("flags") \subseteq {1, 2}
  /\ FlagsAt("mon_start") = FlagsAt("flags")
  /\ FlagsAt("flags") = {1, 2} <=> \A t \in Names : Present(t)
<1>1. /\ Tested["sin"].flag = 1 /\ Tested["mul"].flag = 2
      /\ Names = {"sin", "mul"}
  BY TestedIs DEF Names
<1>2. \A n : n \in FlagsAt("flags") <=>
               \/ n = 1 /\ Present("sin")
               \/ n = 2 /\ Present("mul")
  <2> DEFINE S == {u \in Names : Present(u)}
             F == {Tested[t].flag : t \in S}
  <2>1. FlagsAt("flags") = F
    BY DEF FlagsAt
  <2>2. /\ \A u \in S : u \in {"sin", "mul"} /\ Present(u)
        /\ Present("sin") => "sin" \in S
        /\ Present("mul") => "mul" \in S
    BY <1>1
  <2>. SUFFICES ASSUME NEW n
                PROVE  n \in F <=> \/ n = 1 /\ Present("sin")
                                   \/ n = 2 /\ Present("mul")
    BY <2>1
  <2>3. n \in F <=> \E u \in S : n = Tested[u].flag
    OBVIOUS
  <2>. HIDE DEF F, S
  <2>. QED BY <1>1, <2>2, <2>3
<1>3. FlagsAt("mon_start") = FlagsAt("flags")
  BY DEF FlagsAt
<1>4. FlagsAt("flags") = {1, 2} <=> Present("sin") /\ Present("mul")
  <2>. HIDE DEF FlagsAt
  <2>. QED BY <1>2
<1>5. FlagsAt("flags") \subseteq {1, 2}
  <2>. HIDE DEF FlagsAt
  <2>. QED BY <1>2
<1>. QED BY <1>1, <1>3, <1>4, <1>5

LEMMA JudgeInv ==
  ASSUME PostInv, Judge
  PROVE  Good(at', cpu', mem', report') /\ ~cpu'.RES
<1>1. PICK masked, a, c, y :
        /\ masked = Bits(Low(ZeroPageWord(flags))) \cap {1, 2}
        /\ a = ByteOf(masked) /\ c = Accumulating(cpu, a)
        /\ y = ZeroPageByte(flags)
  OBVIOUS
<1>2. /\ at = "flags" /\ Native(cpu) /\ Placed(at) /\ MemoryOK(mem)
      /\ report = AllBanks /\ cpu.sp = 1023 /\ cpu.DB = 0 /\ IsRam(0)
      /\ 0 \in working /\ 1 \in working /\ Byte(mem, 0) = high
      /\ Bits(Byte(mem, 1)) = FlagsAt("flags")
  BY DEF PostInv, Good, Runs, Balanced, Passed, Keeps, Tells, Judge,
     ReportKnown, RamKnown, Outside, UartsKnown
<1>3. /\ mem' = mem /\ report' = report
      /\ masked = {1, 2} => Goto("mon_start", LDY(c, y))
      /\ masked # {1, 2} => Goto("post_fail", c)
  BY <1>1 DEF Judge, Accumulating
<1>4. masked = FlagsAt("flags") /\ y \in UInt8
  <2>1. Fits(1, 32) /\ Fits(Byte(mem, 1), 256) /\ Fits(Byte(mem, 1 + 1), 256)
    BY <1>2, ByteFits DEF Fits
  <2>2. /\ ZeroPageWord(flags) = 256 * Byte(mem, 1 + 1) + Byte(mem, 1)
        /\ y = Byte(mem, 1)
    BY <1>1, <1>2, <2>1, ReadZeroPage
       DEF Placed, ZeroPageWord, ZeroPageByte, flags
  <2>3. Low(ZeroPageWord(flags)) = Byte(mem, 1)
    <3>1. \A l, h : Fits(l, 256) /\ Fits(h, 256) => Low(256 * h + l) = l
      BY DEF Low, Fits
    <3>. QED BY <2>1, <2>2, <3>1
  <2>. QED BY <1>1, <1>2, <2>1, <2>2, <2>3, FitsBytes, FlagsTell
<1>5. a \in UInt16
  <2>1. masked \in SUBSET Weights
    BY <1>4, FlagsTell DEF Weights
  <2>2. Fits(a, 256)
    BY <1>1, <2>1, BitsOfByte
  <2>. QED BY <2>2, UInt16Bounds DEF Fits
<1>6. Native(c) /\ c.DB = 0 /\ c.sp = 1023
  BY <1>1, <1>2, <1>5, Accumulated
<1>7. CASE masked = {1, 2}
  <2>1. PICK d : d = LDY(c, y)
    OBVIOUS
  <2>2. Native(d) /\ d.DB = 0 /\ d.sp = 1023
    BY <1>4, <1>6, <2>1, LDYIs DEF YLoaded, SameStack
  <2>3. at' = "mon_start" /\ Native(cpu') /\ cpu'.DB = 0 /\ cpu'.sp = 1023
    BY <1>3, <1>7, <2>1, <2>2, GotoIs DEF Same, SameRegisters, SameStack
  <2>4. \A t \in Names : Present(t)
    BY <1>4, <1>7, FlagsTell
  <2>5. FlagsAt("mon_start") = FlagsAt("flags")
    BY FlagsTell
  <2>. QED
    BY <1>2, <1>3, <2>3, <2>4, <2>5 DEF Good, Placed, Labels, Runs, Native,
       Balanced, Counts, Passed, Keeps, Tells, Outside, InHiram, InRomTest,
       RamKnown, ReportKnown, UartsKnown
<1>8. CASE masked # {1, 2}
  <2>1. at' = "post_fail" /\ Native(cpu')
    BY <1>3, <1>6, <1>8, GotoIs
  <2>2. ~Sound
    BY <1>4, <1>8, FlagsTell, TestedIs DEF Sound
  <2>. QED
    BY <1>2, <1>3, <2>1, <2>2 DEF Good, Placed, Labels, Runs, Native,
       Balanced, Counts, Passed, Keeps, Tells, Outside, InHiram, InRomTest,
       RamKnown, ReportKnown, UartsKnown
<1>. QED BY <1>7, <1>8

LEMMA StopInv ==
  ASSUME PostInv, Stop
  PROVE  Good(at', cpu', mem', report') /\ at' = at /\ report' = report
<1>1. PICK d : d = Advance(cpu, 1)
  OBVIOUS
<1>2. at \in {"mon_start", "post_fail"} /\ cpu \in Cpus
  BY DEF PostInv, Good, Runs, Stop
<1>3. d \in Cpus /\ d.sp = cpu.sp /\ d.DB = cpu.DB
  <2>1. Wrap(cpu.pc + 1) \in UInt16
    <3>1. cpu.pc + 1 \in Int
      BY <1>2, UInt16Bounds DEF Cpus
    <3>. QED BY <3>1, Wrapped
  <2>2. PICK w \in UInt16 : d = [cpu EXCEPT !.pc = w]
    BY <1>1, <2>1 DEF Advance
  <2>. QED BY <1>2, <2>2, Zenon DEF Cpus
<1>4. /\ at' = at /\ mem' = mem /\ report' = report
      /\ cpu' = [[d EXCEPT !.RES = TRUE] EXCEPT !.pc = 0]
  BY <1>1 DEF Stop, Goto, STP
<1>5. PICK e : e = [d EXCEPT !.RES = TRUE]
  OBVIOUS
<1>6. e \in Cpus /\ e.sp = d.sp /\ e.DB = d.DB
  <2>1. TRUE \in BOOLEAN
    OBVIOUS
  <2>. QED BY <1>3, <1>5, <2>1, Zenon DEF Cpus
<1>7. cpu' = [e EXCEPT !.pc = 0] /\ 0 \in UInt16
  BY <1>4, <1>5, UInt16Bounds
<1>8. cpu' \in Cpus /\ cpu'.sp = cpu.sp /\ cpu'.DB = cpu.DB
  <2>1. PICK g : g = [e EXCEPT !.pc = 0]
    OBVIOUS
  <2>2. g \in Cpus /\ g.sp = e.sp /\ g.DB = e.DB
    BY <1>6, <1>7, <2>1, Zenon DEF Cpus
  <2>. QED BY <1>3, <1>6, <1>7, <2>1, <2>2
<1>. QED
  BY <1>2, <1>4, <1>8 DEF PostInv, Good, Runs, Balanced, Counts, Outside,
     InHiram, InRomTest

LEMMA NextInv ==
  ASSUME PostInv, [Next]_postVars
  PROVE  PostInv'
<1>1. CASE UNCHANGED postVars
  <2>1. /\ UNCHANGED <<board, tables, working, high>>
        /\ Good(at', cpu', mem', report')
    BY <1>1 DEF postVars, PostInv
  <2>. QED BY <2>1, GoodStays
<1>2. CASE Next
  <2>1. UNCHANGED <<board, tables, working, high>>
    BY <1>2 DEF Next
  <2>2. Good(at', cpu', mem', report')
    BY <1>2, GoNativeInv, LowProbeInv, SetStackInv, ClearByteInv, TestUartsInv,
       SetUpUart0Inv, CallHiramInv, NextBankInv, HighProbeInv, MoreBanksInv,
       EndBanksInv, PrintRamInv, CallRomTestInv, TestTablesInv,
       ReturnRomTestInv, JudgeInv, StopInv DEF Next
  <2>. QED BY <2>1, <2>2, GoodStays
<1>. QED BY <1>1, <1>2

-----------------------------------------------------------------------------
(* The refinement.                                                         *)

TestVars == <<Sound, AllBanks, report, Verdict>>

\* A step that reports nothing and does not stop the processor.
Silent == report' = report /\ ~cpu.RES /\ ~cpu'.RES

LEMMA SilentStutters ==
  ASSUME UNCHANGED <<board, tables, working, high>>, Silent
  PROVE  UNCHANGED TestVars
<1>1. Sound' = Sound
  BY BoardStays
<1>2. Verdict' = Verdict
  BY DEF Verdict, Silent
<1>. QED BY <1>1, <1>2 DEF TestVars, AllBanks, Silent

\* Only a stop stops the processor, and only the count's printing reports.
LEMMA RunsOn ==
  ASSUME PostInv, Next, ~Stop, ~PrintRam
  PROVE  Silent
<1>1. PostInv' /\ at \in Labels
  BY NextInv DEF PostInv, Good, Placed
<1>2. report' = report
  BY DEF Next, GoNative, LowProbe, Probe, SetStack, ClearByte, TestUarts,
     TestUart, SetUpUart0, CallHiram, NextBank, HighProbe, MoreBanks, EndBanks,
     CallRomTest, TestTables, TestTable, ReturnRomTest, Judge
<1>3. at \notin {"mon_start", "post_fail"}
  BY DEF Next, GoNative, LowProbe, Probe, SetStack, ClearByte, TestUarts,
     TestUart, SetUpUart0, CallHiram, NextBank, HighProbe, MoreBanks, EndBanks,
     CallRomTest, TestTables, TestTable, ReturnRomTest, Judge
<1>4. ~cpu.RES
  BY <1>3 DEF PostInv, Good, Runs, Raised, Native
<1>5. CASE at' \notin {"mon_start", "post_fail"}
  BY <1>1, <1>2, <1>4, <1>5 DEF PostInv, Good, Runs, Raised, Native, Silent
<1>6. CASE at' \in {"mon_start", "post_fail"}
  <2>1. LowProbe \/ TestUarts \/ Judge
    BY <1>6 DEF Next, Goto, GoNative, SetStack, ClearByte, SetUpUart0,
       CallHiram, NextBank, HighProbe, Probe, MoreBanks, EndBanks, CallRomTest,
       TestTables, TestTable, ReturnRomTest
  <2>. QED
    BY <1>2, <1>4, <2>1, LowProbeInv, TestUartsInv, JudgeInv DEF Silent
<1>. QED BY <1>5, <1>6

LEMMA PrintReports ==
  ASSUME PostInv, PrintRam, UNCHANGED <<board, tables, working, high>>
  PROVE  Post!Report
<1>1. report = None /\ report' = AllBanks /\ Good(at', cpu', mem', report')
  BY PrintRamInv
<1>2. at = "print" /\ at' = "rom_test"
  BY DEF PrintRam, Goto
<1>3. ~cpu.RES /\ ~cpu'.RES
  BY <1>1, <1>2 DEF PostInv, Good, Runs, Native
<1>4. Verdict = "testing" /\ Verdict' = "testing"
  BY <1>3 DEF Verdict
<1>5. Sound' = Sound
  BY BoardStays
<1>. QED BY <1>1, <1>4, <1>5 DEF Post!Report, AllBanks

LEMMA StopConcludes ==
  ASSUME PostInv, Stop, UNCHANGED <<board, tables, working, high>>
  PROVE  Post!Conclude
<1>1. /\ at' = at /\ report' = report /\ at \in {"mon_start", "post_fail"}
      /\ ~cpu.RES
  BY StopInv DEF Stop
<1>2. cpu'.RES
  <2>1. cpu \in Cpus
    BY <1>1 DEF PostInv, Good, Runs
  <2>2. PICK d : d = Advance(cpu, 1)
    OBVIOUS
  <2>3. cpu' = [[d EXCEPT !.RES = TRUE] EXCEPT !.pc = 0]
    BY <2>2 DEF Stop, Goto, STP
  <2>4. DOMAIN d = DOMAIN cpu /\ "RES" \in DOMAIN cpu
    BY <2>1, <2>2 DEF Advance, Cpus
  <2>. QED BY <2>3, <2>4
<1>3. at = "mon_start" <=> Sound
  <2>1. at = "mon_start" => IsRam(0) /\ 0 \in working /\ 1 \in working
                            /\ \A t \in Names : Present(t)
    BY DEF PostInv, Good, Passed, Outside, UartsKnown, RamKnown, ReportKnown
  <2>2. working \subseteq {0, 1}
    BY DEF PostInv, Good, Placed
  <2>3. at = "post_fail" => ~Sound
    BY DEF PostInv, Good, Passed
  <2>4. at = "mon_start" => working = {0, 1}
    BY <2>1, <2>2
  <2>5. at = "mon_start" => \A t \in DOMAIN Tested : Present(t)
    BY <2>1, TestedIs
  <2>6. at = "mon_start" => Sound
    BY <2>1, <2>4, <2>5 DEF Sound
  <2>. QED BY <1>1, <2>3, <2>6
<1>4. at = "mon_start" => report # None
  <2>1. at = "mon_start" => report = AllBanks /\ high = Byte(mem, 0)
    BY DEF PostInv, Good, Tells, Keeps, RamKnown, ReportKnown
  <2>2. MemoryOK(mem)
    BY DEF PostInv, Good, Keeps
  <2>3. Fits(Byte(mem, 0), 256)
    BY <2>2, ByteFits
  <2>. QED BY <2>1, <2>3 DEF AllBanks, None, Fits
<1>5. Verdict = "testing" /\ Verdict' = IF at = "mon_start" THEN "ready"
                                                             ELSE "failed"
  BY <1>1, <1>2 DEF Verdict
<1>6. Sound' = Sound
  BY BoardStays
<1>. QED BY <1>1, <1>3, <1>4, <1>5, <1>6 DEF Post!Conclude

LEMMA NextTest ==
  ASSUME PostInv, [Next]_postVars
  PROVE  [Post!TestNext]_TestVars
<1>1. CASE UNCHANGED postVars
  <2>1. UNCHANGED <<board, tables, working, high>> /\ cpu' = cpu /\ at' = at
        /\ report' = report
    BY <1>1 DEF postVars
  <2>2. Sound' = Sound
    BY <2>1, BoardStays
  <2>3. Verdict' = Verdict
    BY <2>1 DEF Verdict
  <2>. QED BY <2>1, <2>2, <2>3 DEF TestVars, AllBanks
<1>2. CASE Next
  <2>1. UNCHANGED <<board, tables, working, high>>
    BY <1>2 DEF Next
  <2>2. CASE PrintRam
    BY <2>1, <2>2, PrintReports DEF Post!TestNext
  <2>3. CASE Stop
    BY <2>1, <2>3, StopConcludes DEF Post!TestNext
  <2>4. CASE ~Stop /\ ~PrintRam
    BY <1>2, <2>1, <2>4, RunsOn, SilentStutters
  <2>. QED BY <2>2, <2>3, <2>4
<1>. QED BY <1>1, <1>2

LEMMA InitTest == Init => Post!TestInit
<1>. SUFFICES ASSUME Init PROVE Post!TestInit
  OBVIOUS
<1>1. PostInv /\ at = "reset" /\ report = None
  BY InitInv DEF Init
<1>2. ~cpu.RES
  BY <1>1 DEF PostInv, Good, Runs, Raised
<1>. QED BY <1>1, <1>2 DEF Post!TestInit, Verdict

-----------------------------------------------------------------------------
(* The theorems.                                                           *)

LEMMA Testing == Spec => []PostInv
BY InitInv, NextInv, PTL DEF Spec

\* Registers hold values of their width, memory holds bytes, and the stack
\* never leaves the offsets followed.
THEOREM PostTypeCorrect == Spec => []PostTypeOK
<1>1. PostInv => PostTypeOK
  <2>. SUFFICES ASSUME PostInv PROVE PostTypeOK
    OBVIOUS
  <2>1. at \in Labels /\ cpu \in Cpus /\ MemoryOK(mem)
    BY DEF PostInv, Good, Placed, Runs, Keeps
  <2>2. at \notin {"reset", "low1", "low2", "stack", "post_fail"} =>
          cpu.sp \in {1021, 1023}
    BY <2>1 DEF PostInv, Good, Balanced, Labels, Outside, InHiram, InRomTest
  <2>3. \A cell \in DOMAIN mem : mem[cell] \in UInt8
    BY <2>1, FitsBytes DEF MemoryOK
  <2>. QED BY <2>1, <2>2, <2>3, StackBounds DEF PostTypeOK, Cpus
<1>. QED BY Testing, <1>1, PTL

\* Every routine of the self-test leaves the stack empty and the data bank 0,
\* hiram_test by way of the zero that the second UART's test left in Y.
THEOREM AlwaysBalanced == Spec => []BalancedInBankZero
<1>1. PostInv => BalancedInBankZero
  BY DEF PostInv, Good, Balanced, BalancedInBankZero, k_base
<1>. QED BY Testing, <1>1, PTL

\* Whatever the board, the two bytes of the zero page do not disturb each
\* other: the count is of the banks there are, the flags of the tables.
THEOREM BytesKeepApart == Spec => []ZeroPageKept
<1>1. PostInv => ZeroPageKept
  <2>. SUFFICES ASSUME PostInv, at \in RamKnown PROVE
         /\ ZeroPageByte(banks) = high
         /\ Bits(ZeroPageByte(flags)) = {Tested[t].flag : t \in Found}
    BY DEF ZeroPageKept, RamKnown, ReportKnown, InRomTest
  <2>1. /\ board \in BOARDS /\ IsRam(0)
        /\ Byte(mem, 0) = high /\ Bits(Byte(mem, 1)) = FlagsAt(at)
    BY DEF PostInv, Good, Placed, Passed, Keeps, RamKnown, ReportKnown,
       InRomTest, Outside
  <2>2. Fits(0, 32) /\ Fits(1, 32)
    BY DEF Fits
  <2>3. ZeroPageByte(banks) = Byte(mem, 0) /\ ZeroPageByte(flags) = Byte(mem, 1)
    BY <2>1, <2>2, ReadZeroPage DEF ZeroPageByte, banks, flags
  <2>4. FlagsAt(at) = {Tested[t].flag : t \in Found}
    BY TestedIs DEF FlagsAt, Found
  <2>. QED BY <2>1, <2>3, <2>4
<1>. QED BY Testing, <1>1, PTL

\* On every board the self-test tells its user of all of the high RAM before
\* it concludes, tells nothing else, and finds sound exactly the boards that
\* are; that it concludes is the part of SelfTestSpec that stays with TLC.
THEOREM ImplementsSelfTest ==
  Spec => Post!TestInit /\ [][Post!TestNext]_TestVars
<1>1. Spec => Init /\ [][Next]_postVars
  BY PTL DEF Spec
<1>. QED BY Testing, <1>1, InitTest, NextTest, PTL

=============================================================================
