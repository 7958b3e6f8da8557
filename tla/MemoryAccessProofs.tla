------------------------- MODULE MemoryAccessProofs -------------------------
(***************************************************************************)
(* For every board, program, content of memory and number of steps that    *)
(* meet the assumptions of MemoryAccess: a device is left only over the    *)
(* end of one that does not fill its banks, and then by two bytes at most, *)
(* and every step within one device is the one of FlatMachine.             *)
(*                                                                         *)
(* The inductive invariant, Sound, adds to the type of the registers and   *)
(* of memory that the traced instruction is followed as things stand, and  *)
(* where the cells touched are.  The lemmas go from numbers to addresses   *)
(* (an address is 65536 * bank + offset), from addresses to cells (where   *)
(* the bytes of any access are, and that those of a whole one are at the   *)
(* next addresses), from cells to effective addresses (always addresses,   *)
(* and if the pointer is whole EA of FlatMachine, mode by mode), and then  *)
(* through each operation to the step of FlatMachine that it is.  A block  *)
(* move is followed byte by byte, by induction over the bytes moved.       *)
(***************************************************************************)
EXTENDS MemoryAccess, AluLemmas

-----------------------------------------------------------------------------
(* Addresses and numbers.                                                  *)

LEMMA UInt8Bounds == \A i : i \in UInt8 <=> i \in Int /\ 0 <= i /\ i <= 255
BY DEF UInt8, UINT8_MAX

\* A 24-bit number.
Long24(b) == b \in Int /\ 0 <= b /\ b < 16777216

LEMMA AddressesAre == Addresses = [bank : UInt8, offset : UInt16]
BY DEF Addresses, UInt8, UInt16, UINT8_MAX, UINT16_MAX, BANKS, BANK_SIZE

LEMMA NumberOf ==
  ASSUME NEW h, NEW o, h \in UInt8, o \in UInt16
  PROVE  h * 65536 + o = 65536 * h + o /\ Long24(65536 * h + o)
BY UInt8Bounds, UInt16Bounds DEF Long24

LEMMA AddressParts ==
  ASSUME NEW h, NEW o, h \in UInt8, o \in UInt16
  PROVE  /\ Address(h, o) \in Addresses
         /\ Address(h, o).bank = h /\ Address(h, o).offset = o
         /\ Absolute(Address(h, o)) = 65536 * h + o
         /\ Long24(Absolute(Address(h, o)))
<1>1. Address(h, o) \in Addresses
  BY AddressesAre DEF Address
<1>2. Address(h, o).bank = h /\ Address(h, o).offset = o
  BY DEF Address
<1>3. Absolute(Address(h, o)) = h * 65536 + o
  BY <1>2 DEF Absolute, BANK_SIZE
<1>. QED BY <1>1, <1>2, <1>3, NumberOf

LEMMA AddressIs ==
  ASSUME NEW a \in Addresses
  PROVE  /\ a.bank \in UInt8 /\ a.offset \in UInt16
         /\ a = Address(a.bank, a.offset)
         /\ Absolute(a) = 65536 * a.bank + a.offset
         /\ Long24(Absolute(a))
<1>1. /\ a.bank \in UInt8 /\ a.offset \in UInt16
      /\ a = Address(a.bank, a.offset)
  BY AddressesAre DEF Address
<1>. QED BY <1>1, AddressParts

LEMMA NumberParts ==
  ASSUME NEW b, Long24(b)
  PROVE  /\ b \div 65536 \in UInt8 /\ b % 65536 \in UInt16
         /\ b = 65536 * (b \div 65536) + (b % 65536)
BY UInt8Bounds, UInt16Bounds DEF Long24

LEMMA LongIs ==
  ASSUME NEW b, Long24(b)
  PROVE  LongAddress(b) \in Addresses /\ Absolute(LongAddress(b)) = b
BY NumberParts, AddressParts DEF LongAddress, BANK_SIZE

LEMMA PartsOf ==
  ASSUME NEW h, NEW o, h \in UInt8, o \in UInt16
  PROVE  /\ (65536 * h + o) \div 65536 = h
         /\ (65536 * h + o) % 65536 = o
BY UInt8Bounds, UInt16Bounds

LEMMA AbsoluteIs ==
  ASSUME NEW a \in Addresses
  PROVE  LongAddress(Absolute(a)) = a
BY AddressIs, PartsOf DEF LongAddress, BANK_SIZE

\* An offset n further on, in the same bank.
LEMMA Further ==
  ASSUME NEW a \in Addresses, NEW n \in Nat, a.offset + n < 65536
  PROVE  /\ IncrementOffset(a, n) \in Addresses
         /\ Absolute(IncrementOffset(a, n)) = Absolute(a) + n
<1>1. a.bank \in UInt8 /\ a.offset \in UInt16
  BY AddressIs
<1>2. (a.offset + n) % 65536 = a.offset + n /\ a.offset + n \in UInt16
  BY <1>1, UInt16Bounds
<1>3. IncrementOffset(a, n) = Address(a.bank, a.offset + n)
  BY <1>2 DEF IncrementOffset, BANK_SIZE
<1>4. Absolute(Address(a.bank, a.offset + n)) = 65536 * a.bank + (a.offset + n)
  BY <1>1, <1>2, AddressParts
<1>5. Absolute(a) = 65536 * a.bank + a.offset
  BY AddressIs
<1>6. Address(a.bank, a.offset + n) \in Addresses
  BY <1>1, <1>2, AddressParts
<1>. QED BY <1>1, <1>3, <1>4, <1>5, <1>6, UInt8Bounds, UInt16Bounds

-----------------------------------------------------------------------------
(* The device that answers, and the cell.                                  *)

LEMMA BoardIs ==
  /\ DOMAIN BOARD = 1..Len(BOARD) /\ Len(BOARD) \in Nat
  /\ \A d \in DOMAIN BOARD : /\ BOARD[d].base \in Nat /\ BOARD[d].size \in Nat
                            /\ BOARD[d].kind \in {"rom", "uart", "ram"}
<1> DEFINE Devices == [kind : {"rom", "uart", "ram"}, base : Nat, size : Nat]
<1>1. BOARD \in Seq(Devices)
  BY BoardAssumption
<1>2. \A v \in Devices : /\ v.base \in Nat /\ v.size \in Nat
                         /\ v.kind \in {"rom", "uart", "ram"}
  OBVIOUS
<1>. HIDE DEF Devices
<1>3. /\ DOMAIN BOARD = 1..Len(BOARD) /\ Len(BOARD) \in Nat
      /\ \A d \in 1..Len(BOARD) : BOARD[d] \in Devices
  BY <1>1
<1>. QED BY <1>2, <1>3

LEMMA ServingIs ==
  ASSUME NEW a
  PROVE  /\ Serving(BOARD, a) \in Nat
         /\ Serving(BOARD, a) # 0 => /\ Serving(BOARD, a) \in DOMAIN BOARD
                                    /\ Decodes(BOARD[Serving(BOARD, a)], a)
         /\ Serving(BOARD, a) = 0 =>
              \A d \in DOMAIN BOARD : ~Decodes(BOARD[d], a)
<1> DEFINE those == {i \in DOMAIN BOARD : Decodes(BOARD[i], a)}
           first == CHOOSE i \in those : \A j \in those : i <= j
<1>1. Serving(BOARD, a) = IF those = {} THEN 0 ELSE first
  BY DEF Serving
<1>2. those \subseteq DOMAIN BOARD /\ those \subseteq Nat /\ 0 \notin those
  BY BoardIs
<1>3. CASE those = {}
  BY <1>1, <1>3
<1>4. CASE those # {}
  <2>1. first \in those
    <3>. HIDE DEF those
    <3>1. \E i \in those : \A j \in those : i <= j
      BY <1>2, <1>4, Least
    <3>. QED BY <3>1
  <2>. HIDE DEF first
  <2>. QED BY <1>1, <1>2, <1>4, <2>1
<1>. QED BY <1>3, <1>4

\* Offsets from the base of a device, taken apart and put together again.
LEMMA Rebuilt ==
  ASSUME NEW x, Long24(x), NEW k \in Nat, (x % 65536) + k < 65536
  PROVE  Absolute(IncrementOffset(
           Address((x \div 65536) % 256, x % 65536), k)) = x + k
<1> DEFINE h == (x \div 65536) % 256
           o == x % 65536
<1>1. h = x \div 65536 /\ h \in UInt8 /\ o \in UInt16 /\ x = 65536 * h + o
  <2>1. /\ x \div 65536 \in UInt8 /\ o \in UInt16
        /\ x = 65536 * (x \div 65536) + o
    BY NumberParts
  <2>2. \A i : i \in UInt8 => i % 256 = i
    BY UInt8Bounds
  <2>. QED BY <2>1, <2>2
<1>. HIDE DEF h, o
<1>2. /\ Address(h, o) \in Addresses /\ Address(h, o).offset = o
      /\ Absolute(Address(h, o)) = x
  BY <1>1, AddressParts
<1>3. o + k < 65536
  BY DEF o
<1>4. Absolute(IncrementOffset(Address(h, o), k)) = x + k
  BY <1>2, <1>3, Further
<1>. QED BY <1>4 DEF h, o

\* The k-th byte of an access that stays in one device and one bank is the
\* byte at the k-th address.
LEMMA CellIs ==
  ASSUME NEW a \in Addresses, NEW k \in Nat, a.offset + k < 65536,
         NEW d, d = Serving(BOARD, a), d # 0,
         Serving(BOARD, IncrementOffset(a, k)) = d
  PROVE  /\ Cell(BOARD, a, k) =
              [device |-> d, index |-> (Absolute(a) + k) - BOARD[d].base]
         /\ d \in DOMAIN BOARD
         /\ 0 <= (Absolute(a) + k) - BOARD[d].base
         /\ (Absolute(a) + k) - BOARD[d].base < BOARD[d].size
<1> DEFINE base == BOARD[d].base
           size == BOARD[d].size
           x == Absolute(a) - base
<1>1. d \in DOMAIN BOARD
  BY ServingIs
<1>2. base \in Nat /\ size \in Nat
  BY <1>1, BoardIs
<1>3. Long24(Absolute(a)) /\ Absolute(a) = 65536 * a.bank + a.offset
      /\ a.bank \in UInt8 /\ a.offset \in UInt16
  BY AddressIs
<1>4. Absolute(IncrementOffset(a, k)) = Absolute(a) + k
  BY Further
<1>5. Absolute(a) >= base /\ (Absolute(a) + k) - base < size
  <2>1. Decodes(BOARD[d], a) /\ Decodes(BOARD[d], IncrementOffset(a, k))
    BY ServingIs
  <2>2. Absolute(a) >= base
    BY <2>1 DEF Decodes
  <2>3. Absolute(IncrementOffset(a, k)) - base < size
    BY <2>1 DEF Decodes
  <2>4. Absolute(a) \in Int
    BY <1>3 DEF Long24
  <2>. QED BY <1>2, <1>4, <2>2, <2>3, <2>4
<1>6. Long24(x)
  <2>1. \A v, b : Long24(v) /\ b \in Nat /\ v >= b => Long24(v - b)
    BY DEF Long24
  <2>. QED BY <1>2, <1>3, <1>5, <2>1
<1>7. (x % 65536) + k < 65536
  <2>1. CASE base % 65536 = 0
    <3> DEFINE q == base \div 65536
    <3>1. q \in Int /\ base = 65536 * q
      BY <1>2, <2>1
    <3>. HIDE DEF q
    <3>2. x = 65536 * (a.bank - q) + a.offset
      BY <1>2, <1>3, <3>1, UInt8Bounds, UInt16Bounds
    <3>3. a.bank - q \in Int
      BY <1>3, <3>1, UInt8Bounds
    <3>4. \A m \in Int, o \in UInt16 : (65536 * m + o) % 65536 = o
      BY UInt16Bounds
    <3>. QED BY <1>3, <3>2, <3>3, <3>4
  <2>2. CASE (base % 65536) + size <= 65536
    <3>1. x \in Nat /\ x + k < 65536
      BY <1>2, <1>3, <1>5, <2>2, UInt8Bounds, UInt16Bounds DEF Long24
    <3>. HIDE DEF x
    <3>. QED BY <3>1
  <2>. QED BY <1>1, <2>1, <2>2, BoardAssumption DEF BANK_SIZE
<1>8. Cell(BOARD, a, k) =
        [device |-> d, index |-> Absolute(IncrementOffset(
           Address((x \div 65536) % 256, x % 65536), k))]
  BY DEF Cell, Decoded, BANKS, BANK_SIZE
<1>9. x + k = (Absolute(a) + k) - base
  BY <1>2, <1>3 DEF Long24
<1>10. Absolute(IncrementOffset(
         Address((x \div 65536) % 256, x % 65536), k)) = x + k
  <2>. HIDE DEF x
  <2>. QED BY <1>6, <1>7, Rebuilt
<1>. QED BY <1>1, <1>2, <1>3, <1>5, <1>8, <1>9, <1>10 DEF Long24

LEMMA NoCell ==
  ASSUME NEW a, NEW k, Serving(BOARD, a) = 0
  PROVE  Cell(BOARD, a, k) = [device |-> 0, index |-> 0]
BY DEF Cell

LEMMA NoFurther ==
  ASSUME NEW a \in Addresses
  PROVE  IncrementOffset(a, 0) = a
<1>1. a.offset \in UInt16 /\ a = Address(a.bank, a.offset)
  BY AddressIs
<1>2. (a.offset + 0) % 65536 = a.offset
  BY <1>1, UInt16Bounds
<1>. QED BY <1>1, <1>2 DEF IncrementOffset, BANK_SIZE

\* The cell of a byte by its address.
LEMMA ByteCell ==
  ASSUME NEW a \in Addresses, NEW d, d = Serving(BOARD, a), d # 0
  PROVE  /\ Cell(BOARD, a, 0) =
              [device |-> d, index |-> Absolute(a) - BOARD[d].base]
         /\ d \in DOMAIN BOARD
         /\ Absolute(a) - BOARD[d].base < BOARD[d].size
<1>1. a.offset + 0 < 65536
  BY AddressIs, UInt16Bounds
<1>2. Serving(BOARD, IncrementOffset(a, 0)) = d
  BY NoFurther
<1>3. /\ Cell(BOARD, a, 0) =
           [device |-> d, index |-> (Absolute(a) + 0) - BOARD[d].base]
      /\ d \in DOMAIN BOARD
      /\ (Absolute(a) + 0) - BOARD[d].base < BOARD[d].size
  BY <1>1, <1>2, CellIs
<1>4. Absolute(a) + 0 = Absolute(a)
  <2>1. Absolute(a) \in Int
    BY AddressIs DEF Long24
  <2>. QED BY <2>1
<1>. QED BY <1>3, <1>4, Zenon

\* Different addresses reach different bytes.
LEMMA CellsDiffer ==
  ASSUME NEW a \in Addresses, NEW b \in Addresses,
         Cell(BOARD, a, 0) = Cell(BOARD, b, 0), Cell(BOARD, a, 0).device # 0
  PROVE  a = b
<1> DEFINE d == Serving(BOARD, a)
           e == Serving(BOARD, b)
<1>1. d # 0 /\ e # 0
  BY NoCell
<1>2. d = Cell(BOARD, a, 0).device /\ e = Cell(BOARD, b, 0).device
  BY <1>1, ByteCell
<1>3. d = e
  BY <1>2
<1>4. /\ Cell(BOARD, a, 0).index = Absolute(a) - BOARD[d].base
      /\ Cell(BOARD, b, 0).index = Absolute(b) - BOARD[d].base
      /\ d \in DOMAIN BOARD
  BY <1>1, <1>3, ByteCell
<1>5. BOARD[d].base \in Int /\ Absolute(a) \in Int /\ Absolute(b) \in Int
  BY <1>4, BoardIs, AddressIs DEF Long24
<1>6. Absolute(a) = Absolute(b)
  BY <1>4, <1>5
<1>. QED BY <1>6, AbsoluteIs

\* The bytes of a whole access: each is the byte at its own address.
LEMMA WholeCell ==
  ASSUME NEW a \in Addresses, NEW n \in Nat, Whole(a, n), NEW k \in 0..n-1,
         NEW b, b = IncrementOffset(a, k)
  PROVE  /\ b \in Addresses /\ Absolute(b) = Absolute(a) + k
         /\ Cell(BOARD, a, k) = Cell(BOARD, b, 0)
         /\ Serving(BOARD, b) = Serving(BOARD, a)
         /\ Inside(BOARD, Cell(BOARD, a, k))
<1>1. a.offset + k < 65536 /\ k \in Nat
  BY DEF Whole, BANK_SIZE
<1>2. Serving(BOARD, b) = Serving(BOARD, a)
  BY DEF Whole
<1>3. b \in Addresses /\ Absolute(b) = Absolute(a) + k
  BY <1>1, Further
<1>4. CASE Serving(BOARD, a) = 0
  <2>1. /\ Cell(BOARD, a, k) = [device |-> 0, index |-> 0]
        /\ Cell(BOARD, b, 0) = [device |-> 0, index |-> 0]
    BY <1>2, <1>4, NoCell
  <2>. QED BY <1>2, <1>3, <2>1 DEF Inside
<1>5. CASE Serving(BOARD, a) # 0
  <2> DEFINE d == Serving(BOARD, a)
  <2>1. /\ Cell(BOARD, a, k) =
             [device |-> d, index |-> (Absolute(a) + k) - BOARD[d].base]
        /\ (Absolute(a) + k) - BOARD[d].base < BOARD[d].size
    BY <1>1, <1>2, <1>5, CellIs
  <2>2. Cell(BOARD, b, 0) =
             [device |-> d, index |-> Absolute(b) - BOARD[d].base]
    BY <1>2, <1>3, <1>5, ByteCell
  <2>. QED BY <1>2, <1>3, <2>1, <2>2 DEF Inside
<1>. QED BY <1>4, <1>5

\* Where a byte of any access is: the k-th byte after one that the device
\* decodes is not further beyond the end than k bytes, and not at all if the
\* device is one of whole banks.
Within(cell) ==
  Inside(BOARD, cell) \/
    /\ Kind(cell) # "ram"
    /\ BOARD[cell.device].size % BANK_SIZE # 0
    /\ cell.index < BOARD[cell.device].size + 2

LEMMA WrappedIs ==
  ASSUME NEW x, Long24(x), NEW k \in Nat, k <= 2,
         (x % 65536) + k >= 65536
  PROVE  Absolute(IncrementOffset(
           Address((x \div 65536) % 256, x % 65536), k)) = (x + k) - 65536
<1> DEFINE h == (x \div 65536) % 256
           o == x % 65536
           p == (o + k) % 65536
<1>1. h = x \div 65536 /\ h \in UInt8 /\ o \in UInt16 /\ x = 65536 * h + o
  <2>1. /\ x \div 65536 \in UInt8 /\ o \in UInt16
        /\ x = 65536 * (x \div 65536) + o
    BY NumberParts
  <2>2. \A i : i \in UInt8 => i % 256 = i
    BY UInt8Bounds
  <2>. QED BY <2>1, <2>2
<1>. HIDE DEF h
<1>2. p = (o + k) - 65536 /\ p \in UInt16
  <2>1. o \in Int /\ 0 <= o /\ o <= 65535 /\ o + k >= 65536
    BY <1>1, UInt16Bounds
  <2>. HIDE DEF o
  <2>2. p = (o + k) - 65536 /\ 0 <= p /\ p <= 65535
    BY <2>1
  <2>. HIDE DEF p
  <2>. QED BY <2>1, <2>2, UInt16Bounds
<1>. HIDE DEF o
<1>3. IncrementOffset(Address(h, o), k) = Address(h, p)
  BY DEF IncrementOffset, Address, BANK_SIZE
<1>. HIDE DEF p
<1>4. Absolute(Address(h, p)) = 65536 * h + p
  BY <1>1, <1>2, AddressParts
<1>5. 65536 * h + p = (x + k) - 65536
  BY <1>1, <1>2, UInt8Bounds, UInt16Bounds
<1>. QED BY <1>3, <1>4, <1>5 DEF h, o

LEMMA CellWithin ==
  ASSUME NEW a \in Addresses, NEW k \in 0..2,
         NEW cell, cell = Cell(BOARD, a, k)
  PROVE  Within(cell)
<1> DEFINE d == Serving(BOARD, a)
           base == BOARD[d].base
           size == BOARD[d].size
           x == Absolute(a) - base
           index == Absolute(IncrementOffset(
                      Address((x \div 65536) % 256, x % 65536), k))
<1>1. CASE d = 0
  <2>1. cell = [device |-> 0, index |-> 0]
    BY <1>1, NoCell
  <2>. QED BY <2>1 DEF Within, Inside
<1>2. CASE d # 0
  <2>1. d \in DOMAIN BOARD /\ base \in Nat /\ size \in Nat
    BY <1>2, ServingIs, BoardIs
  <2>2. Long24(Absolute(a)) /\ Absolute(a) \in Int
    BY AddressIs DEF Long24
  <2>3. Absolute(a) >= base /\ Absolute(a) - base < size
    <3>1. Decodes(BOARD[d], a)
      BY <1>2, ServingIs
    <3>. QED BY <3>1 DEF Decodes
  <2>4. Long24(x) /\ x < size
    <3>1. \A v, b : Long24(v) /\ b \in Nat /\ v >= b => Long24(v - b)
      BY DEF Long24
    <3>. QED BY <2>1, <2>2, <2>3, <3>1
  <2>5. cell = [device |-> d, index |-> index]
    BY <1>2 DEF Cell, Decoded, BANKS, BANK_SIZE
  <2>6. Kind(cell) = "ram" => size % 65536 = 0
    BY <1>2, <2>1, <2>5, BoardAssumption DEF Kind, BANK_SIZE
  <2>. HIDE DEF x
  <2>7. CASE (x % 65536) + k < 65536
    <3>1. index = x + k
      BY <2>4, <2>7, Rebuilt
    <3>2. size % 65536 = 0 => x + k < size
      BY <2>1, <2>4, <2>7 DEF Long24
    <3>3. x + k < size + 2
      BY <2>1, <2>4 DEF Long24
    <3>. HIDE DEF index, size, d
    <3>. QED BY <2>5, <2>6, <3>1, <3>2, <3>3
             DEF Within, Inside, BANK_SIZE, size
  <2>8. CASE (x % 65536) + k >= 65536
    <3>1. index = (x + k) - 65536
      <4>1. k \in Nat /\ k <= 2
        OBVIOUS
      <4>2. Long24(x)
        BY <2>4
      <4>. QED BY <4>1, <4>2, <2>8, WrappedIs, SMTT(30)
    <3>2. x \in Int /\ x < size /\ size \in Int
      <4>1. x \in Int
        BY <2>4 DEF Long24
      <4>. HIDE DEF size
      <4>. QED BY <2>1, <2>4, <4>1
    <3>3. (x + k) - 65536 < size
      <4>. HIDE DEF size
      <4>. QED BY <3>2
    <3>. HIDE DEF index, size, d
    <3>. QED BY <2>5, <3>1, <3>3 DEF Within, Inside, size
  <2>9. x % 65536 \in Int
    BY <2>4 DEF Long24
  <2>. QED BY <2>7, <2>8, <2>9
<1>. QED BY <1>1, <1>2

-----------------------------------------------------------------------------
(* Memory as the program sees it.                                          *)

\* The byte behind an address has one.
LEMMA AddressedVisible ==
  ASSUME NEW a \in Addresses, NEW cell, cell = Cell(BOARD, a, 0),
         cell.device # 0
  PROVE  Visible(cell)
<1> DEFINE d == Serving(BOARD, a)
<1>1. d # 0
  BY NoCell
<1>2. cell = [device |-> d, index |-> Absolute(a) - BOARD[d].base]
      /\ d \in DOMAIN BOARD
  BY <1>1, ByteCell
<1>3. BOARD[d].base \in Int /\ Absolute(a) \in Int
  BY <1>2, BoardIs, AddressIs DEF Long24
<1>. HIDE DEF d
<1>4. BOARD[cell.device].base + cell.index = Absolute(a)
  BY <1>2, <1>3
<1>. QED BY <1>4, AbsoluteIs DEF Visible

\* The byte at the 24-bit address b.
ByteAt(m, b) == IF b \in WATCHED THEN Content(m, CellOf[b]) ELSE 0

LEMMA WatchedIs ==
  ASSUME NEW b \in WATCHED
  PROVE  /\ Long24(b) /\ LongAddress(b) \in Addresses
         /\ Absolute(LongAddress(b)) = b
         /\ CellOf[b] = Cell(BOARD, LongAddress(b), 0)
<1>1. b \in 0 .. BANKS * BANK_SIZE - 1
  BY MemoryAccessAssumption
<1>2. Long24(b)
  <2>1. BANKS * BANK_SIZE = 16777216
    BY DEF BANKS, BANK_SIZE
  <2>2. \A t \in Int : b \in 0 .. t - 1 => b \in Int /\ 0 <= b /\ b < t
    OBVIOUS
  <2>. QED BY <1>1, <2>1, <2>2 DEF Long24
<1>3. CellOf[b] = Cell(BOARD, LongAddress(b), 0)
  BY DEF CellOf, LongAddress
<1>. QED BY <1>2, <1>3, LongIs

LEMMA ContentFits ==
  ASSUME NEW m, Memory(m), NEW cell
  PROVE  Content(m, cell) \in UInt8
BY UInt8Bounds DEF Memory, Content

LEMMA ByteSeen ==
  ASSUME NEW m, Memory(m), NEW a \in Addresses
  PROVE  Content(m, Cell(BOARD, a, 0)) = ByteAt(m, Absolute(a))
<1>1. CASE Absolute(a) \in WATCHED
  <2>1. CellOf[Absolute(a)] = Cell(BOARD, a, 0)
    BY <1>1, WatchedIs, AbsoluteIs
  <2>. QED BY <1>1, <2>1 DEF ByteAt
<1>2. CASE Absolute(a) \notin WATCHED
  <2>1. SUFFICES ASSUME Cell(BOARD, a, 0) \in DOMAIN m PROVE FALSE
    BY <1>2 DEF ByteAt, Content
  <2>2. Cell(BOARD, a, 0).device # 0
    BY <2>1 DEF Memory, Kind
  <2>3. PICK b \in WATCHED : CellOf[b] = Cell(BOARD, a, 0)
    BY <2>1, <2>2, AddressedVisible DEF Memory, WatchedCells
  <2>4. LongAddress(b) = a
    BY <2>2, <2>3, WatchedIs, CellsDiffer
  <2>. QED BY <1>2, <2>4, WatchedIs
<1>. QED BY <1>1, <1>2

\* Words and pointers are read low byte first.
WordAt(m, b) == ByteAt(m, b) + 256 * ByteAt(m, b + 1)
LongAt(m, b) == WordAt(m, b) + 65536 * ByteAt(m, b + 2)

LEMMA ByteRead ==
  ASSUME NEW m, Memory(m), NEW a \in Addresses
  PROVE  /\ ReadByte(BOARD, m, a) = ByteAt(m, Absolute(a))
         /\ ReadByte(BOARD, m, a) \in UInt8
BY ByteSeen, ContentFits DEF ReadByte

LEMMA CellRead ==
  ASSUME NEW m, Memory(m), NEW a \in Addresses, NEW n \in Nat, Whole(a, n),
         NEW k \in 0..n-1
  PROVE  /\ Content(m, Cell(BOARD, a, k)) = ByteAt(m, Absolute(a) + k)
         /\ Content(m, Cell(BOARD, a, k)) \in UInt8
<1> DEFINE b == IncrementOffset(a, k)
<1>1. /\ b \in Addresses /\ Absolute(b) = Absolute(a) + k
      /\ Cell(BOARD, a, k) = Cell(BOARD, b, 0)
  BY WholeCell
<1>. HIDE DEF b
<1>2. Content(m, Cell(BOARD, b, 0)) = ByteAt(m, Absolute(b))
  BY <1>1, ByteSeen
<1>3. Content(m, Cell(BOARD, a, k)) \in UInt8
  BY ContentFits
<1>. QED BY <1>1, <1>2, <1>3

LEMMA WholeLess ==
  ASSUME NEW a, NEW n \in Nat, Whole(a, n), NEW l \in 0..n
  PROVE  Whole(a, l)
BY DEF Whole

LEMMA WordRead ==
  ASSUME NEW m, Memory(m), NEW a \in Addresses, Whole(a, 2)
  PROVE  /\ ReadTwoBytes(BOARD, m, a) = WordAt(m, Absolute(a))
         /\ ReadTwoBytes(BOARD, m, a) \in UInt16
<1> DEFINE l == Content(m, Cell(BOARD, a, 0))
           h == Content(m, Cell(BOARD, a, 1))
<1>1. h = ByteAt(m, Absolute(a) + 1) /\ h \in UInt8
  BY CellRead
<1>2. l = ByteAt(m, Absolute(a)) /\ l \in UInt8
  BY ByteSeen, ContentFits
<1>3. ReadTwoBytes(BOARD, m, a) = 256 * h + l
  BY DEF ReadTwoBytes
<1>. HIDE DEF l, h
<1>4. 256 * h + l = l + 256 * h /\ 256 * h + l \in UInt16
  BY <1>1, <1>2, UInt8Bounds, UInt16Bounds
<1>. QED BY <1>1, <1>2, <1>3, <1>4 DEF WordAt

LEMMA LongRead ==
  ASSUME NEW m, Memory(m), NEW a \in Addresses, Whole(a, 3),
         Serving(BOARD, a) # 0, NEW p, p = ReadAddressAt(BOARD, m, a)
  PROVE  /\ p \in Addresses /\ Absolute(p) = LongAt(m, Absolute(a))
<1> DEFINE w == ReadTwoBytes(BOARD, m, a)
           h == Content(m, Cell(BOARD, a, 2))
<1>1. w = WordAt(m, Absolute(a)) /\ w \in UInt16
  BY WordRead, WholeLess
<1>2. h = ByteAt(m, Absolute(a) + 2) /\ h \in UInt8
  BY CellRead
<1>3. p = Address(h, w)
  BY DEF ReadAddressAt
<1>. HIDE DEF w, h
<1>4. p \in Addresses /\ Absolute(p) = 65536 * h + w
  BY <1>1, <1>2, <1>3, AddressParts
<1>5. 65536 * h + w = w + 65536 * h
  BY <1>1, <1>2, UInt8Bounds, UInt16Bounds
<1>. QED BY <1>1, <1>2, <1>4, <1>5 DEF LongAt

-----------------------------------------------------------------------------
(* What a store leaves.                                                    *)

\* m with v at the address b, if a store changes what is there.
Holding(m, b, v) ==
  [c \in WATCHED |-> IF c = b /\ Kind(CellOf[c]) = "ram" THEN v
                     ELSE Content(m, CellOf[c])]
Seen(m) == [c \in WATCHED |-> Content(m, CellOf[c])]

LEMMA ByteStored ==
  ASSUME NEW m, Memory(m), NEW a \in Addresses, NEW v \in UInt8,
         NEW cell, cell = Cell(BOARD, a, 0),
         Kind(cell) = "ram" => cell \in WatchedCells,
         NEW after, after = StoreCell(BOARD, m, cell, v)
  PROVE  /\ Memory(after)
         /\ Seen(after) = Holding(m, Absolute(a), v)
<1>1. cell.device # 0 /\ BOARD[cell.device].kind = "ram"
        <=> Kind(cell) = "ram"
  BY DEF Kind
<1>2. CASE Kind(cell) = "ram"
  <2>1. after = [x \in DOMAIN m \cup {cell} |-> IF x = cell THEN v ELSE m[x]]
    BY <1>1, <1>2 DEF StoreCell
  <2>2. Memory(after)
    BY <1>2, <2>1 DEF Memory
  <2>3. \A x : Content(after, x) = IF x = cell THEN v ELSE Content(m, x)
    BY <2>1 DEF Content
  <2>4. \A c \in WATCHED : CellOf[c] = cell <=>
                             c = Absolute(a) /\ Kind(CellOf[c]) = "ram"
    <3>. SUFFICES ASSUME NEW c \in WATCHED
                  PROVE  CellOf[c] = cell <=>
                           c = Absolute(a) /\ Kind(CellOf[c]) = "ram"
      OBVIOUS
    <3>1. ASSUME CellOf[c] = cell PROVE c = Absolute(a)
      <4>1. LongAddress(c) = a
        BY <1>1, <1>2, <3>1, WatchedIs, CellsDiffer
      <4>. QED BY <4>1, WatchedIs
    <3>2. ASSUME c = Absolute(a) PROVE CellOf[c] = cell
      BY <3>2, WatchedIs, AbsoluteIs
    <3>. QED BY <1>2, <3>1, <3>2
  <2>. QED BY <2>2, <2>3, <2>4 DEF Seen, Holding
<1>3. CASE Kind(cell) # "ram"
  <2>1. after = m
    BY <1>1, <1>3 DEF StoreCell
  <2>2. \A c \in WATCHED : c = Absolute(a) => Kind(CellOf[c]) # "ram"
    BY <1>3, WatchedIs, AbsoluteIs
  <2>. QED BY <2>1, <2>2 DEF Seen, Holding
<1>. QED BY <1>2, <1>3

\* Wherever the bytes of a store go, a memory stays one.
LEMMA CellKeeps ==
  ASSUME NEW m, Memory(m), NEW v \in UInt8, NEW cell,
         Kind(cell) = "ram" /\ Visible(cell) => cell \in WatchedCells,
         NEW after, after = StoreCell(BOARD, m, cell, v)
  PROVE  Memory(after)
<1>1. cell.device # 0 /\ BOARD[cell.device].kind = "ram"
        <=> Kind(cell) = "ram"
  BY DEF Kind
<1>2. CASE Kind(cell) = "ram"
  <2>1. after = [x \in DOMAIN m \cup {cell} |-> IF x = cell THEN v ELSE m[x]]
    BY <1>1, <1>2 DEF StoreCell
  <2>. QED BY <1>2, <2>1 DEF Memory
<1>3. CASE Kind(cell) # "ram"
  BY <1>1, <1>3 DEF StoreCell
<1>. QED BY <1>2, <1>3

LEMMA StoredKeeps ==
  ASSUME NEW m, Memory(m), NEW a, NEW narrow \in BOOLEAN,
         NEW n, n = IF narrow THEN 1 ELSE 2, Watched(Cells(a, n)),
         NEW v \in UInt16,
         NEW after, after = Stored(BOARD, m, a, narrow, v)
  PROVE  Memory(after)
<1> DEFINE lo == Cell(BOARD, a, 0)
           hi == Cell(BOARD, a, 1)
           mid == StoreCell(BOARD, m, lo, Low(v))
<1>1. Low(v) \in UInt8 /\ High(v) \in UInt8
  BY UInt8Bounds, UInt16Bounds DEF Low, High
<1>2. lo \in Cells(a, n)
  BY DEF Cells
<1>3. Memory(mid)
  <2>. HIDE DEF lo
  <2>. QED BY <1>1, <1>2, CellKeeps DEF Watched
<1>4. CASE narrow
  <2>1. after = mid
    BY <1>4 DEF Stored, StoreByte
  <2>. QED BY <1>3, <2>1
<1>5. CASE ~narrow
  <2>1. hi \in Cells(a, n)
    BY <1>5 DEF Cells
  <2>2. after = StoreCell(BOARD, mid, hi, High(v))
    BY <1>5 DEF Stored, StoreTwoBytes, Low, High
  <2>. HIDE DEF hi, mid
  <2>. QED BY <1>1, <1>3, <2>1, <2>2, CellKeeps DEF Watched
<1>. QED BY <1>4, <1>5

\* m with the word v, or its low byte, at the address b.
Stowed(m, b, v, narrow) ==
  [c \in WATCHED |->
     IF Kind(CellOf[c]) # "ram" THEN Content(m, CellOf[c])
     ELSE IF c = b THEN v % 256
     ELSE IF c = b + 1 /\ ~narrow THEN v \div 256 ELSE Content(m, CellOf[c])]

LEMMA StoredSeen ==
  ASSUME NEW m, Memory(m), NEW a \in Addresses, NEW narrow \in BOOLEAN,
         NEW n, n = IF narrow THEN 1 ELSE 2,
         Whole(a, n), Watched(Cells(a, n)),
         NEW v \in UInt16,
         NEW after, after = Stored(BOARD, m, a, narrow, v)
  PROVE  Seen(after) = Stowed(m, Absolute(a), v, narrow)
<1> DEFINE b == Absolute(a)
           lo == Cell(BOARD, a, 0)
           hi == Cell(BOARD, a, 1)
           mid == StoreCell(BOARD, m, lo, Low(v))
<1>1. Low(v) \in UInt8 /\ High(v) \in UInt8
  BY UInt8Bounds, UInt16Bounds DEF Low, High
<1>2. Kind(lo) = "ram" => lo \in WatchedCells
  <2>1. lo \in Cells(a, n)
    BY DEF Cells
  <2>2. Kind(lo) = "ram" => lo.device # 0
    BY DEF Kind
  <2>. HIDE DEF lo
  <2>3. Kind(lo) = "ram" => Visible(lo)
    BY <2>2, AddressedVisible DEF lo
  <2>. QED BY <2>1, <2>3 DEF Watched
<1>3. b \in Int
  BY AddressIs DEF Long24
<1>4. Memory(mid) /\ Seen(mid) = Holding(m, b, Low(v))
  <2>. HIDE DEF b, lo
  <2>. QED BY <1>1, <1>2, ByteStored DEF b, lo
<1>5. CASE narrow
  <2>1. after = mid
    BY <1>5 DEF Stored, StoreByte
  <2>2. Holding(m, b, Low(v)) = Stowed(m, b, v, narrow)
    BY <1>5 DEF Holding, Stowed, Low
  <2>. HIDE DEF mid, b
  <2>. QED BY <1>4, <2>1, <2>2 DEF b
<1>6. CASE ~narrow
  <2> DEFINE e == IncrementOffset(a, 1)
  <2>1. n = 2 /\ 1 \in 0..n-1
    BY <1>6
  <2>2. e \in Addresses /\ Absolute(e) = b + 1 /\ hi = Cell(BOARD, e, 0)
    BY <2>1, WholeCell
  <2>3. Kind(hi) = "ram" => hi \in WatchedCells
    <3>1. hi \in Cells(a, n)
      BY <2>1 DEF Cells
    <3>2. Kind(hi) = "ram" => hi.device # 0
      BY DEF Kind
    <3>. HIDE DEF hi, e
    <3>3. Kind(hi) = "ram" => Visible(hi)
      BY <2>2, <3>2, AddressedVisible
    <3>. QED BY <3>1, <3>3 DEF Watched
  <2>4. after = StoreCell(BOARD, mid, hi, High(v))
    BY <1>6 DEF Stored, StoreTwoBytes, Low, High
  <2>. HIDE DEF e, b, hi, lo, mid
  <2>5. Seen(after) = Holding(mid, Absolute(e), High(v))
    BY <1>1, <1>4, <2>2, <2>3, <2>4, ByteStored
  <2>6. Holding(mid, b + 1, High(v)) = Stowed(m, b, v, narrow)
    <3>1. \A c \in WATCHED :
            Content(mid, CellOf[c]) =
              IF c = b /\ Kind(CellOf[c]) = "ram" THEN Low(v)
              ELSE Content(m, CellOf[c])
      BY <1>4 DEF Seen, Holding
    <3>2. b # b + 1
      BY <1>3
    <3>. QED BY <1>6, <3>1, <3>2 DEF Holding, Stowed, Low, High
  <2>. QED BY <2>2, <2>5, <2>6 DEF b
<1>. QED BY <1>5, <1>6

-----------------------------------------------------------------------------
(* Sums of addresses.                                                      *)

LEMMA SumIs ==
  ASSUME NEW a \in Addresses, NEW n \in UInt16, NEW s, s = SumNoWrapAround(a, n)
  PROVE  s \in Addresses /\ Absolute(s) = (Absolute(a) + n) % 16777216
<1> DEFINE h == a.bank
           o == a.offset
<1>1. h \in UInt8 /\ o \in UInt16 /\ Absolute(a) = 65536 * h + o
  BY AddressIs
<1>2. CASE o + n >= 65536
  <2>1. s = Address((h + 1) % 256, o + n - 65536)
    BY <1>2 DEF SumNoWrapAround, BANKS, BANK_SIZE
  <2>. HIDE DEF h, o
  <2>2. (h + 1) % 256 \in UInt8 /\ o + n - 65536 \in UInt16
    BY <1>1, <1>2, UInt8Bounds, UInt16Bounds
  <2>3. /\ s \in Addresses
        /\ Absolute(s) = 65536 * ((h + 1) % 256) + (o + n - 65536)
    BY <2>1, <2>2, AddressParts
  <2>4. 65536 * ((h + 1) % 256) + (o + n - 65536)
          = ((65536 * h + o) + n) % 16777216
    BY <1>1, <1>2, UInt8Bounds, UInt16Bounds
  <2>. QED BY <1>1, <2>3, <2>4
<1>3. CASE ~(o + n >= 65536)
  <2>1. s = Address(h, o + n)
    BY <1>3 DEF SumNoWrapAround, BANKS, BANK_SIZE
  <2>. HIDE DEF h, o
  <2>2. o + n \in UInt16
    BY <1>1, <1>3, UInt16Bounds
  <2>3. s \in Addresses /\ Absolute(s) = 65536 * h + (o + n)
    BY <1>1, <2>1, <2>2, AddressParts
  <2>4. 65536 * h + (o + n) = ((65536 * h + o) + n) % 16777216
    BY <1>1, <1>3, <2>2, UInt8Bounds, UInt16Bounds
  <2>. QED BY <1>1, <2>3, <2>4
<1>. QED BY <1>2, <1>3

\* An address in the first bank.
LEMMA ZeroIs ==
  ASSUME NEW v \in Int, NEW a, a = Address(0, Wrap(v))
  PROVE  a \in Addresses /\ a.bank = 0 /\ Absolute(a) = v % 65536
<1>1. 0 \in UInt8 /\ Wrap(v) \in UInt16
  BY UInt8Bounds, UInt16Bounds DEF Wrap
<1>2. /\ a \in Addresses /\ a.bank = 0
      /\ Absolute(a) = 65536 * 0 + Wrap(v)
  BY <1>1, AddressParts
<1>. QED BY <1>1, <1>2, UInt16Bounds DEF Wrap

\* RAM answers in the first bank where nothing else does.
LEMMA ZeroServed ==
  ASSUME NEW a \in Addresses, a.bank = 0
  PROVE  Serving(BOARD, a) # 0
<1>1. PICK d \in DOMAIN BOARD : BOARD[d].base = 0 /\ BOARD[d].size >= 65536
  BY BoardAssumption DEF BANK_SIZE
<1>2. Absolute(a) = a.offset /\ a.offset \in UInt16
  BY AddressIs, UInt16Bounds
<1>3. Decodes(BOARD[d], a)
  <2>1. Absolute(a) \in Int /\ 0 <= Absolute(a) /\ Absolute(a) < 65536
    BY <1>2, UInt16Bounds
  <2>2. BOARD[d].size \in Int
    BY BoardIs
  <2>. QED BY <1>1, <2>1, <2>2 DEF Decodes
<1>. QED BY <1>3, ServingIs

-----------------------------------------------------------------------------
(* The processor and memory as FlatMachine has them.                       *)

LEMMA ProcessorIs ==
  ASSUME NEW c \in Processors
  PROVE  /\ c.A \in UInt16 /\ c.X \in UInt16 /\ c.Y \in UInt16
         /\ c.D \in UInt16 /\ c.sp \in UInt16 /\ c.pc \in UInt16
         /\ c.DB \in UInt8 /\ c.pb \in UInt8
         /\ IndexX(c) \in UInt16 /\ IndexY(c) \in UInt16
<1>1. /\ c.A \in UInt16 /\ c.X \in UInt16 /\ c.Y \in UInt16
      /\ c.D \in UInt16 /\ c.sp \in UInt16 /\ c.pc \in UInt16
      /\ c.DB \in UInt8 /\ c.pb \in UInt8
  BY DEF Processors
<1>2. \A v \in UInt16 : Low(v) \in UInt16
  BY UInt16Bounds DEF Low
<1>. QED BY <1>1, <1>2 DEF IndexX, IndexY

LEMMA FlatIs ==
  /\ FlatRegisters.A = cpu.A /\ FlatRegisters.X = cpu.X
  /\ FlatRegisters.Y = cpu.Y /\ FlatRegisters.D = cpu.D
  /\ FlatRegisters.S = cpu.sp /\ FlatRegisters.DB = cpu.DB
  /\ FlatRegisters.P = cpu.P
  /\ FlatRegisters.PC = cpu.pb * 65536 + cpu.pc
BY DEF FlatRegisters, BANK_SIZE

LEMMA FlatFlags ==
  /\ Flat!NarrowA <=> A8(cpu)
  /\ Flat!NarrowX <=> X8(cpu)
  /\ \A f : Flat!Has(f) <=> f \in cpu.P
BY FlatIs DEF Flat!NarrowA, Flat!NarrowX, Flat!Has, A8, X8, Emulation

LEMMA FlatIndexes == Flat!XI = IndexX(cpu) /\ Flat!YI = IndexY(cpu)
BY FlatIs, FlatFlags DEF Flat!XI, Flat!YI, IndexX, IndexY, Low

LEMMA FlatReads ==
  ASSUME NEW b
  PROVE  /\ Flat!Byte(b) = ByteAt(mem, b)
         /\ Flat!Word2(b) = WordAt(mem, b)
         /\ Flat!Long(b) = LongAt(mem, b)
<1>1. \A c : Flat!Byte(c) = ByteAt(mem, c)
  BY DEF Flat!Byte, FlatBytes, ByteAt
<1>2. \A c : Flat!Word2(c) = WordAt(mem, c)
  BY <1>1 DEF Flat!Word2, WordAt
<1>. QED BY <1>1, <1>2 DEF Flat!Long, LongAt

\* Data in the bank DB, and code in that of the program.
LEMMA DataIs ==
  ASSUME cpu \in Processors, NEW n \in UInt16
  PROVE  /\ Address(cpu.DB, n) \in Addresses
         /\ Absolute(Address(cpu.DB, n)) = Flat!Data(n)
<1>1. cpu.DB \in UInt8
  BY ProcessorIs
<1>2. 65536 * cpu.DB + n = cpu.DB * 65536 + n
  BY <1>1, UInt8Bounds, UInt16Bounds
<1>. QED BY <1>1, <1>2, AddressParts, FlatIs DEF Flat!Data

LEMMA CodeIs ==
  ASSUME cpu \in Processors, NEW n \in UInt16
  PROVE  /\ Address(cpu.pb, n) \in Addresses
         /\ Absolute(Address(cpu.pb, n)) = Flat!Code(n)
<1>1. cpu.pb \in UInt8 /\ cpu.pc \in UInt16
  BY ProcessorIs
<1>2. cpu.pb * 65536 + cpu.pc = 65536 * cpu.pb + cpu.pc
  BY <1>1, UInt8Bounds, UInt16Bounds
<1>3. (65536 * cpu.pb + cpu.pc) \div 65536 = cpu.pb
  BY <1>1, PartsOf
<1>4. n % 65536 = n
  BY UInt16Bounds
<1>5. Flat!Code(n) = cpu.pb * 65536 + n
  BY <1>2, <1>3, <1>4, FlatIs DEF Flat!Code, Flat!InBank
<1>6. 65536 * cpu.pb + n = cpu.pb * 65536 + n
  BY <1>1, UInt8Bounds, UInt16Bounds
<1>. QED BY <1>1, <1>5, <1>6, AddressParts

-----------------------------------------------------------------------------
(* Pointers and effective addresses.                                       *)

Zeroed == {"AbsoluteIndirect", "AbsoluteIndirectLong"}

\* Where FlatMachine finds the pointer.
FlatPointer(mode, n) ==
  CASE mode \in Zeroed -> n
    [] mode = "AbsoluteIndexedIndirectWithX" ->
         Flat!Flat24(Flat!Code(n) + Flat!XI)
    [] mode = "DirectPageIndexedIndirectWithX" -> Flat!Direct(n + Flat!XI)
    [] mode = "StackRelativeIndirectIndexedWithY" ->
         Flat!Bank0(FlatRegisters.S + n)
    [] OTHER -> Flat!Direct(n)

LEMMA DirectIs ==
  ASSUME cpu \in Processors, NEW n \in Int, NEW a, a = DirectPage(cpu, n)
  PROVE  a \in Addresses /\ a.bank = 0 /\ Absolute(a) = Flat!Direct(n)
<1>1. cpu.D + n \in Int
  BY ProcessorIs, UInt16Bounds
<1>2. a = Address(0, Wrap(cpu.D + n))
  BY DEF DirectPage
<1>3. Flat!Direct(n) = (cpu.D + n) % 65536
  BY FlatIs DEF Flat!Direct, Flat!Bank0
<1>. QED BY <1>1, <1>2, <1>3, ZeroIs

LEMMA StackIs ==
  ASSUME cpu \in Processors, NEW n \in UInt16,
         NEW a, a = Address(0, Wrap(cpu.sp + n))
  PROVE  /\ a \in Addresses
         /\ Absolute(a) = Flat!Bank0(FlatRegisters.S + n)
<1>1. cpu.sp + n \in Int
  BY ProcessorIs, UInt16Bounds
<1>2. Flat!Bank0(FlatRegisters.S + n) = (cpu.sp + n) % 65536
  BY FlatIs DEF Flat!Bank0
<1>. QED BY <1>1, <1>2, ZeroIs

LEMMA PointerIs ==
  ASSUME cpu \in Processors, NEW mode \in PointerModes, NEW n \in UInt16,
         NEW p, p = Pointer(cpu, mode, n)
  PROVE  /\ p \in Addresses /\ Absolute(p) = FlatPointer(mode, n)
         /\ mode \in LongPointers => p.bank = 0
<1>1. IndexX(cpu) \in Int /\ n \in Int /\ n + IndexX(cpu) \in Int
  BY ProcessorIs, UInt16Bounds
<1>2. CASE mode \in Zeroed
  <2>1. p = Address(0, n) /\ FlatPointer(mode, n) = n
    BY <1>2 DEF Pointer, FlatPointer, Zeroed
  <2>2. n = Wrap(n) /\ n = n % 65536
    BY UInt16Bounds DEF Wrap
  <2>. QED BY <1>1, <2>1, <2>2, ZeroIs
<1>3. CASE mode = "AbsoluteIndexedIndirectWithX"
  <2> DEFINE a == Address(cpu.pb, n)
  <2>1. p = SumNoWrapAround(a, IndexX(cpu)) /\ mode \notin LongPointers
    BY <1>3 DEF Pointer, LongPointers
  <2>2. a \in Addresses /\ Absolute(a) = Flat!Code(n)
    BY CodeIs
  <2>. HIDE DEF a
  <2>3. p \in Addresses /\ Absolute(p) = (Absolute(a) + IndexX(cpu)) % 16777216
    BY <2>1, <2>2, ProcessorIs, SumIs
  <2>4. FlatPointer(mode, n) = (Flat!Code(n) + IndexX(cpu)) % 16777216
    BY <1>3, FlatIndexes DEF FlatPointer, Zeroed, Flat!Flat24
  <2>. QED BY <2>1, <2>2, <2>3, <2>4
<1>4. CASE mode = "DirectPageIndexedIndirectWithX"
  <2>1. /\ p = DirectPage(cpu, n + IndexX(cpu))
        /\ FlatPointer(mode, n) = Flat!Direct(n + IndexX(cpu))
    BY <1>4, FlatIndexes DEF Pointer, FlatPointer, Zeroed
  <2>. QED BY <1>1, <2>1, DirectIs
<1>5. CASE mode = "StackRelativeIndirectIndexedWithY"
  <2>1. /\ p = Address(0, Wrap(cpu.sp + n)) /\ mode \notin LongPointers
        /\ FlatPointer(mode, n) = Flat!Bank0(FlatRegisters.S + n)
    BY <1>5 DEF Pointer, FlatPointer, Zeroed, LongPointers
  <2>. QED BY <2>1, StackIs
<1>6. CASE /\ mode \notin Zeroed /\ mode # "AbsoluteIndexedIndirectWithX"
           /\ mode # "DirectPageIndexedIndirectWithX"
           /\ mode # "StackRelativeIndirectIndexedWithY"
  <2>1. /\ p = DirectPage(cpu, n)
        /\ FlatPointer(mode, n) = Flat!Direct(n)
    BY <1>6 DEF Pointer, FlatPointer, Zeroed
  <2>. QED BY <1>1, <2>1, DirectIs
<1>. QED BY <1>2, <1>3, <1>4, <1>5, <1>6

\* Where a pointer leads: to the bank it names, that of the program or DB.
InCode == {"AbsoluteIndirect", "AbsoluteIndexedIndirectWithX"}
FlatThrough(mode, n) ==
  IF mode \in LongPointers THEN Flat!Long(FlatPointer(mode, n))
  ELSE IF mode \in InCode THEN Flat!Code(Flat!Word2(FlatPointer(mode, n)))
  ELSE Flat!Data(Flat!Word2(FlatPointer(mode, n)))

LEMMA ThroughIs ==
  ASSUME cpu \in Processors, Memory(mem), NEW mode \in PointerModes,
         NEW n \in UInt16,
         Whole(Pointer(cpu, mode, n), IF mode \in LongPointers THEN 3 ELSE 2),
         NEW f, f = FollowPointer(BOARD, mem, cpu, mode, n)
  PROVE  f \in Addresses /\ Absolute(f) = FlatThrough(mode, n)
<1> DEFINE p == Pointer(cpu, mode, n)
<1>1. /\ p \in Addresses /\ Absolute(p) = FlatPointer(mode, n)
      /\ mode \in LongPointers => p.bank = 0
  BY PointerIs
<1>2. CASE mode \in LongPointers
  <2>1. f = ReadAddressAt(BOARD, mem, p) /\ Whole(p, 3)
    BY <1>2 DEF FollowPointer
  <2>. HIDE DEF p
  <2>2. Serving(BOARD, p) # 0
    BY <1>1, <1>2, ZeroServed
  <2>3. f \in Addresses /\ Absolute(f) = LongAt(mem, Absolute(p))
    BY <1>1, <2>1, <2>2, LongRead
  <2>. QED BY <1>1, <1>2, <2>3, FlatReads DEF FlatThrough
<1>3. CASE mode \notin LongPointers
  <2> DEFINE w == ReadTwoBytes(BOARD, mem, p)
  <2>1. f = Address(PointerBank(cpu, mode), w) /\ Whole(p, 2)
    BY <1>3 DEF FollowPointer
  <2>. HIDE DEF p
  <2>2. w = Flat!Word2(FlatPointer(mode, n)) /\ w \in UInt16
    BY <1>1, <2>1, WordRead, FlatReads
  <2>. HIDE DEF w
  <2>3. CASE mode \in InCode
    <3>1. f = Address(cpu.pb, w) /\ FlatThrough(mode, n) = Flat!Code(w)
      BY <1>3, <2>1, <2>2, <2>3 DEF PointerBank, InCode, FlatThrough
    <3>. QED BY <2>2, <3>1, CodeIs
  <2>4. CASE mode \notin InCode
    <3>1. f = Address(cpu.DB, w) /\ FlatThrough(mode, n) = Flat!Data(w)
      BY <1>3, <2>1, <2>2, <2>4 DEF PointerBank, InCode, FlatThrough
    <3>. QED BY <2>2, <3>1, DataIs
  <2>. QED BY <2>3, <2>4
<1>. QED BY <1>2, <1>3

LongModes == {"AbsoluteLong", "AbsoluteLongIndexedWithX"}
AllModes  == DataModes \cup
  {"DirectPageIndexedWithY", "AbsoluteIndirect", "AbsoluteIndirectLong",
   "AbsoluteIndexedIndirectWithX"}
ThroughY  == {"DirectPageIndirectIndexedWithY",
              "DirectPageIndirectLongIndexedWithY",
              "StackRelativeIndirectIndexedWithY"}
ThroughOnly == PointerModes \ ThroughY

\* With an index, the address may carry into the next bank.
LEMMA IndexedIs ==
  ASSUME cpu \in Processors, NEW b \in Addresses,
         NEW i \in {IndexX(cpu), IndexY(cpu)},
         NEW a, a = SumNoWrapAround(b, i)
  PROVE  a \in Addresses /\ Absolute(a) = Flat!Flat24(Absolute(b) + i)
<1>1. i \in UInt16
  BY ProcessorIs
<1>. QED BY <1>1, SumIs DEF Flat!Flat24

\* The effective address is the sum that FlatMachine forms.
LEMMA TargetIs ==
  ASSUME cpu \in Processors, Memory(mem), NEW mode \in AllModes, NEW n,
         IF mode \in LongModes THEN Long24(n) ELSE n \in UInt16,
         mode \in PointerModes =>
           Whole(Pointer(cpu, mode, n), IF mode \in LongPointers THEN 3 ELSE 2),
         NEW a, a = Target(BOARD, mem, cpu, mode, n)
  PROVE  a \in Addresses /\ Absolute(a) = Flat!EA(mode, n)
<1> DEFINE data == Address(cpu.DB, n)
           long == LongAddress(n)
           through == FollowPointer(BOARD, mem, cpu, mode, n)
<1>1. /\ IndexX(cpu) \in Int /\ IndexX(cpu) \in UInt16 /\ IndexX(cpu) = Flat!XI
      /\ IndexY(cpu) \in Int /\ IndexY(cpu) \in UInt16 /\ IndexY(cpu) = Flat!YI
  BY ProcessorIs, UInt16Bounds, FlatIndexes
<1>2. mode \notin LongModes =>
        data \in Addresses /\ Absolute(data) = Flat!Data(n)
  BY DataIs
<1>3. mode \in LongModes => long \in Addresses /\ Absolute(long) = n
  BY LongIs
<1>4. mode \in PointerModes =>
        through \in Addresses /\ Absolute(through) = FlatThrough(mode, n)
  <2>1. mode \in PointerModes => n \in UInt16
    BY DEF PointerModes, LongPointers, LongModes
  <2>. QED BY <2>1, ThroughIs
<1>5. n \in Int
  BY UInt16Bounds DEF Long24
<1>6. CASE mode = "Absolute"
  <2>1. a = data /\ Flat!EA(mode, n) = Flat!Data(n) /\ mode \notin LongModes
    BY <1>6 DEF Target, Flat!EA, LongModes
  <2>. QED BY <1>2, <2>1
<1>7. CASE mode = "AbsoluteLong"
  <2>1. a = long /\ Flat!EA(mode, n) = n /\ mode \in LongModes
    BY <1>7 DEF Target, Flat!EA, LongModes
  <2>. QED BY <1>3, <2>1
<1>8. CASE mode = "AbsoluteIndexedWithX"
  <2>1. /\ a = SumNoWrapAround(data, IndexX(cpu)) /\ mode \notin LongModes
        /\ Flat!EA(mode, n) = Flat!Flat24(Flat!Data(n) + Flat!XI)
    BY <1>8 DEF Target, Flat!EA, LongModes
  <2>. HIDE DEF data
  <2>. QED BY <1>1, <1>2, <2>1, IndexedIs
<1>9. CASE mode = "AbsoluteIndexedWithY"
  <2>1. /\ a = SumNoWrapAround(data, IndexY(cpu)) /\ mode \notin LongModes
        /\ Flat!EA(mode, n) = Flat!Flat24(Flat!Data(n) + Flat!YI)
    BY <1>9 DEF Target, Flat!EA, LongModes
  <2>. HIDE DEF data
  <2>. QED BY <1>1, <1>2, <2>1, IndexedIs
<1>10. CASE mode = "AbsoluteLongIndexedWithX"
  <2>1. /\ a = SumNoWrapAround(long, IndexX(cpu)) /\ mode \in LongModes
        /\ Flat!EA(mode, n) = Flat!Flat24(n + Flat!XI)
    BY <1>10 DEF Target, Flat!EA, LongModes
  <2>. HIDE DEF long
  <2>. QED BY <1>1, <1>3, <2>1, IndexedIs
<1>11. CASE mode = "DirectPage"
  <2>1. mode \notin LongModes
    BY <1>11 DEF LongModes
  <2>2. CASE Emulation(cpu)
    <3>1. a = Address(0, n) /\ Flat!EA(mode, n) = n
      BY <1>11, <2>2, FlatFlags DEF Target, Flat!EA, Emulation
    <3>2. Wrap(n) = n /\ n % 65536 = n
      BY <2>1, UInt16Bounds DEF Wrap
    <3>. QED BY <1>5, <3>1, <3>2, ZeroIs
  <2>3. CASE ~Emulation(cpu)
    <3>1. a = DirectPage(cpu, n) /\ Flat!EA(mode, n) = Flat!Direct(n)
      BY <1>11, <2>3, FlatFlags DEF Target, Flat!EA, Emulation
    <3>. QED BY <1>5, <3>1, DirectIs
  <2>. QED BY <2>2, <2>3
<1>12. CASE mode = "DirectPageIndexedWithX"
  <2>1. /\ a = DirectPage(cpu, n + IndexX(cpu))
        /\ Flat!EA(mode, n) = Flat!Direct(n + IndexX(cpu))
    BY <1>1, <1>12 DEF Target, Flat!EA
  <2>2. n + IndexX(cpu) \in Int
    BY <1>1, <1>5
  <2>. QED BY <2>1, <2>2, DirectIs
<1>13. CASE mode = "DirectPageIndexedWithY"
  <2>1. /\ a = DirectPage(cpu, n + IndexY(cpu))
        /\ Flat!EA(mode, n) = Flat!Direct(n + IndexY(cpu))
    BY <1>1, <1>13 DEF Target, Flat!EA
  <2>2. n + IndexY(cpu) \in Int
    BY <1>1, <1>5
  <2>. QED BY <2>1, <2>2, DirectIs
<1>14. CASE mode = "StackRelative"
  <2>1. /\ a = Address(0, Wrap(cpu.sp + n)) /\ mode \notin LongModes
        /\ Flat!EA(mode, n) = Flat!Bank0(FlatRegisters.S + n)
    BY <1>14 DEF Target, Flat!EA, LongModes
  <2>. QED BY <2>1, StackIs
<1>15. CASE mode \in ThroughOnly
  <2>1. a = through /\ mode \in PointerModes
    BY <1>15 DEF Target, ThroughOnly, ThroughY, PointerModes, LongPointers
  <2>2. Flat!EA(mode, n) = FlatThrough(mode, n)
    BY <1>15 DEF Flat!EA, FlatThrough, FlatPointer, InCode, Zeroed,
                 ThroughOnly, ThroughY, PointerModes, LongPointers
  <2>. QED BY <1>4, <2>1, <2>2
<1>16. CASE mode \in ThroughY
  <2>1. a = SumNoWrapAround(through, IndexY(cpu)) /\ mode \in PointerModes
    BY <1>16 DEF Target, ThroughY, PointerModes, LongPointers
  <2>2. Flat!EA(mode, n) = Flat!Flat24(FlatThrough(mode, n) + Flat!YI)
    BY <1>16 DEF Flat!EA, FlatThrough, FlatPointer, InCode, Zeroed,
                 ThroughY, LongPointers
  <2>. HIDE DEF through
  <2>. QED BY <1>1, <1>4, <2>1, <2>2, IndexedIs
<1>17. \/ mode \in ThroughOnly \cup ThroughY
       \/ mode \in {"Absolute", "AbsoluteLong", "AbsoluteIndexedWithX",
                    "AbsoluteIndexedWithY", "AbsoluteLongIndexedWithX",
                    "DirectPage", "DirectPageIndexedWithX",
                    "DirectPageIndexedWithY", "StackRelative"}
  BY DEF AllModes, DataModes, ThroughOnly, PointerModes, LongPointers
<1>. QED BY <1>6, <1>7, <1>8, <1>9, <1>10, <1>11, <1>12, <1>13, <1>14, <1>15,
            <1>16, <1>17

\* Whether or not the pointer is whole, what it leads to is an address.
LEMMA ReadsFit ==
  ASSUME NEW m, Memory(m), NEW a \in Addresses
  PROVE  /\ ReadByte(BOARD, m, a) \in UInt8
         /\ ReadTwoBytes(BOARD, m, a) \in UInt16
         /\ ReadAddressAt(BOARD, m, a) \in Addresses
<1> DEFINE byte(k) == Content(m, Cell(BOARD, a, k))
           w == ReadTwoBytes(BOARD, m, a)
<1>1. byte(0) \in UInt8 /\ byte(1) \in UInt8 /\ byte(2) \in UInt8
  BY ContentFits
<1>2. w = 256 * byte(1) + byte(0)
  BY DEF ReadTwoBytes
<1>3. ReadByte(BOARD, m, a) = byte(0)
  BY DEF ReadByte
<1>4. ReadAddressAt(BOARD, m, a) = a
      \/ ReadAddressAt(BOARD, m, a) = Address(byte(2), w)
  BY DEF ReadAddressAt
<1>. HIDE DEF byte
<1>5. w \in UInt16
  BY <1>1, <1>2, UInt8Bounds, UInt16Bounds
<1>. HIDE DEF w
<1>6. Address(byte(2), w) \in Addresses
  BY <1>1, <1>5, AddressParts
<1>. QED BY <1>1, <1>3, <1>4, <1>5, <1>6 DEF w

LEMMA ThroughFits ==
  ASSUME cpu \in Processors, Memory(mem), NEW mode \in PointerModes,
         NEW n \in UInt16, NEW f, f = FollowPointer(BOARD, mem, cpu, mode, n)
  PROVE  f \in Addresses
<1> DEFINE p == Pointer(cpu, mode, n)
           b == PointerBank(cpu, mode)
           w == ReadTwoBytes(BOARD, mem, p)
<1>1. p \in Addresses
  BY PointerIs
<1>2. f = ReadAddressAt(BOARD, mem, p) \/ f = Address(b, w)
  BY DEF FollowPointer
<1>3. b \in UInt8
  BY ProcessorIs DEF PointerBank
<1>. HIDE DEF p, b
<1>4. ReadAddressAt(BOARD, mem, p) \in Addresses /\ w \in UInt16
  BY <1>1, ReadsFit
<1>. HIDE DEF w
<1>. QED BY <1>2, <1>3, <1>4, AddressParts

LEMMA TargetFits ==
  ASSUME cpu \in Processors, Memory(mem), NEW mode \in AllModes, NEW n,
         IF mode \in LongModes THEN Long24(n) ELSE n \in UInt16,
         NEW a, a = Target(BOARD, mem, cpu, mode, n)
  PROVE  a \in Addresses
<1> DEFINE through == FollowPointer(BOARD, mem, cpu, mode, n)
<1>1. CASE mode \notin PointerModes
  BY <1>1, TargetIs
<1>2. CASE mode \in PointerModes
  <2>1. through \in Addresses
    <3>1. n \in UInt16
      BY <1>2 DEF PointerModes, LongPointers, LongModes
    <3>. QED BY <1>2, <3>1, ThroughFits
  <2>2. \/ a = through
        \/ a = SumNoWrapAround(through, IndexY(cpu))
    BY <1>2 DEF Target, PointerModes, LongPointers
  <2>3. IndexY(cpu) \in {IndexX(cpu), IndexY(cpu)}
    OBVIOUS
  <2>. HIDE DEF through
  <2>4. SumNoWrapAround(through, IndexY(cpu)) \in Addresses
    BY <2>1, <2>3, IndexedIs
  <2>. QED BY <2>1, <2>2, <2>4
<1>. QED BY <1>1, <1>2

-----------------------------------------------------------------------------
(* The instructions and what they reach.                                   *)

Branches == {"BNE", "BEQ", "BCC", "BCS", "BPL", "BMI", "BVC", "BVS"}
Movers   == {"MVN", "MVP"}

LEMMA Operations ==
  /\ DOMAIN ModesOf = {"LDA", "LDX", "LDY", "STA", "STX", "STY", "STZ", "INC",
                       "DEC", "JMP"}
  /\ DOMAIN Loads = {"LDA", "LDX", "LDY"}
  /\ DOMAIN BranchFlag = Branches
BY DEF ModesOf, Loads, BranchFlag, Branches

LEMMA ModesKnown ==
  ASSUME NEW op \in DOMAIN ModesOf
  PROVE  /\ ModesOf[op] \subseteq AllModes
         /\ op # "JMP" => ModesOf[op] \subseteq DataModes \cup
                                                 {"DirectPageIndexedWithY"}
BY DEF ModesOf, AllModes, DataModes

LEMMA Lengths ==
  ASSUME NEW mode \in AllModes
  PROVE  /\ Length(mode) = 4 <=> mode \in LongModes
         /\ mode # "ProgramCounterRelative"
BY DEF Length, AllModes, LongModes, DataModes

LEMMA OperandIs ==
  ASSUME NEW i \in PROGRAM, i.op \in DOMAIN ModesOf
  PROVE  /\ i.mode \in ModesOf[i.op] /\ i.mode \in AllModes
         /\ IF i.mode \in LongModes THEN Long24(i.n) ELSE i.n \in UInt16
<1>1. i.mode \in ModesOf[i.op] /\ i.mode \in AllModes
  BY ProgramAssumption, ModesKnown
<1> DEFINE most == CASE Length(i.mode) = 4 -> BANKS * BANK_SIZE - 1
                     [] i.mode = "ProgramCounterRelative" -> UINT8_MAX
                     [] OTHER -> UINT16_MAX
<1>2. i.n \in 0..most
  BY ProgramAssumption
<1>3. most = IF i.mode \in LongModes THEN BANKS * BANK_SIZE - 1 ELSE UINT16_MAX
  BY <1>1, Lengths
<1>. HIDE DEF most
<1>4. CASE i.mode \in LongModes
  <2>1. BANKS * BANK_SIZE = 16777216
    BY DEF BANKS, BANK_SIZE
  <2>2. \A t \in Int : i.n \in 0 .. t - 1 => i.n \in Int /\ 0 <= i.n /\ i.n < t
    OBVIOUS
  <2>. QED BY <1>1, <1>2, <1>3, <1>4, <2>1, <2>2 DEF Long24
<1>5. CASE i.mode \notin LongModes
  BY <1>1, <1>2, <1>3, <1>5 DEF UInt16
<1>. QED BY <1>4, <1>5

\* An instruction that reaches memory, and one whose access is whole.
Accessing(i) == i \in PROGRAM /\ i.op \in DOMAIN ModesOf /\ Followed(i)
Reaching(i)  == Accessing(i) /\ Plain(i)

LEMMA AccessingIs ==
  ASSUME NEW i, Accessing(i)
  PROVE  i.op \notin DOMAIN Loads \cup {"JMP"} =>
           Watched(Cells(AddressOf(i), Width(i)))
BY Operations DEF Accessing, Followed, Branches

LEMMA ReachingIs ==
  ASSUME NEW i, Reaching(i)
  PROVE  /\ Whole(Pointer(cpu, i.mode, i.n), PointerWidth(i))
         /\ i.op # "JMP" => Whole(AddressOf(i), Width(i))
         /\ i.op \notin DOMAIN Loads \cup {"JMP"} =>
              Watched(Cells(AddressOf(i), Width(i)))
BY AccessingIs DEF Reaching, Accessing, Plain

LEMMA Widths ==
  ASSUME NEW i
  PROVE  /\ Width(i) \in Nat /\ PointerWidth(i) \in Nat
         /\ Width(i) \in 0..3 /\ PointerWidth(i) \in 0..3
         /\ TraceWidth(i.mode) \in 0..3
         /\ i.mode \in PointerModes =>
              PointerWidth(i) = IF i.mode \in LongPointers THEN 3 ELSE 2
BY DEF Width, PointerWidth, TraceWidth

LEMMA AddressOfIs ==
  ASSUME cpu \in Processors, Memory(mem), NEW i, Reaching(i),
         NEW a, a = AddressOf(i)
  PROVE  a \in Addresses /\ Absolute(a) = Flat!EA(i.mode, i.n)
<1> DEFINE mode == i.mode
           n == i.n
<1>1. /\ mode \in AllModes
      /\ IF mode \in LongModes THEN Long24(n) ELSE n \in UInt16
  BY OperandIs DEF Reaching, Accessing
<1>2. mode \in PointerModes =>
        Whole(Pointer(cpu, mode, n), IF mode \in LongPointers THEN 3 ELSE 2)
  BY ReachingIs, Widths
<1>3. a = Target(BOARD, mem, cpu, mode, n)
  BY DEF AddressOf
<1>. HIDE DEF mode, n
<1>4. a \in Addresses /\ Absolute(a) = Flat!EA(mode, n)
  BY <1>1, <1>2, <1>3, TargetIs
<1>. QED BY <1>4 DEF mode, n

LEMMA AddressFits ==
  ASSUME cpu \in Processors, Memory(mem), NEW i, Accessing(i)
  PROVE  AddressOf(i) \in Addresses
<1>1. /\ i.mode \in AllModes
      /\ IF i.mode \in LongModes THEN Long24(i.n) ELSE i.n \in UInt16
  BY OperandIs DEF Accessing
<1>. QED BY <1>1, TargetFits DEF AddressOf

-----------------------------------------------------------------------------
(* Where the cells reached are.                                            *)

LEMMA CellsWithin ==
  ASSUME NEW a \in Addresses, NEW n \in 0..3
  PROVE  \A cell \in Cells(a, n) : Within(cell)
<1>1. \A k \in 0..n-1 : k \in 0..2
  OBVIOUS
<1>. QED BY <1>1, CellWithin DEF Cells

LEMMA PointerWithin ==
  ASSUME cpu \in Processors, NEW i, Accessing(i)
  PROVE  \A cell \in PointerCells(i) : Within(cell)
<1>1. CASE i.mode \in PointerModes
  <2>1. i.n \in UInt16
    BY <1>1, OperandIs DEF Accessing, PointerModes, LongPointers, LongModes
  <2> DEFINE p == Pointer(cpu, i.mode, i.n)
  <2>2. p \in Addresses
    BY <1>1, <2>1, PointerIs
  <2>3. PointerCells(i) = Cells(p, PointerWidth(i))
    BY DEF PointerCells
  <2>. HIDE DEF p
  <2>. QED BY <2>2, <2>3, Widths, CellsWithin
<1>2. CASE i.mode \notin PointerModes
  <2>1. PointerCells(i) = {}
    BY <1>2 DEF PointerCells, PointerWidth, Cells
  <2>. QED BY <2>1
<1>. QED BY <1>1, <1>2

LEMMA TracedWithin ==
  ASSUME cpu \in Processors, Memory(mem), NEW i, Accessing(i)
  PROVE  \A cell \in TracedCells(i) : Within(cell)
<1> DEFINE w == TraceWidth(i.mode)
<1>1. AddressOf(i) \in Addresses
  BY AddressFits
<1>2. w \in 0..3
  BY Widths
<1>3. TracedCells(i) \subseteq PointerCells(i) \cup Cells(AddressOf(i), w)
  BY DEF TracedCells
<1>. HIDE DEF w
<1>. QED BY <1>1, <1>2, <1>3, PointerWithin, CellsWithin

LEMMA DataWithin ==
  ASSUME cpu \in Processors, Memory(mem), NEW i, Accessing(i)
  PROVE  \A cell \in DataCells(i) : Within(cell)
<1>1. AddressOf(i) \in Addresses
  BY AddressFits
<1>2. DataCells(i) = PointerCells(i) \cup Cells(AddressOf(i), Width(i))
  BY DEF DataCells
<1>. QED BY <1>1, <1>2, Widths, PointerWithin, CellsWithin

-----------------------------------------------------------------------------
(* Block moves: what each byte finds and leaves.                           *)

LEMMA MoverIs ==
  ASSUME NEW i \in PROGRAM, i.op \in Movers, Followed(i)
  PROVE  /\ MoveTarget(i) \in UInt8 /\ MoveSource(i) \in UInt8
         /\ By(i) \in {1, -1}
         /\ Watched(MoveCells(i))
         /\ TracedCells(i) = {}
<1>1. i.op \notin DOMAIN ModesOf /\ i.op \notin DOMAIN BranchFlag
      /\ i.op \notin {"BRA", "BRL"}
  BY Operations DEF Movers, Branches
<1>2. i.mode = "BlockMove"
  BY <1>1, ProgramAssumption DEF Movers
<1>3. i.n \in UInt16
  BY <1>2, ProgramAssumption DEF Length, UInt16
<1>4. MoveTarget(i) \in UInt8 /\ MoveSource(i) \in UInt8
  BY <1>3, UInt8Bounds, UInt16Bounds DEF MoveTarget, MoveSource
<1>5. TracedCells(i) = {}
  BY <1>2 DEF TracedCells, TraceWidth
<1>. QED BY <1>1, <1>4, <1>5 DEF Followed, By, Movers

\* The addresses of the k-th byte of the move i.
ToAt(i, k)   == MoveTo(cpu, MoveTarget(i), By(i), k)
FromAt(i, k) == MoveFrom(cpu, MoveSource(i), By(i), k)

LEMMA MovedIs ==
  ASSUME cpu \in Processors
  PROVE  MovedBytes(cpu) \in UInt16 /\ MovedBytes(cpu) \in Nat
BY ProcessorIs, UInt16Bounds DEF MovedBytes

LEMMA MoveAddresses ==
  ASSUME cpu \in Processors, NEW i \in PROGRAM, i.op \in Movers,
         Followed(i), NEW k \in Int
  PROVE  /\ ToAt(i, k) \in Addresses /\ FromAt(i, k) \in Addresses
         /\ ToAt(i, k).bank = MoveTarget(i) /\ FromAt(i, k).bank = MoveSource(i)
         /\ ToAt(i, k).offset = (cpu.Y + By(i) * k) % 65536
         /\ Absolute(ToAt(i, k)) =
              MoveTarget(i) * 65536 + ((cpu.Y + By(i) * k) % 65536)
         /\ Absolute(FromAt(i, k)) =
              MoveSource(i) * 65536 + ((cpu.X + By(i) * k) % 65536)
<1>1. /\ MoveTarget(i) \in UInt8 /\ MoveSource(i) \in UInt8
      /\ By(i) \in {1, -1}
  BY MoverIs
<1> DEFINE y == (cpu.Y + By(i) * k) % 65536
           x == (cpu.X + By(i) * k) % 65536
<1>2. By(i) * k \in Int
  BY <1>1
<1>3. y \in UInt16 /\ x \in UInt16
  BY <1>2, ProcessorIs, UInt16Bounds
<1>4. ToAt(i, k) = Address(MoveTarget(i), y)
      /\ FromAt(i, k) = Address(MoveSource(i), x)
  BY DEF ToAt, FromAt, MoveTo, MoveFrom, BANK_SIZE
<1>5. \A h \in UInt8, o \in UInt16 : 65536 * h + o = h * 65536 + o
  BY UInt8Bounds, UInt16Bounds
<1>. HIDE DEF x, y
<1>. QED BY <1>1, <1>3, <1>4, <1>5, AddressParts DEF x, y

\* No two bytes go to one address, and none is overwritten before it is read.
LEMMA MoveApart ==
  ASSUME cpu \in Processors, NEW i \in PROGRAM, i.op \in Movers,
         Followed(i), Ahead(i), NEW j \in 0..MovedBytes(cpu)-1,
         NEW k \in 0..MovedBytes(cpu)-1, j < k
  PROVE  /\ Absolute(ToAt(i, j)) # Absolute(ToAt(i, k))
         /\ Absolute(ToAt(i, j)) # Absolute(FromAt(i, k))
<1>1. MovedBytes(cpu) \in Nat /\ MovedBytes(cpu) <= 65535
  BY MovedIs, UInt16Bounds
<1>2. j \in Int /\ k \in Int /\ 0 < k - j /\ k - j < 65536
  BY <1>1
<1>3. /\ ToAt(i, j) \in Addresses /\ ToAt(i, k) \in Addresses
      /\ FromAt(i, k) \in Addresses
  BY <1>2, MoveAddresses
<1>4. ToAt(i, j) # ToAt(i, k)
  <2>1. /\ ToAt(i, j).offset = (cpu.Y + By(i) * j) % 65536
        /\ ToAt(i, k).offset = (cpu.Y + By(i) * k) % 65536
    BY <1>2, MoveAddresses
  <2>2. cpu.Y \in Int
    BY ProcessorIs, UInt16Bounds
  <2>3. (cpu.Y + By(i) * j) % 65536 # (cpu.Y + By(i) * k) % 65536
    <3>1. CASE By(i) = 1
      <4>1. By(i) * j = j /\ By(i) * k = k
        BY <1>2, <3>1
      <4>2. (cpu.Y + j) % 65536 # (cpu.Y + k) % 65536
        BY <1>2, <2>2
      <4>. QED BY <4>1, <4>2
    <3>2. CASE By(i) = -1
      <4>1. By(i) * j = -j /\ By(i) * k = -k
        BY <1>2, <3>2
      <4>2. (cpu.Y + (-j)) % 65536 # (cpu.Y + (-k)) % 65536
        BY <1>2, <2>2
      <4>. QED BY <4>1, <4>2
    <3>. QED BY <3>1, <3>2, MoverIs
  <2>. QED BY <2>1, <2>3
<1>5. ToAt(i, j) # FromAt(i, k)
  <2>1. CASE MoveTarget(i) = MoveSource(i)
    BY <2>1, MoverIs DEF Ahead, ToAt, FromAt
  <2>2. CASE MoveTarget(i) # MoveSource(i)
    BY <1>2, <2>2, MoveAddresses
  <2>. QED BY <2>1, <2>2
<1>. QED BY <1>3, <1>4, <1>5, AbsoluteIs

LEMMA MoveWatched ==
  ASSUME cpu \in Processors, NEW i \in PROGRAM, i.op \in Movers,
         Followed(i), NEW k \in 0..MovedBytes(cpu)-1,
         NEW cell, cell = Cell(BOARD, ToAt(i, k), 0), Kind(cell) = "ram"
  PROVE  cell \in WatchedCells
<1>1. cell \in Cells(ToAt(i, k), 1)
  BY DEF Cells
<1>2. Cells(ToAt(i, k), 1) \subseteq MoveCells(i)
  BY DEF MoveCells, ToAt
<1>3. Visible(cell)
  <2>1. ToAt(i, k) \in Addresses
    BY MoveAddresses, MovedIs
  <2>2. cell.device # 0
    BY DEF Kind
  <2>. QED BY <2>1, <2>2, AddressedVisible
<1>. QED BY <1>1, <1>2, <1>3, MoverIs DEF Watched

LEMMA MoveWithin ==
  ASSUME cpu \in Processors, NEW i \in PROGRAM, i.op \in Movers,
         Followed(i)
  PROVE  \A cell \in MoveCells(i) : Within(cell)
<1>1. \A k \in 0..MovedBytes(cpu)-1 :
        /\ ToAt(i, k) \in Addresses /\ FromAt(i, k) \in Addresses
  BY MoveAddresses, MovedIs
<1>2. \A a \in Addresses : \A cell \in Cells(a, 1) : Within(cell)
  BY CellsWithin
<1>. QED BY <1>1, <1>2 DEF MoveCells, ToAt, FromAt

-----------------------------------------------------------------------------
(* The memory after each byte of a block move.                             *)

\* The memory m with the k-th byte moved.
MoveOne(i, m, k) ==
  StoreByte(BOARD, m, ToAt(i, k), ReadByte(BOARD, m, FromAt(i, k)))

\* f is the memory after 0, 1, .. n bytes.
Stages(i, f, n) ==
  f = [k \in 0..n |-> IF k = 0 THEN mem ELSE MoveOne(i, f[k - 1], k - 1)]

LEMMA StagesExist ==
  ASSUME NEW n \in Nat, NEW i
  PROVE  \E f : Stages(i, f, n)
<1> DEFINE S == {l \in 0..n : \E f : Stages(i, f, l)}
<1>1. 0 \in S
  <2>1. Stages(i, [k \in 0..0 |-> mem], 0)
    BY DEF Stages
  <2>. QED BY <2>1
<1>2. ASSUME NEW l \in 0..n-1, l \in S PROVE l + 1 \in S
  <2>1. PICK f : Stages(i, f, l)
    BY <1>2
  <2> DEFINE g == [k \in 0..l+1 |-> IF k <= l THEN f[k]
                                    ELSE MoveOne(i, f[l], l)]
             h == [k \in 0..l+1 |-> IF k = 0 THEN mem
                                    ELSE MoveOne(i, g[k - 1], k - 1)]
  <2>2. ASSUME NEW k \in 0..l+1 PROVE g[k] = h[k]
    <3>1. CASE k = 0
      BY <2>1, <3>1 DEF Stages
    <3>2. CASE k # 0 /\ k <= l
      <4>1. f[k] = MoveOne(i, f[k - 1], k - 1)
        BY <2>1, <3>2 DEF Stages
      <4>2. g[k - 1] = f[k - 1] /\ g[k] = f[k]
        BY <3>2
      <4>3. h[k] = MoveOne(i, g[k - 1], k - 1)
        BY <3>2
      <4>. QED BY <4>1, <4>2, <4>3
    <3>3. CASE k = l + 1
      <4>1. k # 0 /\ k - 1 = l /\ ~(k <= l)
        BY <3>3
      <4>2. g[k - 1] = f[l] /\ g[k] = MoveOne(i, f[l], l)
        BY <4>1
      <4>3. h[k] = MoveOne(i, g[k - 1], k - 1)
        BY <4>1
      <4>. QED BY <4>1, <4>2, <4>3
    <3>. QED BY <3>1, <3>2, <3>3
  <2>3. g = h
    BY <2>2
  <2>4. Stages(i, g, l + 1)
    BY <2>3 DEF Stages
  <2>. QED BY <2>4
<1>. HIDE DEF S
<1>3. 0..n \subseteq S
  BY <1>1, <1>2, UpTo
<1>. QED BY <1>3 DEF S

LEMMA MoveBytesIs ==
  ASSUME cpu \in Processors, NEW i, NEW n, n = MovedBytes(cpu)
  PROVE  \E f : /\ Stages(i, f, n)
               /\ MoveBytes(BOARD, mem, cpu, MoveTarget(i), MoveSource(i),
                            By(i)) = f[n]
<1>1. n \in Nat
  BY MovedIs
<1> DEFINE after == CHOOSE f : Stages(i, f, n)
<1>2. Stages(i, after, n)
  BY <1>1, StagesExist
<1>3. MoveBytes(BOARD, mem, cpu, MoveTarget(i), MoveSource(i), By(i)) = after[n]
  BY DEF MoveBytes, Stages, MoveOne, ToAt, FromAt
<1>. QED BY <1>2, <1>3

\* Whatever a move overwrites, a memory stays one.
LEMMA MoveKeeps ==
  ASSUME cpu \in Processors, Memory(mem), NEW i \in PROGRAM,
         i.op \in Movers, Followed(i)
  PROVE  Memory(MoveBytes(BOARD, mem, cpu, MoveTarget(i), MoveSource(i),
                          By(i)))
<1> DEFINE n == MovedBytes(cpu)
<1>1. n \in Nat
  BY MovedIs
<1>2. PICK f : /\ Stages(i, f, n)
               /\ MoveBytes(BOARD, mem, cpu, MoveTarget(i), MoveSource(i),
                            By(i)) = f[n]
  BY MoveBytesIs
<1> DEFINE S == {k \in 0..n : Memory(f[k])}
<1>3. 0 \in S
  <2>1. f[0] = mem
    BY <1>1, <1>2 DEF Stages
  <2>. QED BY <1>1, <2>1
<1>4. ASSUME NEW k \in 0..n-1, k \in S PROVE k + 1 \in S
  <2> DEFINE to == ToAt(i, k)
             from == FromAt(i, k)
             v == ReadByte(BOARD, f[k], from)
             cell == Cell(BOARD, to, 0)
  <2>1. k + 1 \in 0..n /\ k + 1 # 0 /\ (k + 1) - 1 = k /\ k \in Int
    BY <1>1
  <2>2. f[k + 1] = MoveOne(i, f[k], k)
    BY <1>2, <2>1 DEF Stages
  <2>3. Memory(f[k])
    BY <1>4
  <2>4. from \in Addresses
    BY <2>1, MoveAddresses
  <2>5. v \in UInt8
    <3>. HIDE DEF from
    <3>. QED BY <2>3, <2>4, ReadsFit
  <2>6. Kind(cell) = "ram" => cell \in WatchedCells
    BY MoveWatched
  <2>7. f[k + 1] = StoreCell(BOARD, f[k], cell, v)
    BY <2>2 DEF MoveOne, StoreByte
  <2>. HIDE DEF v, cell
  <2>8. Memory(f[k + 1])
    BY <2>3, <2>5, <2>6, <2>7, CellKeeps
  <2>. QED BY <2>1, <2>8
<1>. HIDE DEF S, n
<1>5. 0..n \subseteq S
  BY <1>1, <1>3, <1>4, UpTo
<1>6. n \in S
  BY <1>1, <1>5
<1>. QED BY <1>2, <1>6 DEF S, n

\* m is memory with the first n bytes moved: those of them that go to b are
\* there, if a store changes b, as they were at the source in the beginning;
\* elsewhere nothing has changed.
Arrived(i, m, n) ==
  /\ Memory(m)
  /\ \A b \in WATCHED :
       /\ \A k \in 0..n-1 :
            Kind(CellOf[b]) = "ram" /\ Absolute(ToAt(i, k)) = b =>
              Content(m, CellOf[b]) = ByteAt(mem, Absolute(FromAt(i, k)))
       /\ \/ Kind(CellOf[b]) # "ram"
          \/ \A k \in 0..n-1 : Absolute(ToAt(i, k)) # b
          => Content(m, CellOf[b]) = Content(mem, CellOf[b])

LEMMA ArrivedOne ==
  ASSUME cpu \in Processors, Memory(mem), NEW i \in PROGRAM,
         i.op \in Movers, Followed(i), Ahead(i),
         NEW n \in 0..MovedBytes(cpu)-1, NEW m, Arrived(i, m, n),
         NEW after, after = MoveOne(i, m, n)
  PROVE  Arrived(i, after, n + 1)
<1> DEFINE to   == ToAt(i, n)
           from == FromAt(i, n)
           cell == Cell(BOARD, to, 0)
           v    == ReadByte(BOARD, m, from)
<1>1. n \in Int /\ n \in Nat
  BY MovedIs
<1>2. to \in Addresses /\ from \in Addresses
  BY <1>1, MoveAddresses
<1>3. Memory(m)
  BY DEF Arrived
<1>4. v = ByteAt(m, Absolute(from)) /\ v \in UInt8
  <2>. HIDE DEF from
  <2>. QED BY <1>2, <1>3, ByteRead
\* What is read has not been overwritten.
<1>5. v = ByteAt(mem, Absolute(from))
  <2> DEFINE b == Absolute(from)
  <2>1. CASE b \in WATCHED
    <3>1. \A k \in 0..n-1 : Absolute(ToAt(i, k)) # b
      <4>1. \A k \in 0..n-1 : k \in 0..MovedBytes(cpu)-1 /\ k < n
        BY <1>1, MovedIs
      <4>. QED BY <4>1, MoveApart
    <3>. HIDE DEF b
    <3>2. Content(m, CellOf[b]) = Content(mem, CellOf[b])
      BY <2>1, <3>1 DEF Arrived
    <3>. QED BY <1>4, <2>1, <3>2 DEF ByteAt, b
  <2>2. CASE b \notin WATCHED
    BY <1>4, <2>2 DEF ByteAt
  <2>. QED BY <2>1, <2>2
<1>6. Memory(after) /\ Seen(after) = Holding(m, Absolute(to), v)
  <2>1. Kind(cell) = "ram" => cell \in WatchedCells
    BY MoveWatched
  <2>2. after = StoreCell(BOARD, m, cell, v)
    BY DEF MoveOne, StoreByte
  <2>. HIDE DEF to, v, cell
  <2>. QED BY <1>2, <1>3, <1>4, <2>1, <2>2, ByteStored DEF cell
<1>7. ASSUME NEW b \in WATCHED
      PROVE  Content(after, CellOf[b]) =
               IF b = Absolute(to) /\ Kind(CellOf[b]) = "ram" THEN v
               ELSE Content(m, CellOf[b])
  <2>. HIDE DEF to, v
  <2>. QED BY <1>6, <1>7 DEF Seen, Holding
<1>8. ASSUME NEW b \in WATCHED, NEW k \in 0..n, Kind(CellOf[b]) = "ram",
             Absolute(ToAt(i, k)) = b
      PROVE  Content(after, CellOf[b]) = ByteAt(mem, Absolute(FromAt(i, k)))
  <2>1. CASE k = n
    BY <1>5, <1>7, <1>8, <2>1
  <2>2. CASE k # n
    <3>1. k \in 0..n-1 /\ k \in 0..MovedBytes(cpu)-1 /\ k < n
      BY <1>1, <2>2, MovedIs
    <3>2. b # Absolute(to)
      BY <1>8, <3>1, MoveApart
    <3>. HIDE DEF to, v
    <3>3. Content(after, CellOf[b]) = Content(m, CellOf[b])
      BY <1>7, <3>2
    <3>. QED BY <1>8, <3>1, <3>3 DEF Arrived
  <2>. QED BY <2>1, <2>2
<1>9. ASSUME NEW b \in WATCHED,
             \/ Kind(CellOf[b]) # "ram"
             \/ \A k \in 0..n : Absolute(ToAt(i, k)) # b
      PROVE  Content(after, CellOf[b]) = Content(mem, CellOf[b])
  <2>1. \/ Kind(CellOf[b]) # "ram"
        \/ Absolute(to) # b /\ \A k \in 0..n-1 : Absolute(ToAt(i, k)) # b
    <3>1. n \in 0..n /\ 0..n-1 \subseteq 0..n
      BY <1>1
    <3>. QED BY <1>9, <3>1
  <2>. HIDE DEF to, v
  <2>2. Content(after, CellOf[b]) = Content(m, CellOf[b])
    BY <1>7, <2>1
  <2>. QED BY <2>1, <2>2 DEF Arrived
<1>10. (n + 1) - 1 = n
  BY <1>1
<1>. QED BY <1>6, <1>8, <1>9, <1>10 DEF Arrived

LEMMA AllArrived ==
  ASSUME cpu \in Processors, Memory(mem), NEW i \in PROGRAM,
         i.op \in Movers, Followed(i), Ahead(i)
  PROVE  Arrived(i, MoveBytes(BOARD, mem, cpu, MoveTarget(i), MoveSource(i),
                              By(i)), MovedBytes(cpu))
<1> DEFINE n == MovedBytes(cpu)
<1>1. n \in Nat
  BY MovedIs
<1>2. PICK f : /\ Stages(i, f, n)
               /\ MoveBytes(BOARD, mem, cpu, MoveTarget(i), MoveSource(i),
                            By(i)) = f[n]
  BY MoveBytesIs
<1> DEFINE S == {k \in 0..n : Arrived(i, f[k], k)}
<1>3. 0 \in S
  <2>1. f[0] = mem
    BY <1>1, <1>2 DEF Stages
  <2>2. Arrived(i, mem, 0)
    BY DEF Arrived
  <2>. QED BY <1>1, <2>1, <2>2
<1>4. ASSUME NEW k \in 0..n-1, k \in S PROVE k + 1 \in S
  <2>1. k + 1 \in 0..n /\ k + 1 # 0 /\ (k + 1) - 1 = k
    BY <1>1
  <2>2. f[k + 1] = MoveOne(i, f[k], k)
    BY <1>2, <2>1 DEF Stages
  <2>3. Arrived(i, f[k], k)
    BY <1>4
  <2>4. Arrived(i, f[k + 1], k + 1)
    BY <2>2, <2>3, ArrivedOne
  <2>. QED BY <2>1, <2>4
<1>. HIDE DEF S, n
<1>5. 0..n \subseteq S
  BY <1>1, <1>3, <1>4, UpTo
<1>6. n \in S
  BY <1>1, <1>5
<1>. QED BY <1>2, <1>6 DEF S, n

-----------------------------------------------------------------------------
(* What the handlers leave of the processor.                               *)

FlagSets == SUBSET (DOMAIN Weight \cup {"e"})

\* The processor c with v in a register and the flags Q.
Loaded(c, reg, v, Q) == [c EXCEPT ![reg] = v, !.P = Q]

LEMMA LoadedProcessor ==
  ASSUME NEW c \in Processors, NEW v \in UInt16, NEW Q, Q \in FlagSets,
         NEW reg \in {"A", "X", "Y"}, NEW d, d = Loaded(c, reg, v, Q)
  PROVE  d \in Processors
<1>1. CASE reg = "A"
  <2>1. d = Loaded(c, "A", v, Q)
    BY <1>1
  <2>2. d = [c EXCEPT !.A = v, !.P = Q]
    BY <2>1, Zenon DEF Loaded
  <2>. QED BY <2>2 DEF Processors, FlagSets
<1>2. CASE reg = "X"
  <2>1. d = Loaded(c, "X", v, Q)
    BY <1>2
  <2>2. d = [c EXCEPT !.X = v, !.P = Q]
    BY <2>1, Zenon DEF Loaded
  <2>. QED BY <2>2 DEF Processors, FlagSets
<1>3. CASE reg = "Y"
  <2>1. d = Loaded(c, "Y", v, Q)
    BY <1>3
  <2>2. d = [c EXCEPT !.Y = v, !.P = Q]
    BY <2>1, Zenon DEF Loaded
  <2>. QED BY <2>2 DEF Processors, FlagSets
<1>. QED BY <1>1, <1>2, <1>3

LEMMA AdvanceIs ==
  ASSUME NEW c \in Processors, NEW n \in Int
  PROVE  /\ Advance(c, n) \in Processors
         /\ Advance(c, n) = [c EXCEPT !.pc = (c.pc + n) % 65536]
<1>1. (c.pc + n) % 65536 \in UInt16
  BY ProcessorIs, UInt16Bounds
<1>2. Advance(c, n) = [c EXCEPT !.pc = (c.pc + n) % 65536]
  BY DEF Advance, Wrap
<1>3. \A v \in UInt16 : [c EXCEPT !.pc = v] \in Processors
  BY DEF Processors
<1>. QED BY <1>1, <1>2, <1>3

LEMMA SignsType ==
  ASSUME NEW c \in Processors, NEW v, NEW W
  PROVE  SignZero(c.P, v, W) \in FlagSets
<1>1. c.P \subseteq DOMAIN Weight \cup {"e"}
  BY DEF Processors
<1>2. "n" \in DOMAIN Weight /\ "z" \in DOMAIN Weight
  BY DEF Weight
<1>3. SignZero(c.P, v, W) \subseteq c.P \cup {"n", "z"}
  BY DEF SignZero, Put
<1>. QED BY <1>1, <1>2, <1>3 DEF FlagSets

\* A register after a load: narrow, its high byte stays.
Filled(old, narrow, v) == IF narrow THEN (old \div 256) * 256 + v ELSE v

LEMMA LoadRegWide ==
  ASSUME NEW c, NEW reg \in {"A", "X", "Y"}, NEW v, NEW narrow, ~narrow,
         NEW Q, Q = SignZero(c.P, v, 65536)
  PROVE  LoadReg(c, reg, narrow, v) = Loaded(c, reg, v, Q)
BY DEF LoadReg, Update16, Loaded

\* The value a load of either width finds.
Finds(narrow, v) == IF narrow THEN v \in UInt8 ELSE v \in UInt16
Modulus(narrow)  == IF narrow THEN 256 ELSE 65536

LEMMA LoadRegIs ==
  ASSUME NEW c \in Processors, NEW reg \in {"A", "X", "Y"},
         NEW narrow, NEW v, Finds(narrow, v),
         NEW d, d = LoadReg(c, reg, narrow, v)
  PROVE  /\ d \in Processors
         /\ d = Loaded(c, reg, Filled(c[reg], narrow, v),
                       SignZero(c.P, v, Modulus(narrow)))
<1>1. c[reg] \in UInt16
  BY ProcessorIs
<1>2. CASE narrow
  <2> DEFINE w == Word(High(c[reg]), Low(v))
             Q == SignZero(c.P, v, 256)
  <2>1. v \in UInt8
    BY <1>2 DEF Finds
  <2>2. Low(v) = v /\ w = (c[reg] \div 256) * 256 + v /\ w \in UInt16
    BY <1>1, <2>1, UInt8Bounds, UInt16Bounds DEF Word, High, Low
  <2>3. w = Word(High(c[reg]), Low(v)) /\ Q = SignZero(c.P, Low(v), 256)
    BY <2>2
  <2>4. Filled(c[reg], narrow, v) = w /\ SignZero(c.P, v, Modulus(narrow)) = Q
    BY <1>2, <2>2 DEF Filled, Modulus
  <2>5. Q \in FlagSets
    BY SignsType
  <2>. HIDE DEF w, Q
  <2>6. LoadReg(c, reg, narrow, v) = Loaded(c, reg, w, Q)
    BY <1>2, <2>3 DEF LoadReg, Update8, Loaded
  <2>7. Loaded(c, reg, w, Q) \in Processors
    BY <2>2, <2>5, LoadedProcessor
  <2>. QED BY <2>4, <2>6, <2>7
<1>3. CASE ~narrow
  <2> DEFINE Q == SignZero(c.P, v, 65536)
  <2>1. v \in UInt16
    BY <1>3 DEF Finds
  <2>2. LoadReg(c, reg, narrow, v) = Loaded(c, reg, v, Q)
    BY <1>3, LoadRegWide, SMT
  <2>3. Filled(c[reg], narrow, v) = v /\ SignZero(c.P, v, Modulus(narrow)) = Q
    BY <1>3 DEF Filled, Modulus
  <2>4. Q \in FlagSets
    BY SignsType
  <2>. HIDE DEF Q
  <2>5. Loaded(c, reg, v, Q) \in Processors
    BY <2>1, <2>4, LoadedProcessor
  <2>. QED BY <2>2, <2>3, <2>5
<1>. QED BY <1>2, <1>3

-----------------------------------------------------------------------------
(* The instructions, one by one: what they find and what they leave.       *)

\* What FlatMachine reads for an access of either width.
FlatFetched(i, narrow) ==
  IF narrow THEN Flat!Byte(Flat!EA(i.mode, i.n))
  ELSE Flat!Word2(Flat!EA(i.mode, i.n))

LEMMA FetchedFits ==
  ASSUME cpu \in Processors, Memory(mem), NEW i, Accessing(i), NEW narrow,
         NEW v, v = Fetched(BOARD, mem, AddressOf(i), narrow)
  PROVE  Finds(narrow, v)
<1>1. AddressOf(i) \in Addresses
  BY AddressFits
<1>. QED BY <1>1, ReadsFit DEF Fetched, Finds

LEMMA FetchedIs ==
  ASSUME cpu \in Processors, Memory(mem), NEW i, Reaching(i), i.op # "JMP",
         NEW v, v = Fetched(BOARD, mem, AddressOf(i), Narrow(cpu, i.op))
  PROVE  /\ Finds(Narrow(cpu, i.op), v)
         /\ v = FlatFetched(i, Narrow(cpu, i.op))
<1> DEFINE a == AddressOf(i)
<1>1. a \in Addresses /\ Absolute(a) = Flat!EA(i.mode, i.n)
  BY AddressOfIs
<1>2. Whole(a, Width(i))
  BY ReachingIs
<1>3. CASE Narrow(cpu, i.op)
  <2>1. v = ReadByte(BOARD, mem, a)
    BY <1>3 DEF Fetched
  <2>. HIDE DEF a
  <2>2. v \in UInt8 /\ v = Flat!Byte(Flat!EA(i.mode, i.n))
    BY <1>1, <2>1, ByteRead, FlatReads
  <2>. QED BY <1>3, <2>2 DEF Finds, FlatFetched
<1>4. CASE ~Narrow(cpu, i.op)
  <2>1. v = ReadTwoBytes(BOARD, mem, a)
    BY <1>4 DEF Fetched
  <2>2. Whole(a, 2)
    BY <1>2, <1>4 DEF Width
  <2>. HIDE DEF a
  <2>3. v \in UInt16 /\ v = Flat!Word2(Flat!EA(i.mode, i.n))
    BY <1>1, <2>1, <2>2, WordRead, FlatReads
  <2>. QED BY <1>4, <2>3 DEF Finds, FlatFetched
<1>. QED BY <1>3, <1>4

LEMMA LoadIs ==
  ASSUME cpu \in Processors, Memory(mem), NEW i, Accessing(i),
         i.op \in DOMAIN Loads,
         NEW c, c = Load(BOARD, mem, cpu, i.op, i.mode, i.n),
         NEW narrow, narrow = Narrow(cpu, i.op),
         NEW v, v = Fetched(BOARD, mem, AddressOf(i), narrow),
         NEW reg, reg = Loads[i.op]
  PROVE  /\ c \in Processors
         /\ reg \in {"A", "X", "Y"}
         /\ c = Advance(Loaded(cpu, reg, Filled(cpu[reg], narrow, v),
                               SignZero(cpu.P, v, Modulus(narrow))),
                        Length(i.mode))
<1>1. reg \in {"A", "X", "Y"}
  BY DEF Loads
<1>2. Finds(narrow, v)
  BY FetchedFits
<1> DEFINE d == LoadReg(cpu, reg, narrow, v)
<1>3. c = Advance(d, Length(i.mode))
  BY DEF Load, AddressOf
<1>4. /\ d \in Processors
      /\ d = Loaded(cpu, reg, Filled(cpu[reg], narrow, v),
                    SignZero(cpu.P, v, Modulus(narrow)))
  BY <1>1, <1>2, LoadRegIs
<1>. HIDE DEF d
<1>5. Length(i.mode) \in Int
  BY DEF Length
<1>. QED BY <1>1, <1>3, <1>4, <1>5, AdvanceIs

LEMMA StoreKeeps ==
  ASSUME cpu \in Processors, Memory(mem), NEW i, Accessing(i), i.op # "JMP",
         i.op \notin DOMAIN Loads, NEW v \in UInt16,
         NEW m, m = Stored(BOARD, mem, AddressOf(i), A8(cpu), v)
  PROVE  Memory(m)
<1>1. i.op \notin {"LDX", "LDY"}
  BY Operations
<1>2. Width(i) = IF A8(cpu) THEN 1 ELSE 2
  BY <1>1 DEF Width, Narrow
<1>3. Watched(Cells(AddressOf(i), Width(i)))
  BY AccessingIs
<1>4. A8(cpu) \in BOOLEAN
  BY DEF A8, Emulation
<1>. QED BY <1>2, <1>3, <1>4, StoredKeeps

LEMMA StoreIs ==
  ASSUME cpu \in Processors, Memory(mem), NEW i, Reaching(i), i.op # "JMP",
         i.op \notin DOMAIN Loads, NEW v \in UInt16,
         NEW m, m = Stored(BOARD, mem, AddressOf(i), A8(cpu), v)
  PROVE  Seen(m) = Stowed(mem, Flat!EA(i.mode, i.n), v, A8(cpu))
<1> DEFINE a == AddressOf(i)
<1>1. a \in Addresses /\ Absolute(a) = Flat!EA(i.mode, i.n)
  BY AddressOfIs
<1>2. i.op \notin {"LDX", "LDY"}
  BY Operations
<1>3. Width(i) = IF A8(cpu) THEN 1 ELSE 2
  BY <1>2 DEF Width, Narrow
<1>4. Whole(a, Width(i)) /\ Watched(Cells(a, Width(i)))
  BY ReachingIs
<1>. HIDE DEF a
<1>5. A8(cpu) \in BOOLEAN
  BY DEF A8, Emulation
<1>6. m = Stored(BOARD, mem, a, A8(cpu), v)
  BY DEF a
<1>. QED BY <1>1, <1>3, <1>4, <1>5, <1>6, StoredSeen

LEMMA ToStoreIs ==
  ASSUME cpu \in Processors, NEW op \in Stores
  PROVE  /\ ToStore(cpu, op) \in UInt16
         /\ op = "STA" => ToStore(cpu, op) = cpu.A
         /\ op = "STX" => ToStore(cpu, op) = cpu.X
         /\ op = "STY" => ToStore(cpu, op) = cpu.Y
         /\ op = "STZ" => ToStore(cpu, op) = 0
BY ProcessorIs, UInt16Bounds DEF ToStore, Stores

LEMMA CountIs ==
  ASSUME cpu \in Processors, Memory(mem), NEW i, Accessing(i),
         i.op \in {"INC", "DEC"},
         NEW v, v = Fetched(BOARD, mem, AddressOf(i), A8(cpu)),
         NEW res, res = Counted(BOARD, mem, cpu, i.op, i.mode, i.n),
         NEW by, by = IF i.op = "INC" THEN 1 ELSE -1
  PROVE  /\ res.r \in UInt16
         /\ res.r = IF A8(cpu) THEN (v + by) % 256
                    ELSE (v + by) % 65536
         /\ res.P = SignZero(cpu.P, res.r, Modulus(A8(cpu)))
         /\ [cpu EXCEPT !.P = res.P] \in Processors
<1>1. Finds(A8(cpu), v)
  BY FetchedFits
<1>2. v \in Int
  BY <1>1, UInt8Bounds, UInt16Bounds DEF Finds
<1>3. res = INCDEC(cpu.P, v, by, Modulus(A8(cpu)))
  BY DEF Counted, AddressOf, Modulus
<1>4. /\ res.r = (v + by) % Modulus(A8(cpu))
      /\ res.P = SignZero(cpu.P, res.r, Modulus(A8(cpu)))
  BY <1>3 DEF INCDEC, Result
<1>5. res.r = IF A8(cpu) THEN (v + by) % 256 ELSE (v + by) % 65536
  BY <1>4 DEF Modulus
<1>6. (v + by) % 256 \in UInt16 /\ (v + by) % 65536 \in UInt16
  BY <1>2, UInt16Bounds
<1>7. res.r \in UInt16
  BY <1>5, <1>6
<1>8. res.P \in FlagSets
  BY <1>4, SignsType
<1>9. [cpu EXCEPT !.P = res.P] \in Processors
  <2> DEFINE Q == res.P
  <2>1. Q \in FlagSets
    BY <1>8
  <2>. HIDE DEF Q
  <2>2. [cpu EXCEPT !.P = Q] \in Processors
    BY <2>1 DEF Processors, FlagSets
  <2>. QED BY <2>2 DEF Q
<1>. QED BY <1>4, <1>5, <1>7, <1>9

LEMMA JumpStays ==
  ASSUME NEW c \in Processors, NEW b \in UInt8, NEW o \in UInt16
  PROVE  JMP(c, b, o) \in Processors
BY DEF JMP, Processors

LEMMA JumpFits ==
  ASSUME cpu \in Processors, Memory(mem), NEW i, Accessing(i),
         NEW a, a = AddressOf(i), NEW o, o = a.offset,
         NEW b, b = IF i.mode = "Absolute" THEN cpu.pb ELSE a.bank,
         NEW c, c = Jump(BOARD, mem, cpu, i.mode, i.n)
  PROVE  /\ c \in Processors /\ c = JMP(cpu, b, o)
         /\ b \in UInt8 /\ o \in UInt16
<1>1. a.bank \in UInt8 /\ o \in UInt16
  BY AddressFits, AddressIs
<1>2. b \in UInt8
  BY <1>1, ProcessorIs
<1>3. c = JMP(cpu, b, o)
  BY DEF Jump, AddressOf
<1>. QED BY <1>1, <1>2, <1>3, JumpStays

LEMMA JumpIs ==
  ASSUME cpu \in Processors, Memory(mem), NEW i, Reaching(i), i.op = "JMP",
         NEW a, a = AddressOf(i), NEW o, o = a.offset,
         NEW b, b = IF i.mode = "Absolute" THEN cpu.pb ELSE a.bank
  PROVE  65536 * b + o = IF i.mode = "Absolute" THEN Flat!Code(i.n)
                         ELSE Flat!EA(i.mode, i.n)
<1>1. a \in Addresses /\ Absolute(a) = Flat!EA(i.mode, i.n)
  BY AddressOfIs
<1>2. a.bank \in UInt8 /\ o \in UInt16
  BY <1>1, AddressIs
<1>3. b \in UInt8
  BY <1>2, ProcessorIs
<1>4. CASE i.mode = "Absolute"
  <2>1. i.n \in UInt16
    BY <1>4, OperandIs DEF Reaching, Accessing, LongModes
  <2>2. a = Address(cpu.DB, i.n)
    BY <1>4 DEF AddressOf, Target
  <2>3. o = i.n /\ b = cpu.pb
    BY <1>4, <2>2 DEF Address
  <2>4. Absolute(Address(b, o)) = Flat!Code(i.n)
    BY <2>1, <2>3, CodeIs
  <2>5. Absolute(Address(b, o)) = 65536 * b + o
    BY <1>2, <1>3, AddressParts
  <2>. QED BY <1>4, <2>4, <2>5
<1>5. CASE i.mode # "Absolute"
  <2>1. Absolute(a) = 65536 * b + o
    BY <1>1, <1>5, AddressIs
  <2>. QED BY <1>1, <1>5, <2>1
<1>. QED BY <1>4, <1>5

\* By how much a branch leaves the offset of the program counter.
Distance(i) ==
  IF i.op = "BRL" THEN 3 + i.n
  ELSE 2 + (IF ~Taken(cpu, i.op) THEN 0
            ELSE IF i.n >= 128 THEN 65280 + i.n ELSE i.n)

LEMMA BrancherIs ==
  ASSUME NEW i \in PROGRAM, i.op \in DOMAIN BranchFlag \cup {"BRA", "BRL"}
  PROVE  /\ IF i.op = "BRL" THEN i.n \in UInt16 ELSE i.n \in UInt8
         /\ i.n \in Int /\ Distance(i) \in Int
         /\ TracedCells(i) = {}
<1>1. i.op \notin DOMAIN ModesOf /\ i.op \notin {"MVN", "MVP"}
  BY Operations DEF Branches
<1>2. i.mode = IF i.op = "BRL" THEN "ProgramCounterRelativeLong"
               ELSE "ProgramCounterRelative"
  BY <1>1, ProgramAssumption
<1>3. IF i.op = "BRL" THEN i.n \in UInt16 ELSE i.n \in UInt8
  BY <1>2, ProgramAssumption DEF Length, UInt8, UInt16
<1>4. TracedCells(i) = {}
  BY <1>2 DEF TracedCells, TraceWidth
<1>5. i.n \in Int
  BY <1>3, UInt8Bounds, UInt16Bounds
<1>6. Distance(i) \in Int
  BY <1>5 DEF Distance
<1>. QED BY <1>3, <1>4, <1>5, <1>6

LEMMA BranchIs ==
  ASSUME cpu \in Processors, NEW i \in PROGRAM,
         i.op \in DOMAIN BranchFlag \cup {"BRA", "BRL"},
         NEW c, c = IF i.op = "BRL" THEN BRL(cpu, i.n)
                    ELSE Branch(cpu, i.op, i.n)
  PROVE  c \in Processors /\ c = Advance(cpu, Distance(i))
<1>1. c = Advance(cpu, Distance(i))
  BY DEF Branch, BRL, Distance
<1>. QED BY <1>1, BrancherIs, AdvanceIs

\* The processor after the last byte, before it goes on.
Emptied(c, v, b) == [c EXCEPT !.A = v, !.DB = b]

LEMMA EmptiedIs ==
  ASSUME NEW c \in Processors, NEW v \in UInt16, NEW b \in UInt8
  PROVE  Emptied(c, v, b) \in Processors
BY DEF Emptied, Processors

LEMMA MovedProcessor ==
  ASSUME cpu \in Processors, NEW b \in UInt8, NEW c, c = Moved(cpu, b)
  PROVE  /\ c \in Processors
         /\ c = Advance(Emptied(cpu, 65535, b), 3)
         /\ Emptied(cpu, 65535, b) \in Processors
<1>1. 65535 \in UInt16
  BY UInt16Bounds
<1>2. Emptied(cpu, 65535, b) \in Processors
  BY <1>1, EmptiedIs
<1>3. c = Advance(Emptied(cpu, 65535, b), 3)
  BY DEF Moved, Emptied
<1>. QED BY <1>2, <1>3, AdvanceIs

-----------------------------------------------------------------------------
(* The inductive invariant.                                                *)

\* An instruction that has been traced is one the program may execute with
\* the registers and the memory there are, which nothing has touched since.
Ready ==
  ir # None => ir \in PROGRAM /\ Followed(ir) /\ touched = TracedCells(ir)
Sound == cpu \in Processors /\ Memory(mem) /\ Ready /\ LeftOnlyAtTheEnd

\* What a step leaves, whether or not the next instruction is known.
SoundAfter ==
  /\ cpu' \in Processors /\ Memory(mem)'
  /\ \A cell \in touched' : Within(cell)

LEMMA MemoryStays == ASSUME mem' = mem, Memory(mem) PROVE Memory(mem)'
BY DEF Memory, Kind, Visible, WatchedCells, CellOf

LEMMA MemoryNext ==
  ASSUME NEW m, Memory(m), mem' = m
  PROVE  Memory(mem)'
BY DEF Memory, Kind, Visible, WatchedCells, CellOf

LEMMA Reached ==
  ASSUME Sound, ir # None, ir.op \in DOMAIN ModesOf
  PROVE  Accessing(ir) /\ (Plain(ir) => Reaching(ir))
BY DEF Sound, Ready, Accessing, Reaching

LEMMA InitSound == Init => Sound
<1>. SUFFICES ASSUME Init PROVE Sound
  OBVIOUS
<1>1. cpu \in Processors /\ Memory(mem)
  BY MemoryAccessAssumption DEF Init, Memory
<1>2. Ready /\ LeftOnlyAtTheEnd
  BY DEF Init, Ready, LeftOnlyAtTheEnd
<1>. QED BY <1>1, <1>2 DEF Sound

LEMMA TraceSound ==
  ASSUME Sound, Trace
  PROVE  Sound'
<1>1. PICK i \in PROGRAM : /\ Followed(i) /\ ir' = i
                          /\ touched' = TracedCells(i)
  BY DEF Trace
<1>2. cpu' = cpu /\ mem' = mem
  BY DEF Trace
<1>3. cpu \in Processors /\ Memory(mem)
  BY DEF Sound
<1>4. \A cell \in TracedCells(i) : Within(cell)
  <2>1. CASE i.op \in DOMAIN ModesOf
    BY <1>1, <1>3, <2>1, TracedWithin DEF Accessing
  <2>2. CASE i.op \in Movers
    BY <1>1, <2>2, MoverIs
  <2>3. CASE i.op \in DOMAIN BranchFlag \cup {"BRA", "BRL"}
    BY <2>3, BrancherIs
  <2>. QED BY <1>1, <2>1, <2>2, <2>3 DEF Followed, Movers
<1>5. Followed(ir)' /\ touched' = TracedCells(ir)'
  BY <1>1, <1>2
     DEF Followed, TracedCells, Visible, Watched, MoveCells, AddressOf, Width,
         PointerWidth, PointerCells, NoRegisterRead, Kind, Cells, By,
         MoveTarget, MoveSource, WatchedCells, CellOf
<1>6. Ready'
  BY <1>1, <1>5 DEF Ready
<1>7. LeftOnlyAtTheEnd'
  BY <1>1, <1>4 DEF LeftOnlyAtTheEnd, Within, Kind
<1>. QED BY <1>2, <1>3, <1>6, <1>7, MemoryStays DEF Sound

LEMMA LoadingSound ==
  ASSUME Sound, ir # None, Loading
  PROVE  SoundAfter
<1>1. cpu \in Processors /\ Memory(mem)
  BY DEF Sound
<1>2. ir.op \in DOMAIN Loads /\ ir.op # "JMP" /\ ir.op \in DOMAIN ModesOf
  BY Operations DEF Loading
<1>3. Accessing(ir)
  BY <1>2, Reached
<1>4. cpu' \in Processors
  BY <1>1, <1>2, <1>3, LoadIs DEF Loading
<1>5. \A cell \in touched' : Within(cell)
  BY <1>1, <1>2, <1>3, DataWithin DEF Loading
<1>6. Memory(mem)'
  BY <1>1, MemoryStays DEF Loading
<1>. QED BY <1>4, <1>5, <1>6 DEF SoundAfter

LEMMA StoringSound ==
  ASSUME Sound, ir # None, Storing
  PROVE  SoundAfter
<1>1. cpu \in Processors /\ Memory(mem)
  BY DEF Sound
<1>2. /\ ir.op \in Stores /\ ir.op # "JMP" /\ ir.op \in DOMAIN ModesOf
      /\ ir.op \notin DOMAIN Loads /\ Narrow(cpu, ir.op) = A8(cpu)
  BY Operations DEF Storing, Stores, Narrow
<1>3. Accessing(ir)
  BY <1>2, Reached
<1>4. cpu' \in Processors
  <2>1. Length(ir.mode) \in Int
    BY DEF Length
  <2>. QED BY <1>1, <2>1, AdvanceIs DEF Storing
<1>5. \A cell \in touched' : Within(cell)
  BY <1>1, <1>2, <1>3, DataWithin DEF Storing
<1>6. Memory(mem)'
  <2> DEFINE m == Stored(BOARD, mem, AddressOf(ir), A8(cpu),
                         ToStore(cpu, ir.op))
  <2>1. mem' = m
    BY <1>2 DEF Storing, Store, AddressOf
  <2>2. Memory(m)
    BY <1>1, <1>2, <1>3, StoreKeeps, ToStoreIs
  <2>. HIDE DEF m
  <2>. QED BY <2>1, <2>2, MemoryNext
<1>. QED BY <1>4, <1>5, <1>6 DEF SoundAfter

LEMMA CountingSound ==
  ASSUME Sound, ir # None, Counting
  PROVE  SoundAfter
<1>1. cpu \in Processors /\ Memory(mem)
  BY DEF Sound
<1>2. /\ ir.op \in {"INC", "DEC"} /\ ir.op # "JMP" /\ ir.op \in DOMAIN ModesOf
      /\ ir.op \notin DOMAIN Loads
  BY Operations DEF Counting
<1>3. Accessing(ir)
  BY <1>2, Reached
<1> DEFINE res == Counted(BOARD, mem, cpu, ir.op, ir.mode, ir.n)
           c   == [cpu EXCEPT !.P = res.P]
           m   == Stored(BOARD, mem, AddressOf(ir), A8(cpu), res.r)
<1>4. mem' = m /\ cpu' = Advance(c, Length(ir.mode)) /\ touched' = DataCells(ir)
  BY DEF Counting
<1>5. res.r \in UInt16 /\ c \in Processors
  BY <1>1, <1>2, <1>3, CountIs
<1>. HIDE DEF res
<1>6. Memory(m)
  BY <1>1, <1>2, <1>3, <1>5, StoreKeeps
<1>. HIDE DEF c, m
<1>7. cpu' \in Processors
  <2>1. Length(ir.mode) \in Int
    BY DEF Length
  <2>. QED BY <1>4, <1>5, <2>1, AdvanceIs
<1>8. \A cell \in touched' : Within(cell)
  BY <1>1, <1>2, <1>3, <1>4, DataWithin
<1>. QED BY <1>4, <1>6, <1>7, <1>8, MemoryNext DEF SoundAfter

LEMMA JumpingSound ==
  ASSUME Sound, ir # None, Jumping
  PROVE  SoundAfter
<1>1. cpu \in Processors /\ Memory(mem)
  BY DEF Sound
<1>2. ir.op = "JMP" /\ ir.op \in DOMAIN ModesOf
  BY Operations DEF Jumping
<1>3. Accessing(ir)
  BY <1>2, Reached
<1>4. cpu' \in Processors
  BY <1>1, <1>2, <1>3, JumpFits DEF Jumping
<1>5. \A cell \in touched' : Within(cell)
  BY <1>1, <1>3, PointerWithin DEF Jumping
<1>6. Memory(mem)'
  BY <1>1, MemoryStays DEF Jumping
<1>. QED BY <1>4, <1>5, <1>6 DEF SoundAfter

LEMMA BranchingSound ==
  ASSUME Sound, ir # None, Branching
  PROVE  SoundAfter
<1>1. cpu \in Processors /\ Memory(mem) /\ ir \in PROGRAM
  BY DEF Sound, Ready
<1>2. cpu' \in Processors
  BY <1>1, BranchIs DEF Branching
<1>3. Memory(mem)'
  BY <1>1, MemoryStays DEF Branching
<1>. QED BY <1>2, <1>3 DEF SoundAfter, Branching

LEMMA MovingSound ==
  ASSUME Sound, ir # None, Moving
  PROVE  SoundAfter
<1>1. cpu \in Processors /\ Memory(mem)
  BY DEF Sound
<1>2. ir \in PROGRAM /\ ir.op \in Movers /\ Followed(ir)
  BY DEF Sound, Ready, Moving, Movers
<1>3. cpu' \in Processors
  BY <1>1, <1>2, MoverIs, MovedProcessor DEF Moving
<1>4. \A cell \in touched' : Within(cell)
  BY <1>1, <1>2, MoveWithin DEF Moving
<1>5. Memory(mem)'
  <2> DEFINE m == MoveBytes(BOARD, mem, cpu, MoveTarget(ir), MoveSource(ir),
                            By(ir))
  <2>1. mem' = m
    BY DEF Moving
  <2>2. Memory(m)
    BY <1>1, <1>2, MoveKeeps
  <2>. HIDE DEF m
  <2>. QED BY <2>1, <2>2, MemoryNext
<1>. QED BY <1>3, <1>4, <1>5 DEF SoundAfter

LEMMA NextSound ==
  ASSUME Sound, [Next]_accessVars
  PROVE  Sound'
<1>1. CASE Trace
  BY <1>1, TraceSound
<1>2. CASE Execute
  <2>1. SoundAfter
    BY <1>2, LoadingSound, StoringSound, CountingSound, JumpingSound,
       BranchingSound, MovingSound DEF Execute
  <2>2. ir' = None
    BY <1>2 DEF Execute
  <2>3. Ready' /\ LeftOnlyAtTheEnd'
    BY <2>1, <2>2 DEF Ready, LeftOnlyAtTheEnd, SoundAfter, None,
                      Within, Kind
  <2>. QED BY <2>1, <2>3 DEF Sound, SoundAfter
<1>3. CASE UNCHANGED accessVars
  <2>1. cpu' = cpu /\ mem' = mem /\ ir' = ir /\ touched' = touched
    BY <1>3 DEF accessVars
  <2>2. Ready'
    BY <2>1 DEF Sound, Ready, None,
         Followed, TracedCells, Visible, Watched, MoveCells, AddressOf, Width,
         PointerWidth, PointerCells, NoRegisterRead, Kind, Cells, By,
         MoveTarget, MoveSource, WatchedCells, CellOf
  <2>3. LeftOnlyAtTheEnd'
    BY <2>1 DEF Sound, LeftOnlyAtTheEnd, Kind
  <2>. QED BY <2>1, <2>2, <2>3, MemoryStays DEF Sound
<1>. QED BY <1>1, <1>2, <1>3 DEF Next

THEOREM AlwaysSound == Spec => []Sound
<1>1. Init => Sound
  BY InitSound
<1>2. Sound /\ [Next]_accessVars => Sound'
  BY NextSound
<1>. QED BY <1>1, <1>2, PTL DEF Spec

\* Registers, memory and cells stay what the others take them for.
THEOREM MemoryTyped == Spec => []MemTypeOK
<1>1. Sound => MemTypeOK
  <2>. SUFFICES ASSUME Sound PROVE MemTypeOK
    OBVIOUS
  <2>1. cpu \in Processors /\ Memory(mem)
    BY DEF Sound
  <2>2. ir = None \/ ir \in PROGRAM
    BY DEF Sound, Ready
  <2>. QED BY <2>1, <2>2, ProcessorIs DEF MemTypeOK, Memory
<1>. QED BY <1>1, AlwaysSound, PTL

\* Every byte read or stored is in the device that decoded the access, but for
\* the two that follow one that does not end with a bank; a store never
\* changes anything there.
THEOREM DevicesLeftOnlyAtTheEnd == Spec => []LeftOnlyAtTheEnd
<1>1. Sound => LeftOnlyAtTheEnd
  BY DEF Sound
<1>. QED BY <1>1, AlwaysSound, PTL

-----------------------------------------------------------------------------
(* The step of FlatMachine that each step of the processor is.             *)

\* The registers of FlatMachine for the processor c.
Registers(c) ==
  [A |-> c.A, X |-> c.X, Y |-> c.Y, D |-> c.D, S |-> c.sp, DB |-> c.DB,
   P |-> c.P, PC |-> c.pb * 65536 + c.pc]

LEMMA RegistersAre ==
  FlatRegisters = Registers(cpu) /\ FlatRegisters' = Registers(cpu')
BY DEF FlatRegisters, Registers, BANK_SIZE

LEMMA BytesAre == FlatBytes = Seen(mem) /\ FlatBytes' = Seen(mem')
BY DEF FlatBytes, Seen, CellOf

LEMMA ProgramCounter ==
  ASSUME NEW b \in UInt8, NEW o \in UInt16, NEW n \in Int, NEW k \in Int,
         (k - n) % 65536 = 0
  PROVE  Flat!InBank(b * 65536 + o, (b * 65536 + o) + k)
           = b * 65536 + ((o + n) % 65536)
<1>1. (b * 65536 + o) \div 65536 = b
  BY PartsOf, UInt8Bounds, UInt16Bounds
<1>2. ((b * 65536 + o) + k) % 65536 = (o + n) % 65536
  BY UInt8Bounds, UInt16Bounds
<1>. QED BY <1>1, <1>2 DEF Flat!InBank

\* Going on n bytes, or k, when that is n without whole turns of the offset.
LEMMA GoIs ==
  ASSUME NEW c \in Processors, NEW n \in Int, NEW k \in Int,
         (k - n) % 65536 = 0
  PROVE  Registers(Advance(c, n)) = Flat!Go(Registers(c), k)
<1> DEFINE o == (c.pc + n) % 65536
           d == Advance(c, n)
<1>1. d = [c EXCEPT !.pc = o]
  BY AdvanceIs
<1>2. c.pb \in UInt8 /\ c.pc \in UInt16
  BY ProcessorIs
<1>3. Flat!InBank(c.pb * 65536 + c.pc, (c.pb * 65536 + c.pc) + k)
        = c.pb * 65536 + o
  BY <1>2, ProgramCounter
<1>. HIDE DEF o, d
<1>4. /\ d.A = c.A /\ d.X = c.X /\ d.Y = c.Y /\ d.D = c.D /\ d.sp = c.sp
      /\ d.DB = c.DB /\ d.P = c.P /\ d.pb = c.pb /\ d.pc = o
  BY <1>1 DEF Processors
<1> DEFINE p == c.pb * 65536 + c.pc
           q == c.pb * 65536 + o
<1>5. /\ Flat!Go(Registers(c), k) =
           [Registers(c) EXCEPT !.PC = Flat!InBank(p, p + k)]
      /\ Flat!InBank(p, p + k) = q
  BY <1>3 DEF Flat!Go, Registers
<1>6. /\ Registers(c) = [A |-> c.A, X |-> c.X, Y |-> c.Y, D |-> c.D,
                         S |-> c.sp, DB |-> c.DB, P |-> c.P, PC |-> p]
      /\ Registers(d) = [A |-> c.A, X |-> c.X, Y |-> c.Y, D |-> c.D,
                         S |-> c.sp, DB |-> c.DB, P |-> c.P, PC |-> q]
  BY <1>4 DEF Registers
<1>. HIDE DEF p, q
<1>7. [Registers(c) EXCEPT !.PC = q] = Registers(d)
  BY <1>6
<1>. QED BY <1>5, <1>7 DEF d

LEMMA SizesAre ==
  ASSUME NEW mode
  PROVE  Flat!Size(mode) = Length(mode) /\ Length(mode) \in Int
BY DEF Flat!Size, Length

LEMMA SignsAre ==
  ASSUME NEW v \in Int
  PROVE  /\ Flat!Signs(v, 128) = SignZero(cpu.P, v, 256)
         /\ Flat!Signs(v, 32768) = SignZero(cpu.P, v, 65536)
BY FlatIs DEF Flat!Signs, SignZero, Put

\* A register of FlatMachine loaded.
FlatLoaded(f, reg, v, Q) == [f EXCEPT ![reg] = v, !.P = Q]

LEMMA LoadedFlat ==
  ASSUME NEW c \in Processors, NEW reg \in {"A", "X", "Y"}, NEW v, NEW Q,
         NEW d, d = Loaded(c, reg, v, Q),
         NEW f, f = FlatLoaded(Registers(c), reg, v, Q)
  PROVE  Registers(d) = f
<1> DEFINE g == Registers(c)
           p == c.pb * 65536 + c.pc
<1>0. /\ g = [A |-> c.A, X |-> c.X, Y |-> c.Y, D |-> c.D, S |-> c.sp,
              DB |-> c.DB, P |-> c.P, PC |-> p]
      /\ d.pb = c.pb /\ d.pc = c.pc =>
           Registers(d) = [A |-> d.A, X |-> d.X, Y |-> d.Y, D |-> d.D,
                           S |-> d.sp, DB |-> d.DB, P |-> d.P, PC |-> p]
  BY DEF Registers
<1>. HIDE DEF g, p
<1>1. CASE reg = "A"
  <2>1. d = Loaded(c, "A", v, Q) /\ f = FlatLoaded(g, "A", v, Q)
    BY <1>1 DEF g
  <2>2. d = [c EXCEPT !.A = v, !.P = Q]
    BY <2>1, Zenon DEF Loaded
  <2>3. f = [g EXCEPT !.A = v, !.P = Q]
    BY <2>1, Zenon DEF FlatLoaded
  <2>4. /\ d.A = v /\ d.X = c.X /\ d.Y = c.Y /\ d.D = c.D /\ d.sp = c.sp
        /\ d.DB = c.DB /\ d.P = Q /\ d.pb = c.pb /\ d.pc = c.pc
    BY <2>2 DEF Processors
  <2>. QED BY <1>0, <2>3, <2>4
<1>2. CASE reg = "X"
  <2>1. d = Loaded(c, "X", v, Q) /\ f = FlatLoaded(g, "X", v, Q)
    BY <1>2 DEF g
  <2>2. d = [c EXCEPT !.X = v, !.P = Q]
    BY <2>1, Zenon DEF Loaded
  <2>3. f = [g EXCEPT !.X = v, !.P = Q]
    BY <2>1, Zenon DEF FlatLoaded
  <2>4. /\ d.X = v /\ d.A = c.A /\ d.Y = c.Y /\ d.D = c.D /\ d.sp = c.sp
        /\ d.DB = c.DB /\ d.P = Q /\ d.pb = c.pb /\ d.pc = c.pc
    BY <2>2 DEF Processors
  <2>. QED BY <1>0, <2>3, <2>4
<1>3. CASE reg = "Y"
  <2>1. d = Loaded(c, "Y", v, Q) /\ f = FlatLoaded(g, "Y", v, Q)
    BY <1>3 DEF g
  <2>2. d = [c EXCEPT !.Y = v, !.P = Q]
    BY <2>1, Zenon DEF Loaded
  <2>3. f = [g EXCEPT !.Y = v, !.P = Q]
    BY <2>1, Zenon DEF FlatLoaded
  <2>4. /\ d.Y = v /\ d.A = c.A /\ d.X = c.X /\ d.D = c.D /\ d.sp = c.sp
        /\ d.DB = c.DB /\ d.P = Q /\ d.pb = c.pb /\ d.pc = c.pc
    BY <2>2 DEF Processors
  <2>. QED BY <1>0, <2>3, <2>4
<1>. QED BY <1>1, <1>2, <1>3

LEMMA FlatLoadedIs ==
  ASSUME NEW reg, NEW v, NEW Q
  PROVE  [FlatRegisters EXCEPT ![reg] = v, !.P = Q] =
           FlatLoaded(FlatRegisters, reg, v, Q)
BY DEF FlatLoaded

\* What FlatMachine loads, the register it makes of it, and its flags.
FlatValue(narrow, mode, n) ==
  IF narrow THEN Flat!Byte(Flat!EA(mode, n)) ELSE Flat!Word2(Flat!EA(mode, n))
FlatFilled(reg, narrow, v) ==
  IF narrow THEN (FlatRegisters[reg] \div 256) * 256 + v ELSE v
FlatSigns(narrow, v) == Flat!Signs(v, IF narrow THEN 128 ELSE 32768)

LEMMA FlatLoadOf ==
  ASSUME NEW reg, NEW narrow, NEW mode, NEW n, NEW v, NEW w, NEW Q,
         v = FlatValue(narrow, mode, n),
         w = FlatFilled(reg, narrow, v),
         Q = FlatSigns(narrow, v),
         FlatRegisters' = Flat!Go(FlatLoaded(FlatRegisters, reg, w, Q),
                                  Flat!Size(mode)),
         FlatBytes' = FlatBytes
  PROVE  Flat!FlatLoad(reg, narrow, mode, n)
<1> DEFINE V == FlatValue(narrow, mode, n)
           W == FlatFilled(reg, narrow, V)
           R == FlatSigns(narrow, V)
<1>1. Flat!FlatLoad(reg, narrow, mode, n) <=>
        /\ FlatRegisters' = Flat!Go([FlatRegisters EXCEPT ![reg] = W, !.P = R],
                                    Flat!Size(mode))
        /\ FlatBytes' = FlatBytes
  BY DEF Flat!FlatLoad, FlatValue, FlatFilled, FlatSigns
<1>2. [FlatRegisters EXCEPT ![reg] = W, !.P = R] =
        FlatLoaded(FlatRegisters, reg, W, R)
  BY FlatLoadedIs, Zenon
<1>3. FlatLoaded(FlatRegisters, reg, W, R) =
        FlatLoaded(FlatRegisters, reg, w, Q)
  OBVIOUS
<1>. HIDE DEF V, W, R
<1>. QED BY <1>1, <1>2, <1>3, Zenon

LEMMA FetchedInt ==
  ASSUME cpu \in Processors, Memory(mem), NEW i, Reaching(i), i.op # "JMP",
         NEW v, v = FlatFetched(i, Narrow(cpu, i.op))
  PROVE  v \in Int
BY FetchedIs, UInt8Bounds, UInt16Bounds DEF Finds

LEMMA LoadingFlat ==
  ASSUME Sound, ir # None, Plain(ir), Loading
  PROVE  Flat!FlatExecute
<1> DEFINE narrow == Narrow(cpu, ir.op)
           reg == Loads[ir.op]
           v   == FlatFetched(ir, narrow)
           w   == Filled(cpu[reg], narrow, v)
           Q   == SignZero(cpu.P, v, Modulus(narrow))
           d   == Loaded(cpu, reg, w, Q)
           f   == FlatLoaded(FlatRegisters, reg, w, Q)
<1>1. cpu \in Processors /\ Memory(mem)
  BY DEF Sound
<1>2. ir.op \in DOMAIN Loads /\ ir.op # "JMP" /\ Reaching(ir)
  <2>1. ir.op \in DOMAIN Loads /\ ir.op # "JMP" /\ ir.op \in DOMAIN ModesOf
    BY Operations DEF Loading
  <2>. QED BY <2>1, Reached
<1>3. /\ reg \in {"A", "X", "Y"}
      /\ cpu' = Advance(d, Length(ir.mode))
  <2>1. v = Fetched(BOARD, mem, AddressOf(ir), narrow)
    BY <1>1, <1>2, FetchedIs
  <2>. HIDE DEF v, narrow
  <2>. QED BY <1>1, <1>2, <2>1, LoadIs DEF Loading, Reaching, narrow
<1>4. v \in Int
  BY <1>1, <1>2, FetchedInt
<1>5. d \in Processors
  <2> DEFINE e == LoadReg(cpu, reg, narrow, v)
  <2>1. Finds(narrow, v)
    BY <1>1, <1>2, FetchedIs
  <2>2. e \in Processors /\ e = d
    BY <1>1, <1>3, <2>1, LoadRegIs
  <2>. HIDE DEF e, d
  <2>. QED BY <2>2
<1>6. FlatRegisters' = Flat!Go(f, Flat!Size(ir.mode))
  <2>1. Registers(d) = f
    BY <1>1, <1>3, LoadedFlat, RegistersAre
  <2>. HIDE DEF d, f
  <2> DEFINE n == Length(ir.mode)
  <2>2. n \in Int /\ (n - n) % 65536 = 0 /\ Flat!Size(ir.mode) = n
    BY SizesAre
  <2>. HIDE DEF n
  <2>3. Registers(Advance(d, n)) = Flat!Go(Registers(d), n)
    BY <1>5, <2>2, GoIs
  <2>4. Registers(cpu') = Registers(Advance(d, n))
    BY <1>3 DEF n
  <2>. QED BY <2>1, <2>2, <2>3, <2>4, RegistersAre
<1>7. FlatBytes' = FlatBytes
  BY BytesAre DEF Loading
<1>8. cpu[reg] = FlatRegisters[reg]
  BY <1>3 DEF FlatRegisters
<1>9. ASSUME NEW narrowFlat, narrowFlat <=> narrow
      PROVE  Flat!FlatLoad(reg, narrowFlat, ir.mode, ir.n)
  <2> DEFINE E == Flat!EA(ir.mode, ir.n)
             byte == Flat!Byte(E)
             word == Flat!Word2(E)
             old == (FlatRegisters[reg] \div 256) * 256
  <2>1. /\ v = IF narrow THEN byte ELSE word
        /\ w = IF narrow THEN old + v ELSE v
        /\ Q = SignZero(cpu.P, v, IF narrow THEN 256 ELSE 65536)
    BY <1>8 DEF FlatFetched, Filled, Modulus
  <2>2. /\ FlatValue(narrowFlat, ir.mode, ir.n)
             = IF narrowFlat THEN byte ELSE word
        /\ FlatFilled(reg, narrowFlat, v)
             = IF narrowFlat THEN old + v ELSE v
    BY DEF FlatValue, FlatFilled
  <2>. HIDE DEF v, w, Q, reg, narrow, byte, word, old
  <2>3. Q = FlatSigns(narrowFlat, v)
    BY <1>4, <1>9, <2>1, SignsAre DEF FlatSigns
  <2>4. /\ v = FlatValue(narrowFlat, ir.mode, ir.n)
        /\ w = FlatFilled(reg, narrowFlat, v)
    BY <1>9, <2>1, <2>2
  <2>. QED BY <1>6, <1>7, <2>3, <2>4, FlatLoadOf, Zenon DEF f
<1>10. CASE ir.op = "LDA"
  <2>1. Flat!NarrowA <=> narrow
    BY <1>10, FlatFlags DEF Narrow
  <2>2. reg = "A"
    BY <1>10 DEF Loads
  <2>. HIDE DEF narrow, reg
  <2>3. Flat!FlatLoad("A", Flat!NarrowA, ir.mode, ir.n)
    BY <1>9, <2>1, <2>2
  <2>. QED BY <1>10, <2>3 DEF Flat!FlatExecute
<1>11. CASE ir.op = "LDX"
  <2>1. Flat!NarrowX <=> narrow
    BY <1>11, FlatFlags DEF Narrow
  <2>2. reg = "X"
    BY <1>11 DEF Loads
  <2>. HIDE DEF narrow, reg
  <2>3. Flat!FlatLoad("X", Flat!NarrowX, ir.mode, ir.n)
    BY <1>9, <2>1, <2>2
  <2>. QED BY <1>11, <2>3 DEF Flat!FlatExecute
<1>12. CASE ir.op = "LDY"
  <2>1. Flat!NarrowX <=> narrow
    BY <1>12, FlatFlags DEF Narrow
  <2>2. reg = "Y"
    BY <1>12 DEF Loads
  <2>. HIDE DEF narrow, reg
  <2>3. Flat!FlatLoad("Y", Flat!NarrowX, ir.mode, ir.n)
    BY <1>9, <2>1, <2>2
  <2>. QED BY <1>12, <2>3 DEF Flat!FlatExecute
<1>. QED BY <1>2, <1>10, <1>11, <1>12, Operations

LEMMA WriteIs ==
  ASSUME NEW a, NEW v, NEW m, m = Stowed(mem, a, v, A8(cpu))
  PROVE  m = Flat!Write(a, v)
<1>1. \A b \in WATCHED : b \in FlatWritable <=> Kind(CellOf[b]) = "ram"
  BY DEF FlatWritable
<1>2. \A b \in WATCHED : FlatBytes[b] = Content(mem, CellOf[b])
  BY DEF FlatBytes
<1>. QED BY <1>1, <1>2, FlatFlags DEF Stowed, Flat!Write

\* Going on by the length of the instruction.
LEMMA GoOn ==
  ASSUME NEW c \in Processors, NEW mode, NEW d, d = Advance(c, Length(mode))
  PROVE  Registers(d) = Flat!Go(Registers(c), Flat!Size(mode))
<1> DEFINE n == Length(mode)
<1>1. n \in Int /\ (n - n) % 65536 = 0 /\ Flat!Size(mode) = n
  BY SizesAre
<1>2. d = Advance(c, n)
  OBVIOUS
<1>. HIDE DEF n
<1>. QED BY <1>1, <1>2, GoIs

LEMMA StoringFlat ==
  ASSUME Sound, ir # None, Plain(ir), Storing
  PROVE  Flat!FlatExecute
<1> DEFINE v == ToStore(cpu, ir.op)
           m == Stored(BOARD, mem, AddressOf(ir), A8(cpu), v)
           a == Flat!EA(ir.mode, ir.n)
<1>1. cpu \in Processors /\ Memory(mem)
  BY DEF Sound
<1>2. /\ ir.op \in Stores /\ ir.op # "JMP" /\ ir.op \notin DOMAIN Loads
      /\ Narrow(cpu, ir.op) = A8(cpu) /\ Reaching(ir)
  <2>1. ir.op \in Stores /\ ir.op # "JMP" /\ ir.op \notin DOMAIN Loads
        /\ Narrow(cpu, ir.op) = A8(cpu) /\ ir.op \in DOMAIN ModesOf
    BY Operations DEF Storing, Stores, Narrow
  <2>. QED BY <2>1, Reached
<1>3. mem' = m /\ cpu' = Advance(cpu, Length(ir.mode))
  BY <1>2 DEF Storing, Store, AddressOf
<1>4. v \in UInt16
  BY <1>1, <1>2, ToStoreIs
<1>. HIDE DEF v
<1>5. Seen(m) = Stowed(mem, a, v, A8(cpu))
  BY <1>1, <1>2, <1>4, StoreIs
<1>. HIDE DEF m, a
<1>6. FlatBytes' = Flat!Write(a, v)
  BY <1>3, <1>5, BytesAre, WriteIs
<1>7. FlatRegisters' = Flat!Go(FlatRegisters, Flat!Size(ir.mode))
  BY <1>1, <1>3, GoOn, RegistersAre
<1>8. Flat!FlatStore(v, ir.mode, ir.n)
  BY <1>6, <1>7 DEF Flat!FlatStore, a
<1>9. /\ ir.op = "STA" => v = FlatRegisters.A
      /\ ir.op = "STX" => v = FlatRegisters.X
      /\ ir.op = "STY" => v = FlatRegisters.Y
      /\ ir.op = "STZ" => v = 0
  BY <1>1, <1>2, ToStoreIs, FlatIs DEF v
<1>10. \/ ir.op = "STA" /\ v = FlatRegisters.A
       \/ ir.op = "STX" /\ v = FlatRegisters.X
       \/ ir.op = "STY" /\ v = FlatRegisters.Y
       \/ ir.op = "STZ" /\ v = 0
  BY <1>2, <1>9 DEF Stores
<1>11. \/ ir.op = "STA" /\ Flat!FlatStore(FlatRegisters.A, ir.mode, ir.n)
       \/ ir.op = "STX" /\ Flat!FlatStore(FlatRegisters.X, ir.mode, ir.n)
       \/ ir.op = "STY" /\ Flat!FlatStore(FlatRegisters.Y, ir.mode, ir.n)
       \/ ir.op = "STZ" /\ Flat!FlatStore(0, ir.mode, ir.n)
  BY <1>8, <1>10
<1>. QED BY <1>11 DEF Flat!FlatExecute

\* Only the flags of a processor changed.
Flagged(c, Q) == [c EXCEPT !.P = Q]

LEMMA FlaggedFlat ==
  ASSUME NEW c \in Processors, NEW Q
  PROVE  Registers(Flagged(c, Q)) = Flagged(Registers(c), Q)
<1> DEFINE p == c.pb * 65536 + c.pc
           d == Flagged(c, Q)
<1>1. /\ d.A = c.A /\ d.X = c.X /\ d.Y = c.Y /\ d.D = c.D /\ d.sp = c.sp
      /\ d.DB = c.DB /\ d.P = Q /\ d.pb = c.pb /\ d.pc = c.pc
  BY DEF Flagged, Processors
<1>2. Registers(c) = [A |-> c.A, X |-> c.X, Y |-> c.Y, D |-> c.D, S |-> c.sp,
                      DB |-> c.DB, P |-> c.P, PC |-> p]
  BY DEF Registers
<1>. HIDE DEF d
<1>3. Registers(d) = [A |-> c.A, X |-> c.X, Y |-> c.Y, D |-> c.D, S |-> c.sp,
                      DB |-> c.DB, P |-> Q, PC |-> p]
  BY <1>1 DEF Registers
<1>. HIDE DEF p
<1>4. Flagged(Registers(c), Q) =
        [A |-> c.A, X |-> c.X, Y |-> c.Y, D |-> c.D, S |-> c.sp,
         DB |-> c.DB, P |-> Q, PC |-> p]
  BY <1>2 DEF Flagged
<1>. QED BY <1>3, <1>4 DEF d

\* What FlatMachine counts to.
FlatCounted(by, mode, n) ==
  IF Flat!NarrowA THEN (Flat!Byte(Flat!EA(mode, n)) + by) % 256
  ELSE (Flat!Word2(Flat!EA(mode, n)) + by) % 65536

LEMMA FlatCountOf ==
  ASSUME NEW by, NEW mode, NEW n, NEW v, NEW Q,
         v = FlatCounted(by, mode, n),
         Q = FlatSigns(Flat!NarrowA, v),
         FlatBytes' = Flat!Write(Flat!EA(mode, n), v),
         FlatRegisters' = Flat!Go(Flagged(FlatRegisters, Q), Flat!Size(mode))
  PROVE  Flat!FlatCount(by, mode, n)
<1> DEFINE V == FlatCounted(by, mode, n)
           R == FlatSigns(Flat!NarrowA, V)
<1>1. Flat!FlatCount(by, mode, n) <=>
        /\ FlatBytes' = Flat!Write(Flat!EA(mode, n), V)
        /\ FlatRegisters' = Flat!Go(Flagged(FlatRegisters, R),
                                    Flat!Size(mode))
  BY DEF Flat!FlatCount, FlatCounted, FlatSigns, Flagged
<1>. QED BY <1>1, Zenon

LEMMA CountingFlat ==
  ASSUME Sound, ir # None, Plain(ir), Counting
  PROVE  Flat!FlatExecute
<1> DEFINE res == Counted(BOARD, mem, cpu, ir.op, ir.mode, ir.n)
           v   == res.r
           Q   == res.P
           m   == Stored(BOARD, mem, AddressOf(ir), A8(cpu), v)
           a   == Flat!EA(ir.mode, ir.n)
           by  == IF ir.op = "INC" THEN 1 ELSE -1
           c   == [cpu EXCEPT !.P = Q]
<1>1. cpu \in Processors /\ Memory(mem)
  BY DEF Sound
<1>2. /\ ir.op \in {"INC", "DEC"} /\ ir.op # "JMP" /\ ir.op \notin DOMAIN Loads
      /\ Narrow(cpu, ir.op) = A8(cpu) /\ Reaching(ir)
  <2>1. ir.op \in {"INC", "DEC"} /\ ir.op # "JMP" /\ ir.op \notin DOMAIN Loads
        /\ Narrow(cpu, ir.op) = A8(cpu) /\ ir.op \in DOMAIN ModesOf
    BY Operations DEF Counting, Narrow
  <2>. QED BY <2>1, Reached
<1>3. mem' = m /\ cpu' = Advance(c, Length(ir.mode))
  BY DEF Counting
<1>4. /\ v \in UInt16 /\ c \in Processors
      /\ v = IF A8(cpu) THEN (FlatFetched(ir, A8(cpu)) + by) % 256
             ELSE (FlatFetched(ir, A8(cpu)) + by) % 65536
      /\ Q = SignZero(cpu.P, v, Modulus(A8(cpu)))
  <2> DEFINE w == Fetched(BOARD, mem, AddressOf(ir), A8(cpu))
  <2>1. w = FlatFetched(ir, A8(cpu))
    BY <1>1, <1>2, FetchedIs
  <2>2. /\ v \in UInt16 /\ c \in Processors
        /\ v = IF A8(cpu) THEN (w + by) % 256 ELSE (w + by) % 65536
        /\ Q = SignZero(cpu.P, v, Modulus(A8(cpu)))
    BY <1>1, <1>2, CountIs DEF Reaching
  <2>. HIDE DEF w, v, c, Q, by
  <2>. QED BY <2>1, <2>2
<1>. HIDE DEF res
<1>5. Seen(m) = Stowed(mem, a, v, A8(cpu))
  BY <1>1, <1>2, <1>4, StoreIs
<1>6. v \in Int
  BY <1>4, UInt16Bounds
<1>7. c = Flagged(cpu, Q)
  BY DEF Flagged
<1>8. v = FlatCounted(by, ir.mode, ir.n)
  <2>. HIDE DEF by
  <2>1. v = IF A8(cpu) THEN (Flat!Byte(a) + by) % 256
            ELSE (Flat!Word2(a) + by) % 65536
    BY <1>4 DEF FlatFetched
  <2>. HIDE DEF v, a
  <2>. QED BY <2>1, FlatFlags DEF FlatCounted, a
<1>9. Q = FlatSigns(Flat!NarrowA, v)
  <2>. HIDE DEF v, Q
  <2>. QED BY <1>4, <1>6, SignsAre, FlatFlags DEF FlatSigns, Modulus
<1>. HIDE DEF m, a, c, v, Q
<1>10. FlatBytes' = Flat!Write(a, v)
  BY <1>3, <1>5, BytesAre, WriteIs
<1>11. FlatRegisters' = Flat!Go(Flagged(FlatRegisters, Q), Flat!Size(ir.mode))
  <2>1. Registers(c) = Flagged(FlatRegisters, Q)
    BY <1>1, <1>7, FlaggedFlat, RegistersAre
  <2>. QED BY <1>3, <1>4, <2>1, GoOn, RegistersAre
<1>12. Flat!FlatCount(by, ir.mode, ir.n)
  <2>. HIDE DEF by
  <2>. QED BY <1>8, <1>9, <1>10, <1>11, FlatCountOf, Zenon DEF a
<1>13. \/ ir.op = "INC" /\ Flat!FlatCount(1, ir.mode, ir.n)
       \/ ir.op = "DEC" /\ Flat!FlatCount(-1, ir.mode, ir.n)
  BY <1>2, <1>12
<1>. QED BY <1>13 DEF Flat!FlatExecute

LEMMA JumpingFlat ==
  ASSUME Sound, ir # None, Plain(ir), Jumping
  PROVE  Flat!FlatExecute
<1> DEFINE a == AddressOf(ir)
           b == IF ir.mode = "Absolute" THEN cpu.pb ELSE a.bank
           o == a.offset
           p == cpu.pb * 65536 + cpu.pc
           q == b * 65536 + o
           target == IF ir.mode = "Absolute" THEN Flat!Code(ir.n)
                     ELSE Flat!EA(ir.mode, ir.n)
<1>1. cpu \in Processors /\ Memory(mem)
  BY DEF Sound
<1>2. ir.op = "JMP" /\ Reaching(ir)
  <2>1. ir.op = "JMP" /\ ir.op \in DOMAIN ModesOf
    BY Operations DEF Jumping
  <2>. QED BY <2>1, Reached
<1>3. /\ cpu' = JMP(cpu, b, o)
      /\ b \in UInt8 /\ o \in UInt16
      /\ 65536 * b + o = target
  BY <1>1, <1>2, JumpIs, JumpFits DEF Jumping, Reaching
<1>. HIDE DEF a, b, o, target
<1>4. q = target
  BY <1>3, UInt8Bounds, UInt16Bounds
<1>. HIDE DEF q
<1>5. FlatRegisters' = [FlatRegisters EXCEPT !.PC = q]
  <2> DEFINE c == JMP(cpu, b, o)
  <2>1. /\ c.A = cpu.A /\ c.X = cpu.X /\ c.Y = cpu.Y /\ c.D = cpu.D
        /\ c.sp = cpu.sp /\ c.DB = cpu.DB /\ c.P = cpu.P /\ c.pb = b
        /\ c.pc = o
    BY <1>1 DEF JMP, Processors
  <2>. HIDE DEF c
  <2>2. Registers(c) = [A |-> cpu.A, X |-> cpu.X, Y |-> cpu.Y, D |-> cpu.D,
                        S |-> cpu.sp, DB |-> cpu.DB, P |-> cpu.P, PC |-> q]
    BY <2>1 DEF Registers, q
  <2>3. Registers(cpu) =
          [A |-> cpu.A, X |-> cpu.X, Y |-> cpu.Y, D |-> cpu.D,
           S |-> cpu.sp, DB |-> cpu.DB, P |-> cpu.P, PC |-> p]
    BY DEF Registers
  <2>. HIDE DEF p
  <2>4. [Registers(cpu) EXCEPT !.PC = q] = Registers(c)
    BY <2>2, <2>3
  <2>. QED BY <1>3, <2>4, RegistersAre DEF c
<1>6. FlatBytes' = FlatBytes
  BY BytesAre DEF Jumping
<1>7. Flat!FlatJump(ir.mode, ir.n)
  BY <1>4, <1>5, <1>6 DEF Flat!FlatJump, target
<1>. QED BY <1>2, <1>7 DEF Flat!FlatExecute

LEMMA FlatBranchOf ==
  ASSUME cpu \in Processors, NEW taken,
         NEW length \in Int, NEW distance \in Int, NEW n \in Int,
         IF taken THEN ((length + distance) - n) % 65536 = 0
         ELSE (length - n) % 65536 = 0,
         cpu' = Advance(cpu, n), mem' = mem
  PROVE  Flat!FlatBranch(taken, length, distance)
<1> DEFINE k == length + IF taken THEN distance ELSE 0
<1>1. k \in Int /\ (k - n) % 65536 = 0
  <2>1. CASE taken
    <3>1. k = length + distance
      BY <2>1
    <3>. QED BY <2>1, <3>1
  <2>2. CASE ~taken
    <3>1. k = length
      BY <2>2
    <3>. QED BY <2>2, <3>1
  <2>. QED BY <2>1, <2>2
<1>2. Flat!FlatBranch(taken, length, distance) <=>
        FlatRegisters' = Flat!Go(FlatRegisters, k) /\ FlatBytes' = FlatBytes
  BY DEF Flat!FlatBranch
<1>. HIDE DEF k
<1>3. Registers(cpu') = Flat!Go(Registers(cpu), k)
  BY <1>1, GoIs
<1>. QED BY <1>2, <1>3, RegistersAre, BytesAre

LEMMA BranchingFlat ==
  ASSUME Sound, ir # None, Branching
  PROVE  Flat!FlatExecute
<1> DEFINE n == Distance(ir)
<1>1. cpu \in Processors /\ ir \in PROGRAM
      /\ ir.op \in DOMAIN BranchFlag \cup {"BRA", "BRL"}
  BY DEF Sound, Ready, Branching
<1>2. /\ IF ir.op = "BRL" THEN ir.n \in UInt16 ELSE ir.n \in UInt8
      /\ ir.n \in Int /\ n \in Int
  BY <1>1, BrancherIs
<1>3. cpu' = Advance(cpu, n) /\ mem' = mem
  BY <1>1, BranchIs DEF Branching
<1>4. ASSUME ir.op = "BRL", NEW taken, taken
      PROVE  Flat!FlatBranch(taken, 3, ir.n)
  <2> DEFINE d == ir.n
             three == 3
  <2>1. n = 3 + d
    BY <1>4 DEF Distance
  <2>2. d \in Int /\ three \in Int /\ three = 3
    BY <1>2
  <2>. HIDE DEF n, d, three
  <2>3. IF taken THEN ((three + d) - n) % 65536 = 0
        ELSE (three - n) % 65536 = 0
    BY <1>4, <2>1, <2>2
  <2>4. Flat!FlatBranch(taken, three, d)
    BY <1>1, <1>2, <1>3, <2>2, <2>3, FlatBranchOf
  <2>. QED BY <2>4 DEF three, d
<1>5. ASSUME ir.op # "BRL", NEW taken, taken <=> Taken(cpu, ir.op)
      PROVE  Flat!FlatBranch(taken, 2, Flat!Signed(ir.n))
  <2> DEFINE d == Flat!Signed(ir.n)
  <2>1. d = IF ir.n >= 128 THEN ir.n - 256 ELSE ir.n
    BY DEF Flat!Signed
  <2>2. d \in Int
    BY <1>2, <2>1
  <2>3. n = 2 + (IF ~taken THEN 0
                 ELSE IF ir.n >= 128 THEN 65280 + ir.n ELSE ir.n)
    BY <1>5 DEF Distance
  <2>. HIDE DEF n, d
  <2>4. IF taken THEN ((2 + d) - n) % 65536 = 0 ELSE (2 - n) % 65536 = 0
    <3>1. CASE ~taken
      BY <2>3, <3>1
    <3>2. CASE taken /\ ir.n >= 128
      <4>1. d = ir.n - 256 /\ n = 2 + (65280 + ir.n)
        BY <2>1, <2>3, <3>2
      <4>. QED BY <1>2, <3>2, <4>1
    <3>3. CASE taken /\ ~(ir.n >= 128)
      <4>1. d = ir.n /\ n = 2 + ir.n
        BY <2>1, <2>3, <3>3
      <4>. QED BY <1>2, <3>3, <4>1
    <3>. QED BY <3>1, <3>2, <3>3
  <2>. QED BY <1>1, <1>2, <1>3, <2>2, <2>4, FlatBranchOf DEF d
<1>6. CASE ir.op = "BRL"
  <2>1. Flat!FlatBranch(TRUE, 3, ir.n)
    BY <1>4, <1>6, Zenon
  <2>. QED BY <1>6, <2>1 DEF Flat!FlatExecute
<1>7. CASE ir.op = "BRA"
  <2>1. TRUE <=> Taken(cpu, ir.op)
    BY <1>7, FlatFlags DEF Taken, BranchFlag, BranchIfSet
  <2>2. Flat!FlatBranch(TRUE, 2, Flat!Signed(ir.n))
    BY <1>5, <1>7, <2>1, Zenon
  <2>. QED BY <1>7, <2>2 DEF Flat!FlatExecute
<1>8. CASE ir.op = "BNE"
  <2>1. ~Flat!Has("z") <=> Taken(cpu, ir.op)
    BY <1>8, FlatFlags DEF Taken, BranchFlag, BranchIfSet
  <2>2. Flat!FlatBranch(~Flat!Has("z"), 2, Flat!Signed(ir.n))
    BY <1>5, <1>8, <2>1, Zenon
  <2>. QED BY <1>8, <2>2 DEF Flat!FlatExecute
<1>9. CASE ir.op = "BEQ"
  <2>1. Flat!Has("z") <=> Taken(cpu, ir.op)
    BY <1>9, FlatFlags DEF Taken, BranchFlag, BranchIfSet
  <2>2. Flat!FlatBranch(Flat!Has("z"), 2, Flat!Signed(ir.n))
    BY <1>5, <1>9, <2>1, Zenon
  <2>. QED BY <1>9, <2>2 DEF Flat!FlatExecute
<1>10. CASE ir.op = "BCC"
  <2>1. ~Flat!Has("c") <=> Taken(cpu, ir.op)
    BY <1>10, FlatFlags DEF Taken, BranchFlag, BranchIfSet
  <2>2. Flat!FlatBranch(~Flat!Has("c"), 2, Flat!Signed(ir.n))
    BY <1>5, <1>10, <2>1, Zenon
  <2>. QED BY <1>10, <2>2 DEF Flat!FlatExecute
<1>11. CASE ir.op = "BCS"
  <2>1. Flat!Has("c") <=> Taken(cpu, ir.op)
    BY <1>11, FlatFlags DEF Taken, BranchFlag, BranchIfSet
  <2>2. Flat!FlatBranch(Flat!Has("c"), 2, Flat!Signed(ir.n))
    BY <1>5, <1>11, <2>1, Zenon
  <2>. QED BY <1>11, <2>2 DEF Flat!FlatExecute
<1>12. CASE ir.op = "BPL"
  <2>1. ~Flat!Has("n") <=> Taken(cpu, ir.op)
    BY <1>12, FlatFlags DEF Taken, BranchFlag, BranchIfSet
  <2>2. Flat!FlatBranch(~Flat!Has("n"), 2, Flat!Signed(ir.n))
    BY <1>5, <1>12, <2>1, Zenon
  <2>. QED BY <1>12, <2>2 DEF Flat!FlatExecute
<1>13. CASE ir.op = "BMI"
  <2>1. Flat!Has("n") <=> Taken(cpu, ir.op)
    BY <1>13, FlatFlags DEF Taken, BranchFlag, BranchIfSet
  <2>2. Flat!FlatBranch(Flat!Has("n"), 2, Flat!Signed(ir.n))
    BY <1>5, <1>13, <2>1, Zenon
  <2>. QED BY <1>13, <2>2 DEF Flat!FlatExecute
<1>14. CASE ir.op = "BVC"
  <2>1. ~Flat!Has("v") <=> Taken(cpu, ir.op)
    BY <1>14, FlatFlags DEF Taken, BranchFlag, BranchIfSet
  <2>2. Flat!FlatBranch(~Flat!Has("v"), 2, Flat!Signed(ir.n))
    BY <1>5, <1>14, <2>1, Zenon
  <2>. QED BY <1>14, <2>2 DEF Flat!FlatExecute
<1>15. CASE ir.op = "BVS"
  <2>1. Flat!Has("v") <=> Taken(cpu, ir.op)
    BY <1>15, FlatFlags DEF Taken, BranchFlag, BranchIfSet
  <2>2. Flat!FlatBranch(Flat!Has("v"), 2, Flat!Signed(ir.n))
    BY <1>5, <1>15, <2>1, Zenon
  <2>. QED BY <1>15, <2>2 DEF Flat!FlatExecute
<1>. QED
  BY <1>1, <1>6, <1>7, <1>8, <1>9, <1>10, <1>11, <1>12, <1>13,
     <1>14, <1>15, Operations DEF Branches

\* Where FlatMachine moves the k-th byte from or to, which bytes of a block
\* come to b, and what it leaves behind.
FlatAt(bank, first, by, k) == bank * 65536 + ((first + by * k) % 65536)
Coming(by, to, b) ==
  {k \in 0..MovedBytes(cpu)-1 : FlatAt(to, FlatRegisters.Y, by, k) = b}
FlatMoved(by, to, from) ==
  [b \in WATCHED |->
     IF b \in FlatWritable /\ Coming(by, to, b) # {}
     THEN Flat!Byte(FlatAt(from, FlatRegisters.X, by,
                           CHOOSE k \in Coming(by, to, b) : TRUE))
     ELSE FlatBytes[b]]

LEMMA FlatMoveOf ==
  ASSUME NEW by, NEW to, NEW from,
         FlatBytes' = FlatMoved(by, to, from),
         FlatRegisters' = Flat!Go(Emptied(FlatRegisters, 65535, to), 3)
  PROVE  Flat!FlatMove(by, to, from)
<1>1. MovedBytes(cpu) = (FlatRegisters.A + 1) % 65536
  BY FlatIs DEF MovedBytes
<1>. QED
  BY <1>1 DEF Flat!FlatMove, FlatMoved, Coming, FlatAt, Emptied, Flat!Bank0

LEMMA EmptiedFlat ==
  ASSUME NEW c \in Processors, NEW v \in UInt16, NEW b \in UInt8
  PROVE  Registers(Emptied(c, v, b)) = Emptied(Registers(c), v, b)
<1> DEFINE p == c.pb * 65536 + c.pc
           d == Emptied(c, v, b)
<1>1. /\ d.A = v /\ d.X = c.X /\ d.Y = c.Y /\ d.D = c.D /\ d.sp = c.sp
      /\ d.DB = b /\ d.P = c.P /\ d.pb = c.pb /\ d.pc = c.pc
  BY DEF Emptied, Processors
<1>2. Registers(c) = [A |-> c.A, X |-> c.X, Y |-> c.Y, D |-> c.D, S |-> c.sp,
                      DB |-> c.DB, P |-> c.P, PC |-> p]
  BY DEF Registers
<1>. HIDE DEF d
<1>3. Registers(d) = [A |-> v, X |-> c.X, Y |-> c.Y, D |-> c.D, S |-> c.sp,
                      DB |-> b, P |-> c.P, PC |-> p]
  BY <1>1 DEF Registers
<1>. HIDE DEF p
<1> DEFINE g == Registers(c)
           f == Emptied(g, v, b)
<1>4. f = [g EXCEPT !.A = v, !.DB = b]
  BY DEF Emptied
<1>5. g = [A |-> c.A, X |-> c.X, Y |-> c.Y, D |-> c.D, S |-> c.sp,
           DB |-> c.DB, P |-> c.P, PC |-> p]
  BY <1>2
<1>. HIDE DEF f, g
<1>6. f = [A |-> v, X |-> c.X, Y |-> c.Y, D |-> c.D, S |-> c.sp,
           DB |-> b, P |-> c.P, PC |-> p]
  BY <1>4, <1>5
<1>. QED BY <1>3, <1>6 DEF d, f, g

\* Once all bytes have arrived, memory is as FlatMachine has moved it.
LEMMA ArrivedFlat ==
  ASSUME cpu \in Processors, Memory(mem), NEW i \in PROGRAM,
         i.op \in Movers, Followed(i), Ahead(i),
         NEW m, Arrived(i, m, MovedBytes(cpu))
  PROVE  Seen(m) = FlatMoved(By(i), MoveTarget(i), MoveSource(i))
<1> DEFINE by   == By(i)
           to   == MoveTarget(i)
           from == MoveSource(i)
           those(b) == Coming(by, to, b)
<1>1. \A b \in WATCHED : b \in FlatWritable <=> Kind(CellOf[b]) = "ram"
  BY DEF FlatWritable
<1>2. \A b \in WATCHED : FlatBytes[b] = Content(mem, CellOf[b])
  BY DEF FlatBytes
<1>3. ASSUME NEW k \in 0..MovedBytes(cpu)-1
      PROVE  /\ Absolute(ToAt(i, k)) = FlatAt(to, FlatRegisters.Y, by, k)
             /\ Absolute(FromAt(i, k)) = FlatAt(from, FlatRegisters.X, by, k)
  BY MoveAddresses, FlatIs DEF FlatAt
<1>. HIDE DEF by, to, from
<1>4. ASSUME NEW b \in WATCHED
      PROVE  Content(m, CellOf[b]) =
               IF b \in FlatWritable /\ those(b) # {}
               THEN Flat!Byte(FlatAt(from, FlatRegisters.X, by,
                                     CHOOSE k \in those(b) : TRUE))
               ELSE FlatBytes[b]
  <2>1. CASE b \in FlatWritable /\ those(b) # {}
    <3> DEFINE k == CHOOSE j \in those(b) : TRUE
    <3>1. k \in those(b)
      BY <2>1
    <3>. HIDE DEF k
    <3>2. k \in 0..MovedBytes(cpu)-1 /\ FlatAt(to, FlatRegisters.Y, by, k) = b
      BY <3>1 DEF Coming
    <3>3. Absolute(ToAt(i, k)) = b
      BY <1>3, <3>2
    <3>4. Content(m, CellOf[b]) = ByteAt(mem, Absolute(FromAt(i, k)))
      BY <1>1, <2>1, <3>2, <3>3 DEF Arrived
    <3>5. Content(m, CellOf[b]) =
            Flat!Byte(FlatAt(from, FlatRegisters.X, by, k))
      BY <1>3, <3>2, <3>4, FlatReads
    <3>. QED BY <2>1, <3>5 DEF k
  <2>2. CASE ~(b \in FlatWritable /\ those(b) # {})
    <3>1. \/ Kind(CellOf[b]) # "ram"
          \/ \A k \in 0..MovedBytes(cpu)-1 : Absolute(ToAt(i, k)) # b
      BY <1>1, <1>3, <2>2 DEF Coming
    <3>2. Content(m, CellOf[b]) = Content(mem, CellOf[b])
      BY <3>1 DEF Arrived
    <3>. QED BY <1>2, <2>2, <3>2
  <2>. QED BY <2>1, <2>2
<1>5. Seen(m) = [b \in WATCHED |-> Content(m, CellOf[b])]
  BY DEF Seen
<1>. QED BY <1>4, <1>5 DEF FlatMoved, by, to, from

LEMMA MovingFlat ==
  ASSUME Sound, ir # None, Plain(ir), Moving
  PROVE  Flat!FlatExecute
<1> DEFINE by   == By(ir)
           to   == MoveTarget(ir)
           from == MoveSource(ir)
           m    == MoveBytes(BOARD, mem, cpu, to, from, by)
<1>1. cpu \in Processors /\ Memory(mem)
  BY DEF Sound
<1>2. ir \in PROGRAM /\ ir.op \in Movers /\ Followed(ir) /\ Ahead(ir)
  BY DEF Sound, Ready, Moving, Movers, Plain
<1>3. to \in UInt8 /\ 65535 \in UInt16
  BY <1>2, MoverIs, UInt16Bounds
<1>4. mem' = m /\ cpu' = Moved(cpu, to)
  BY DEF Moving
<1>5. Arrived(ir, m, MovedBytes(cpu))
  BY <1>1, <1>2, AllArrived
<1>. HIDE DEF m
<1>6. Seen(m) = FlatMoved(by, to, from)
  BY <1>1, <1>2, <1>5, ArrivedFlat
<1>7. FlatBytes' = FlatMoved(by, to, from)
  BY <1>4, <1>6, BytesAre
<1>. HIDE DEF by, to, from
<1>8. FlatRegisters' = Flat!Go(Emptied(FlatRegisters, 65535, to), 3)
  <2> DEFINE c == Emptied(cpu, 65535, to)
  <2>1. c \in Processors /\ cpu' = Advance(c, 3)
    BY <1>1, <1>3, <1>4, MovedProcessor
  <2>2. Registers(c) = Emptied(FlatRegisters, 65535, to)
    BY <1>1, <1>3, EmptiedFlat, RegistersAre
  <2>. HIDE DEF c
  <2>3. 3 \in Int /\ (3 - 3) % 65536 = 0
    OBVIOUS
  <2>4. Registers(Advance(c, 3)) = Flat!Go(Registers(c), 3)
    BY <2>1, <2>3, GoIs
  <2>. QED BY <2>1, <2>2, <2>4, RegistersAre
<1>9. Flat!FlatMove(by, to, from)
  BY <1>7, <1>8, FlatMoveOf
<1>10. to = ir.n % 256 /\ from = ir.n \div 256
  BY DEF to, from, MoveTarget, MoveSource
<1>11. CASE ir.op = "MVN"
  <2>1. by = 1
    BY <1>11 DEF by, By
  <2>2. Flat!FlatMove(1, ir.n % 256, ir.n \div 256)
    BY <1>9, <1>10, <2>1
  <2>. QED BY <1>11, <2>2 DEF Flat!FlatExecute
<1>12. CASE ir.op = "MVP"
  <2>1. by = -1
    BY <1>12 DEF by, By
  <2>2. Flat!FlatMove(-1, ir.n % 256, ir.n \div 256)
    BY <1>9, <1>10, <2>1
  <2>. QED BY <1>12, <2>2 DEF Flat!FlatExecute
<1>. QED BY <1>2, <1>11, <1>12 DEF Movers

\* What the processor does with a whole access, FlatMachine does.
LEMMA StepIsFlat ==
  ASSUME Sound, [Next]_accessVars
  PROVE  [(ir = None \/ Plain(ir)) => Flat!FlatNext]_(Flat!flatVars)
<1>1. CASE Trace
  <2>1. /\ ir = None /\ ir' \in PROGRAM
        /\ FlatRegisters' = FlatRegisters /\ FlatBytes' = FlatBytes
    BY <1>1, RegistersAre, BytesAre DEF Trace
  <2>. QED BY <2>1 DEF Flat!FlatNext, Flat!None, None
<1>2. CASE Execute
  <2>. SUFFICES ASSUME ir = None \/ Plain(ir) PROVE Flat!FlatNext
    OBVIOUS
  <2>1. ir # None /\ ir' = None /\ Plain(ir)
    BY <1>2 DEF Execute
  <2>2. Flat!FlatExecute
    BY <1>2, <2>1, LoadingFlat, StoringFlat, CountingFlat, JumpingFlat,
       BranchingFlat, MovingFlat DEF Execute
  <2>. QED BY <2>1, <2>2 DEF Flat!FlatNext, Flat!None, None
<1>3. CASE UNCHANGED accessVars
  <2>1. cpu' = cpu /\ mem' = mem /\ ir' = ir
    BY <1>3 DEF accessVars
  <2>2. FlatRegisters' = FlatRegisters /\ FlatBytes' = FlatBytes
    BY <2>1, RegistersAre, BytesAre
  <2>. QED BY <2>1, <2>2 DEF Flat!flatVars
<1>. QED BY <1>1, <1>2, <1>3 DEF Next

LEMMA InitIsFlat == Init => Flat!FlatInit
<1>. SUFFICES ASSUME Init PROVE Flat!FlatInit
  OBVIOUS
<1>1. Memory(mem)
  BY InitSound DEF Sound
<1>2. \A b \in WATCHED : Content(mem, CellOf[b]) \in UInt8
  BY <1>1, ContentFits
<1>3. UInt8 = 0..255
  BY DEF UInt8, UINT8_MAX
<1>. QED BY <1>2, <1>3 DEF Flat!FlatInit, FlatBytes, Init, None, Flat!None

\* A program sees the flat memory of FlatMachine: through any sequence of
\* loads, stores, counts, jumps, branches and block moves on the board of
\* main.cpp, in any mode, every step of the processor is the one that the sums
\* of that machine make, unless its access or its pointer does not lie in one
\* device and one bank or its block move overwrites what it has yet to read;
\* and no such step keeps a later one from being that of the machine again.
THEOREM SeesFlatMemory == Spec => FlatSpec
<1>1. Init => Flat!FlatInit
  BY InitIsFlat
<1>2. Sound /\ [Next]_accessVars =>
        [(ir = None \/ Plain(ir)) => Flat!FlatNext]_(Flat!flatVars)
  BY StepIsFlat
<1>. QED BY <1>1, <1>2, AlwaysSound, PTL DEF Spec, FlatSpec

=============================================================================
