----------------------------- MODULE SystemBus -----------------------------
(***************************************************************************)
(* The system bus and the memory devices on it (SystemBus.cpp,             *)
(* SystemBusDevice.cpp, Ram.cpp, Rom.cpp).  A board is the sequence of its *)
(* devices in the order main.cpp registers them, each with the absolute    *)
(* address at which it begins and its size in bytes; for RAM that is zero  *)
(* and a whole number of banks.                                            *)
(*                                                                         *)
(* What a byte access reaches is a cell: the number of the device and the  *)
(* index that the device computes from the decoded address.  A memory is a *)
(* function on the cells whose content is known; other cells hold 0.       *)
(*                                                                         *)
(* An operator named like IncrementOffset_Carries is the one before the    *)
(* underscore with a plausible fault, against which the properties are     *)
(* tried; no other definition uses it.                                     *)
(***************************************************************************)
EXTENDS Integers, Sequences, TLC

BANK_SIZE == 65536
BANKS     == 256

Address(bank, offset) == [bank |-> bank, offset |-> offset]
Addresses == [bank : 0..BANKS-1, offset : 0..BANK_SIZE-1]

\* getAbsolute, and the index that Ram and Rom compute.
Absolute(a) == a.bank * BANK_SIZE + a.offset

\* incrementOffsetBy, newWithOffset, sumOffsetToAddressWrapAround: the bank
\* stays.
IncrementOffset_Carries(a, n) ==
  Address(a.bank + (a.offset + n) \div BANK_SIZE, (a.offset + n) % BANK_SIZE)
IncrementOffset(a, n) == Address(a.bank, (a.offset + n) % BANK_SIZE)

\* sumOffsetToAddressNoWrapAround, for n below BANK_SIZE.
SumNoWrapAround_BankStays(a, n) == IncrementOffset(a, n)
SumNoWrapAround(a, n) ==
  IF a.offset + n >= BANK_SIZE
  THEN Address((a.bank + 1) % BANKS, a.offset + n - BANK_SIZE)
  ELSE Address(a.bank, a.offset + n)

-----------------------------------------------------------------------------
\* decodeAddress: below the base the unsigned difference is larger than any
\* device.
Decodes(d, a) == Absolute(a) >= d.base /\ Absolute(a) - d.base < d.size
Decoded(d, a) ==
  LET addr == Absolute(a) - d.base
  IN Address((addr \div BANK_SIZE) % BANKS, addr % BANK_SIZE)

\* The first device that decodes the address; 0 when none does.
Serving(board, a) ==
  LET those == {i \in DOMAIN board : Decodes(board[i], a)}
  IN IF those = {} THEN 0 ELSE CHOOSE i \in those : \A j \in those : i <= j

\* The cell of a byte access, and that of the second and third byte of an
\* access to more: the same device, which is not asked to decode again.
Cell(board, a, n) ==
  LET i == Serving(board, a)
  IN IF i = 0 THEN [device |-> 0, index |-> 0]
     ELSE [device |-> i,
           index  |-> Absolute(IncrementOffset(Decoded(board[i], a), n))]

\* An index outside the device is outside its array (a UART has no registers
\* there, and ignores it).
Inside(board, cell) ==
  cell.device # 0 => cell.index < board[cell.device].size

-----------------------------------------------------------------------------
Content(mem, cell) == IF cell \in DOMAIN mem THEN mem[cell] ELSE 0

\* storeByte: a ROM ignores it, and so does the bus where no device answers.
StoreCell(board, mem, cell, v) ==
  IF cell.device # 0 /\ board[cell.device].kind = "ram"
  THEN [x \in DOMAIN mem \cup {cell} |-> IF x = cell THEN v ELSE mem[x]]
  ELSE mem

ReadByte(board, mem, a) == Content(mem, Cell(board, a, 0))
ReadTwoBytes(board, mem, a) ==
  256 * Content(mem, Cell(board, a, 1)) + Content(mem, Cell(board, a, 0))

\* Where no device answers, the last to be asked, the RAM, has left the
\* address itself in decodedAddress.
ReadAddressAt(board, mem, a) ==
  IF Serving(board, a) = 0 THEN a
  ELSE Address(Content(mem, Cell(board, a, 2)), ReadTwoBytes(board, mem, a))

StoreByte(board, mem, a, v) == StoreCell(board, mem, Cell(board, a, 0), v)
StoreTwoBytes(board, mem, a, v) ==
  StoreCell(board, StoreCell(board, mem, Cell(board, a, 0), v % 256),
       Cell(board, a, 1), v \div 256)
=============================================================================
