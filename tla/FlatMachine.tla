---------------------------- MODULE FlatMachine ----------------------------
(***************************************************************************)
(* What the processor's addressing promises a program: memory is one array *)
(* of bytes under 24-bit addresses, and an effective address is a sum of   *)
(* numbers.  No devices, banks and offsets, decoding or order of the bytes *)
(* of an access.  Addresses reached through an index may carry into the    *)
(* next bank; the direct page and the stack lie in the first 64 kB; the    *)
(* program counter stays in its bank.                                      *)
(***************************************************************************)
EXTENDS Integers

CONSTANTS
  PROGRAM,  \* instructions [op, mode, n]
  WATCHED,  \* the addresses whose bytes are followed
  WRITABLE  \* those of them a store changes

VARIABLES
  r,  \* registers [A, X, Y, D, S, DB, P, PC]
  m,  \* the bytes of memory
  i   \* the instruction to execute next, or None

flatVars == <<r, m, i>>

None == [op |-> "none"]

Bank0(v)  == v % 65536
Flat24(v) == v % 16777216
InBank(a, v) == (a \div 65536) * 65536 + (v % 65536)

Byte(a)  == IF a \in WATCHED THEN m[a] ELSE 0
Word2(a) == Byte(a) + 256 * Byte(a + 1)
Long(a)  == Word2(a) + 65536 * Byte(a + 2)
Data(n)  == r.DB * 65536 + n
Code(n)  == InBank(r.PC, n)

Has(f)  == f \in r.P
NarrowA == Has("e") \/ Has("m")
NarrowX == Has("e") \/ Has("x")
\* The index registers as addressing uses them.
XI == IF NarrowX THEN r.X % 256 ELSE r.X
YI == IF NarrowX THEN r.Y % 256 ELSE r.Y

\* A direct-page operand; in emulation mode the D register plays no part in
\* the plain mode.
Direct(n) == Bank0(r.D + n)

EA(mode, n) ==
  CASE mode = "Absolute"                 -> Data(n)
    [] mode = "AbsoluteIndexedWithX"     -> Flat24(Data(n) + XI)
    [] mode = "AbsoluteIndexedWithY"     -> Flat24(Data(n) + YI)
    [] mode = "AbsoluteLong"             -> n
    [] mode = "AbsoluteLongIndexedWithX" -> Flat24(n + XI)
    [] mode = "DirectPage"               -> IF Has("e") THEN n ELSE Direct(n)
    [] mode = "DirectPageIndexedWithX"   -> Direct(n + XI)
    [] mode = "DirectPageIndexedWithY"   -> Direct(n + YI)
    [] mode = "DirectPageIndirect"       -> Data(Word2(Direct(n)))
    [] mode = "DirectPageIndirectLong"   -> Long(Direct(n))
    [] mode = "DirectPageIndexedIndirectWithX" -> Data(Word2(Direct(n + XI)))
    [] mode = "DirectPageIndirectIndexedWithY" ->
         Flat24(Data(Word2(Direct(n))) + YI)
    [] mode = "DirectPageIndirectLongIndexedWithY" ->
         Flat24(Long(Direct(n)) + YI)
    [] mode = "StackRelative" -> Bank0(r.S + n)
    [] mode = "StackRelativeIndirectIndexedWithY" ->
         Flat24(Data(Word2(Bank0(r.S + n))) + YI)
    [] mode = "AbsoluteIndirect"     -> Code(Word2(n))
    [] mode = "AbsoluteIndirectLong" -> Long(n)
    [] mode = "AbsoluteIndexedIndirectWithX" ->
         Code(Word2(Flat24(Code(n) + XI)))

Go(r0, length) == [r0 EXCEPT !.PC = InBank(@, @ + length)]
Size(mode) == CASE mode \in {"AbsoluteLong", "AbsoluteLongIndexedWithX"} -> 4
                [] mode \in {"Absolute", "AbsoluteIndexedWithX",
                             "AbsoluteIndexedWithY"} -> 3
                [] OTHER -> 2

Signs(v, top) == (r.P \ {"n", "z"}) \cup (IF v >= top THEN {"n"} ELSE {})
                                    \cup (IF v = 0 THEN {"z"} ELSE {})

FlatLoad(reg, narrow, mode, n) ==
  LET v == IF narrow THEN Byte(EA(mode, n)) ELSE Word2(EA(mode, n))
  IN /\ r' = Go([r EXCEPT ![reg] = IF narrow THEN (@ \div 256) * 256 + v ELSE v,
                          !.P = Signs(v, IF narrow THEN 128 ELSE 32768)],
                Size(mode))
     /\ UNCHANGED m

\* m after a store of v at a; only a writable byte changes.
Write(a, v) ==
  [b \in WATCHED |->
     IF b \notin WRITABLE THEN m[b]
     ELSE IF b = a THEN v % 256
     ELSE IF b = a + 1 /\ ~NarrowA THEN v \div 256 ELSE m[b]]

FlatStore(v, mode, n) ==
  /\ m' = Write(EA(mode, n), v)
  /\ r' = Go(r, Size(mode))

FlatCount(by, mode, n) ==
  LET a == EA(mode, n)
      v == IF NarrowA THEN (Byte(a) + by) % 256 ELSE (Word2(a) + by) % 65536
  IN /\ m' = Write(a, v)
     /\ r' = Go([r EXCEPT !.P = Signs(v, IF NarrowA THEN 128 ELSE 32768)],
                Size(mode))

FlatJump(mode, n) ==
  /\ r' = [r EXCEPT !.PC = IF mode = "Absolute" THEN Code(n) ELSE EA(mode, n)]
  /\ UNCHANGED m

FlatBranch(taken, length, distance) ==
  /\ r' = Go(r, length + IF taken THEN distance ELSE 0)
  /\ UNCHANGED m

\* All bytes at once: what was at the source before is at the destination
\* after.
FlatMove(by, to, from) ==
  LET n == (r.A + 1) % 65536
      At(bank, first, k) == bank * 65536 + Bank0(first + by * k)
  IN /\ m' = [b \in WATCHED |->
                LET those == {k \in 0..n-1 : At(to, r.Y, k) = b}
                IN IF b \in WRITABLE /\ those # {}
                   THEN Byte(At(from, r.X, CHOOSE k \in those : TRUE))
                   ELSE m[b]]
     /\ r' = Go([r EXCEPT !.A = 65535, !.DB = to], 3)

Signed(d) == IF d >= 128 THEN d - 256 ELSE d

FlatExecute ==
  \/ i.op = "LDA" /\ FlatLoad("A", NarrowA, i.mode, i.n)
  \/ i.op = "LDX" /\ FlatLoad("X", NarrowX, i.mode, i.n)
  \/ i.op = "LDY" /\ FlatLoad("Y", NarrowX, i.mode, i.n)
  \/ i.op = "STA" /\ FlatStore(r.A, i.mode, i.n)
  \/ i.op = "STX" /\ FlatStore(r.X, i.mode, i.n)
  \/ i.op = "STY" /\ FlatStore(r.Y, i.mode, i.n)
  \/ i.op = "STZ" /\ FlatStore(0, i.mode, i.n)
  \/ i.op = "INC" /\ FlatCount(1, i.mode, i.n)
  \/ i.op = "DEC" /\ FlatCount(-1, i.mode, i.n)
  \/ i.op = "JMP" /\ FlatJump(i.mode, i.n)
  \/ i.op = "BRA" /\ FlatBranch(TRUE, 2, Signed(i.n))
  \/ i.op = "BRL" /\ FlatBranch(TRUE, 3, i.n)
  \/ i.op = "BNE" /\ FlatBranch(~Has("z"), 2, Signed(i.n))
  \/ i.op = "BEQ" /\ FlatBranch(Has("z"), 2, Signed(i.n))
  \/ i.op = "BCC" /\ FlatBranch(~Has("c"), 2, Signed(i.n))
  \/ i.op = "BCS" /\ FlatBranch(Has("c"), 2, Signed(i.n))
  \/ i.op = "BPL" /\ FlatBranch(~Has("n"), 2, Signed(i.n))
  \/ i.op = "BMI" /\ FlatBranch(Has("n"), 2, Signed(i.n))
  \/ i.op = "BVC" /\ FlatBranch(~Has("v"), 2, Signed(i.n))
  \/ i.op = "BVS" /\ FlatBranch(Has("v"), 2, Signed(i.n))
  \/ i.op = "MVN" /\ FlatMove(1, i.n % 256, i.n \div 256)
  \/ i.op = "MVP" /\ FlatMove(-1, i.n % 256, i.n \div 256)

FlatInit == m \in [WATCHED -> 0..255] /\ i = None
FlatNext ==
  \/ i = None /\ i' \in PROGRAM /\ UNCHANGED <<r, m>>
  \/ i # None /\ FlatExecute /\ i' = None

FlatSpec == FlatInit /\ [][FlatNext]_flatVars
=============================================================================
