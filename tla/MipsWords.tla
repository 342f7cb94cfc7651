-------------------------------- MODULE MipsWords -------------------------------
(***************************************************************************)
(* The words of the simulated MIPS (machine/mipssim.cc), four bytes of     *)
(* ByteBits bits, eight in the source, and the instructions as an          *)
(* assembler writes them and as they are encoded.                          *)
(***************************************************************************)
EXTENDS Integers, Sequences

CONSTANTS
  ByteBits,  \* bits of a byte, a power of two and at least 2
  Registers  \* the numbers of the registers that programs use

\* Powers of two.
Power2[n \in Nat] == IF n = 0 THEN 1 ELSE 2 * Power2[n - 1]

\* The registers that system calls and calls use are among those of programs.
ASSUME WordAssumption ==
  /\ ByteBits \in Nat \ {0, 1} /\ \E k \in 1 .. ByteBits : ByteBits = Power2[k]
  /\ Registers \subseteq 0 .. 31 /\ {0, 2, 4, 5, 31} \subseteq Registers

\* n bytes, and the word that holds the low bits of an integer.
Bytes(n) == Power2[ByteBits * n]
WordBits == 4 * ByteBits
Words == 0 .. Bytes(4) - 1
Word(n) == n % Bytes(4)
Lower(w, n) == w % Bytes(n)
ByteOf(w, k) == (w \div Bytes(k)) % Bytes(1)

\* The integer that a word of n bytes is when its top bit is its sign.
SignedOf(w, n) == IF w >= Bytes(n) \div 2 THEN w - Bytes(n) ELSE w
Signed(w) == SignedOf(w, 4)
Least == -(Bytes(4) \div 2)
Greatest == Bytes(4) \div 2 - 1
Negative(w) == Signed(w) < 0

\* The bits of a word, by their numbers, and the word with given bits.
Bits(w) == {k \in 0 .. WordBits - 1 : (w \div Power2[k]) % 2 = 1}
OfBits(S) ==
  LET upTo[k \in 0 .. WordBits] ==
        IF k = 0 THEN 0 ELSE upTo[k - 1] + IF k - 1 \in S THEN Power2[k - 1] ELSE 0
  IN  upTo[WordBits]
And(v, w) == OfBits(Bits(v) \cap Bits(w))
Or(v, w) == OfBits(Bits(v) \cup Bits(w))
Xor(v, w) == OfBits((Bits(v) \ Bits(w)) \cup (Bits(w) \ Bits(v)))

\* The numbers of two system calls (userprog/syscall.h).
SC_Halt == 0
SC_Add == 42

\* An instruction in assembly.  imm is an immediate, an offset, a shift amount
\* or the target of a jump, counted in instructions.
Asm(op, rd, rs, rt, imm) == [op |-> op, rd |-> rd, rs |-> rs, rt |-> rt, imm |-> imm]

\* The numbers the MIPS gives its operations: bits 31:26 (the major ones), bits
\* 5:0 (funct) of SPECIAL, and the field rt of BCOND.
Major ==
  [J |-> 2, JAL |-> 3, BEQ |-> 4, BNE |-> 5, BLEZ |-> 6, BGTZ |-> 7, ADDI |-> 8,
   ADDIU |-> 9, SLTI |-> 10, SLTIU |-> 11, ANDI |-> 12, ORI |-> 13, XORI |-> 14,
   LUI |-> 15, LB |-> 32, LH |-> 33, LWL |-> 34, LW |-> 35, LBU |-> 36, LHU |-> 37,
   LWR |-> 38, SB |-> 40, SH |-> 41, SWL |-> 42, SW |-> 43, SWR |-> 46]
Funct ==
  [SLL |-> 0, SRL |-> 2, SRA |-> 3, SLLV |-> 4, SRLV |-> 6, SRAV |-> 7, JR |-> 8,
   JALR |-> 9, SYSCALL |-> 12, BREAK |-> 13, MFHI |-> 16, MTHI |-> 17, MFLO |-> 18,
   MTLO |-> 19, MULT |-> 24, MULTU |-> 25, DIV |-> 26, DIVU |-> 27, ADD |-> 32,
   ADDU |-> 33, SUB |-> 34, SUBU |-> 35, AND |-> 36, OR |-> 37, XOR |-> 38, NOR |-> 39,
   SLT |-> 42, SLTU |-> 43]
Cond == [BLTZ |-> 0, BGEZ |-> 1, BLTZAL |-> 16, BGEZAL |-> 17]

\* What the field imm of an instruction can say: a logical operand, a shift amount,
\* the target of a jump, or an integer.
Immediates(op) ==
  CASE op \in {"ANDI", "ORI", "XORI", "LUI"} -> 0 .. Bytes(2) - 1
    [] op \in {"SLL", "SRL", "SRA"} -> {n \in 0 .. 31 : n < WordBits}
    [] op \in {"J", "JAL"} -> 0 .. Bytes(3) - 1
    [] OTHER -> -(Bytes(2) \div 2) .. Bytes(2) \div 2 - 1

Operations == DOMAIN Major \cup DOMAIN Funct \cup DOMAIN Cond
IsInstruction(i) ==
  /\ i.op \in Operations /\ {i.rd, i.rs, i.rt} \subseteq Registers
  /\ i.imm \in Immediates(i.op)

\* The encoded instruction: its fields.  The immediate lies over rd, shamt and
\* funct, and the target over all but the operation: an instruction has one.
Encode(i) ==
  LET fields(op, rt, funct) ==
        [op |-> op, rs |-> i.rs, rt |-> rt, rd |-> i.rd, shamt |-> i.imm % 32, funct |-> funct,
         imm |-> i.imm % Bytes(2), target |-> i.imm % Bytes(3)]
  IN IF i.op \in DOMAIN Major THEN fields(Major[i.op], i.rt, 0)
     ELSE IF i.op \in DOMAIN Funct THEN fields(0, i.rt, Funct[i.op])
     ELSE fields(1, Cond[i.op], 0)
===============================================================================
