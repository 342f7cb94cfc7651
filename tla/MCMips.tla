---------------------------------- MODULE MCMips --------------------------------
(* Programs of a few instructions, with bytes of two bits.  Register 7 has the   *)
(* address of the data, whose first two words are loaded into registers 4 and 5. *)
EXTENDS Mips

MCRegisters == {0, 2, 4, 5, 6, 7, 8, 31}
MCDataAddress == 64

Nop == Asm("SLL", 0, 0, 0, 0)
I(op, rt, rs, imm) == Asm(op, 0, rs, rt, imm)
R(op, rd, rs, rt) == Asm(op, rd, rs, rt, 0)
Call == Asm("SYSCALL", 0, 0, 0, 0)
Base == <<I("LUI", 7, 0, 4), I("ADDIU", 8, 7, 7)>>
Operands == Base \o <<I("LW", 4, 7, 0), I("LW", 5, 7, 4), Nop>>
SumByKernel == <<I("LUI", 2, 0, 2), I("ORI", 2, 2, 10)>>
End == <<I("ADDIU", 2, 0, 0), Call>>

Computations ==
  {Operands \o <<R(op, 6, 4, 5)>> \o End :
     op \in {"ADD", "ADDU", "SUB", "SUBU", "AND", "OR", "XOR", "NOR", "SLT", "SLTU", "SLLV", "SRAV"}}
  \cup {Operands \o <<I(op, 6, 4, imm)>> \o End :
     op \in {"ADDI", "ADDIU", "SLTI", "SLTIU"}, imm \in {-8, -1, 0, 7}}
  \cup {Operands \o <<I(op, 6, 4, imm)>> \o End : op \in {"ANDI", "ORI", "XORI", "LUI"}, imm \in {5, 15}}
  \cup {Operands \o <<Asm(op, 6, 0, 4, n)>> \o End : op \in {"SLL", "SRA"}, n \in {0, 3, 7}}
  \cup {Operands \o <<R(op, 0, 4, 5), R("MFHI", 4, 0, 0), R("MFLO", 5, 0, 0)>> \o End :
     op \in {"MULT", "MULTU", "DIV", "DIVU"}}
  \cup {Operands \o <<R("MTHI", 0, 4, 0), R("MTLO", 0, 5, 0), R("MFLO", 6, 0, 0)>> \o End}

\* Right shifts with zeros, of what is not negative: the shift of a negative
\* word brings in ones, which is not what the architecture says.
LogicalShifts ==
  {Operands \o <<I("ANDI", 5, 5, 15), op>> \o End :
     op \in {Asm("SRL", 6, 0, 5, 2), R("SRLV", 6, 4, 5)}}

\* A branch over one instruction, with another in its delay slot.
Branches ==
  {Operands \o <<Asm(op, 0, 4, 5, 2), I("ADDIU", 6, 0, 1), I("ADDIU", 6, 6, 2)>> \o End : op \in Conditional}

\* Calls and returns, a loop, and loads in the delay slot of a branch, into
\* register 0, before a system call and before the end.
Procedures ==
  {<<Asm("JAL", 0, 0, 0, 5), I("ADDIU", 4, 0, 1)>> \o End \o <<Nop, R("JR", 0, 31, 0), I("ADDIU", 5, 0, 2)>>,
   <<I("ADDIU", 8, 0, 7), I("ADDIU", 8, 8, 5), R("JALR", 6, 8, 0), I("ADDIU", 4, 0, 1)>> \o End,
   <<I("ADDIU", 4, 0, 2), I("ADDIU", 4, 4, -1), Asm("BNE", 0, 4, 0, -2), I("ADDIU", 5, 5, 3)>> \o End,
   Base \o <<Asm("BEQ", 0, 0, 0, 2), I("LW", 6, 7, 0), Nop, Nop, R("ADDU", 4, 6, 6)>> \o End,
   Base \o <<I("LW", 0, 7, 0), Nop, R("ADDU", 6, 0, 0)>> \o End,
   SumByKernel \o Base \o <<I("LW", 4, 7, 0), I("LW", 5, 7, 4), Call>> \o End,
   Base \o <<I("LW", 6, 7, 0)>> \o <<Call>>,
   <<Asm("J", 0, 0, 0, 3), Nop, Asm("BREAK", 0, 0, 0, 0)>> \o End,
   <<Asm("J", 0, 0, 0, 30), Nop>>, Base \o <<R("JR", 0, 8, 0), Nop>>,
   <<Asm("BREAK", 0, 0, 0, 0)>>}

\* Loads and stores at every alignment, and of an address that is not there.
Accesses ==
  {Operands \o <<I(op, 4, 7, offset), Nop>> \o End :
     op \in Aligned \cup Unaligned, offset \in 2 .. 5}
  \cup {<<I("LUI", 7, 0, 6), I(op, 4, 7, 0)>> \o End : op \in {"LW", "SB", "SWL"}}

\* A word that lies over two is copied to the third and fourth word of the data.
Copy(from, to) ==
  Base \o <<I("LWL", 6, 7, from + 3), I("LWR", 6, 7, from), I("ADDIU", 8, 8, 1),
            I("SWL", 6, 8, to + 3), I("SWR", 6, 8, to)>> \o End
Copies == {Copy(from, to) : from, to \in 0 .. 3}

MCPrograms == Computations \cup LogicalShifts \cup Branches \cup Procedures \cup Accesses \cup Copies

Values == {0, 1, 90, 127, 128, 255}
BytesOf(w) == [k \in 1 .. 4 |-> ByteOf(w, k - 1)]
Scratch == <<3, 2, 1, 0, 2, 2, 0, 1>>
MCDataSets == {BytesOf(v) \o BytesOf(w) \o Scratch : v, w \in Values}

\* A program that copies an unaligned word with LWL and LWR, and then SWL and SWR,
\* has copied its four bytes and changed no other byte when it ends, whatever
\* interrupts came between (mipssim.cc:317, 369, 557 and 616).
CopiesWhole ==
  status = "halted" =>
    \A from, to \in 0 .. 3 : program = Copy(from, to) =>
      \A k \in 0 .. 7 :
        mem[MCDataAddress + 8 + k] =
          IF k \in to .. to + 3 THEN mem[MCDataAddress + from + k - to] ELSE Scratch[k + 1]
===============================================================================
