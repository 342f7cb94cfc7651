---------------------------------- MODULE Mips ----------------------------------
(***************************************************************************)
(* The simulated processor: Machine::Run and OneInstruction, with delayed  *)
(* loads, what an interrupt and an exception do to them, and the system    *)
(* calls that return (machine/mipssim.cc, machine.cc, interrupt.cc).       *)
(*                                                                         *)
(* The registers are held as unsigned words; where the code computes on    *)
(* signed ones, Signed and Word convert.  The build defines SIM_FIX.       *)
(***************************************************************************)
EXTENDS MipsWords

CONSTANTS
  Programs,    \* the programs
  DataAddress, \* the first address of their data, after their code
  DataSets     \* what their data may be: sequences of bytes

\* Programs are assembled, and their data are whole words within the memory.
ASSUME ProgramsAssumption ==
  /\ \A p \in Programs : \A i \in DOMAIN p : IsInstruction(p[i]) /\ 4 * i <= DataAddress
  /\ DataAddress \in Nat /\ DataAddress % 4 = 0
  /\ \A bytes \in DataSets :
       /\ bytes \in Seq(0 .. Bytes(1) - 1) /\ Len(bytes) % 4 = 0 /\ bytes # <<>>
       /\ DataAddress + Len(bytes) <= Bytes(4)

VARIABLES
  program,   \* the instructions in memory
  mem,       \* the data in memory
  regs,      \* Machine::registers, 0 to 31
  hi, lo,    \* HiReg, LoReg
  pc, nextPC, \* PCReg, NextPCReg
  loadReg, loadValue, \* LoadReg, LoadValueReg
  status     \* running, or how the program ended

vars == <<program, mem, regs, hi, lo, pc, nextPC, loadReg, loadValue, status>>
hilo == <<hi, lo>>

Init ==
  /\ program \in Programs
  /\ \E bytes \in DataSets :
       mem = [a \in DataAddress .. DataAddress + Len(bytes) - 1 |-> bytes[a - DataAddress + 1]]
  /\ regs = [r \in Registers |-> 0]
  /\ hi = 0 /\ lo = 0 /\ pc = 0 /\ nextPC = 4
  /\ loadReg = 0 /\ loadValue = 0
  /\ status = "running"

\* opTable and specialTable.
Unimplemented == (16 .. 19) \cup (48 .. 51) \cup (56 .. 59)
opTable(op) ==
  CASE op \in 2 .. 15 -> <<"J", "JAL", "BEQ", "BNE", "BLEZ", "BGTZ", "ADDI", "ADDIU", "SLTI",
                           "SLTIU", "ANDI", "ORI", "XORI", "LUI">>[op - 1]
    [] op \in 32 .. 38 -> <<"LB", "LH", "LWL", "LW", "LBU", "LHU", "LWR">>[op - 31]
    [] op \in 40 .. 43 -> <<"SB", "SH", "SWL", "SW">>[op - 39]
    [] op = 46 -> "SWR"
    [] op = 0 -> "SPECIAL"
    [] op = 1 -> "BCOND"
    [] OTHER -> IF op \in Unimplemented THEN "UNIMP" ELSE "RES"

specialTable(funct) ==
  CASE funct \in 0 .. 13 -> <<"SLL", "RES", "SRL", "SRA", "SLLV", "RES", "SRLV", "SRAV", "JR",
                              "JALR", "RES", "RES", "SYSCALL", "UNIMP">>[funct + 1]
    [] funct \in 16 .. 19 -> <<"MFHI", "MTHI", "MFLO", "MTLO">>[funct - 15]
    [] funct \in 24 .. 27 -> <<"MULT", "MULTU", "DIV", "DIVU">>[funct - 23]
    [] funct \in 32 .. 39 -> <<"ADD", "ADDU", "SUB", "SUBU", "AND", "OR", "XOR", "NOR">>[funct - 31]
    [] funct \in 42 .. 43 -> <<"SLT", "SLTU">>[funct - 41]
    [] OTHER -> "RES"

\* Instruction::Decode: the immediates are extended by their sign.
Decode(value) ==
  LET opCode == opTable(value.op) IN
  [rs |-> value.rs, rt |-> value.rt, rd |-> value.rd,
   extra |-> CASE opCode = "SPECIAL" -> value.shamt
               [] opCode \in {"J", "JAL"} -> value.target
               [] OTHER -> Word(SignedOf(value.imm, 2)),
   opCode |->
     CASE opCode = "SPECIAL" -> specialTable(value.funct)
       [] opCode = "BCOND" -> (CASE value.rt = 0 -> "BLTZ" [] value.rt = 1 -> "BGEZ"
                                 [] value.rt = 16 -> "BLTZAL" [] value.rt = 17 -> "BGEZAL"
                                 [] OTHER -> "UNIMP")
       [] OTHER -> opCode]

Running == status = "running"
Fetches == Running /\ pc % 4 = 0 /\ pc \div 4 + 1 \in DOMAIN program
current == program[pc \div 4 + 1]
instr == Decode(Encode(current))
Rs == regs[instr.rs]
Rt == regs[instr.rt]

\* Mutant of DelayedLoad: the load that is done stays pending until the next one.
DelayedLoadAgain(registers, nextReg, nextValue) ==
  /\ regs' = [registers EXCEPT ![loadReg] = loadValue, ![0] = 0]
  /\ loadReg' = IF nextReg = 0 THEN loadReg ELSE nextReg
  /\ loadValue' = IF nextReg = 0 THEN loadValue ELSE nextValue

\* Machine::DelayedLoad, on registers that the instruction may have changed.
DelayedLoad(registers, nextReg, nextValue) ==
  /\ regs' = [registers EXCEPT ![loadReg] = loadValue, ![0] = 0]
  /\ loadReg' = nextReg
  /\ loadValue' = nextValue

\* The end of OneInstruction.
Retire(registers, nextReg, nextValue, pcAfter) ==
  /\ DelayedLoad(registers, nextReg, nextValue)
  /\ pc' = nextPC /\ nextPC' = pcAfter
  /\ UNCHANGED <<program, status>>

pcAfter0 == Word(nextPC + 4)
RetireWith(r, v) == Retire([regs EXCEPT ![r] = v], 0, 0, pcAfter0)

\* Machine::RaiseException and the handler's end without a way back: it names an
\* unexpected exception, and ASSERTNOTREACHED.
RaiseException(which) ==
  /\ DelayedLoad(regs, 0, 0)
  /\ status' = which
  /\ UNCHANGED <<program, mem, hi, lo, pc, nextPC>>

---------------------------------------------------------------------------------
\* Operations on registers.
SIGN_BIT == Bytes(4) \div 2
SameSign(v, w) == And(Xor(v, w), SIGN_BIT) = 0

\* >> on a signed int.
Shifted(w, n) == Word(Signed(w) \div Power2[n])
ShiftMask == WordBits - 1
Low16(w) == Lower(w, 2)

\* The value computed, but for the overflow of ADD, ADDI and SUB.
Result ==
  LET extra == instr.extra IN
  CASE instr.opCode \in {"ADD", "ADDU"} -> Word(Rs + Rt)
    [] instr.opCode \in {"ADDI", "ADDIU"} -> Word(Rs + extra)
    [] instr.opCode \in {"SUB", "SUBU"} -> Word(Rs - Rt)
    [] instr.opCode = "AND" -> And(Rs, Rt)
    [] instr.opCode = "OR" -> Or(Rs, Rt)
    [] instr.opCode = "XOR" -> Xor(Rs, Rt)
    [] instr.opCode = "NOR" -> Bytes(4) - 1 - Or(Rs, Rt)
    [] instr.opCode = "ANDI" -> And(Rs, Low16(extra))
    [] instr.opCode = "ORI" -> Or(Rs, Low16(extra))
    [] instr.opCode = "XORI" -> Xor(Rs, Low16(extra))
    [] instr.opCode = "LUI" -> Word(extra * Bytes(2))
    [] instr.opCode = "SLT" -> IF Signed(Rs) < Signed(Rt) THEN 1 ELSE 0
    [] instr.opCode = "SLTI" -> IF Signed(Rs) < Signed(extra) THEN 1 ELSE 0
    [] instr.opCode = "SLTU" -> IF Rs < Rt THEN 1 ELSE 0
    [] instr.opCode = "SLTIU" -> IF Rs < extra THEN 1 ELSE 0
    [] instr.opCode = "SLL" -> Word(Rt * Power2[extra])
    [] instr.opCode = "SLLV" -> Word(Rt * Power2[And(Rs, ShiftMask)])
    [] instr.opCode \in {"SRA", "SRL"} -> Shifted(Rt, extra)
    [] instr.opCode \in {"SRAV", "SRLV"} -> Shifted(Rt, And(Rs, ShiftMask))
    [] instr.opCode = "MFHI" -> hi
    [] instr.opCode = "MFLO" -> lo

IntoRt == {"ADDI", "ADDIU", "ANDI", "ORI", "XORI", "LUI", "SLTI", "SLTIU"}
IntoRd == {"ADD", "ADDU", "SUB", "SUBU", "AND", "OR", "XOR", "NOR", "SLT", "SLTU", "SLL", "SLLV",
           "SRL", "SRLV", "SRA", "SRAV", "MFHI", "MFLO"}

\* The tests of the signs.
Overflow ==
  CASE instr.opCode = "ADD" -> SameSign(Rs, Rt) /\ ~SameSign(Rs, Result)
    [] instr.opCode = "ADDI" -> SameSign(Rs, instr.extra) /\ ~SameSign(instr.extra, Result)
    [] instr.opCode = "SUB" -> ~SameSign(Rs, Rt) /\ ~SameSign(Rs, Result)
    [] OTHER -> FALSE

Compute ==
  /\ Fetches /\ instr.opCode \in IntoRt \cup IntoRd /\ ~Overflow
  /\ RetireWith(IF instr.opCode \in IntoRt THEN instr.rt ELSE instr.rd, Result)
  /\ UNCHANGED <<mem, hi, lo>>

OverflowException ==
  Fetches /\ instr.opCode \in {"ADD", "ADDI", "SUB"} /\ Overflow /\ RaiseException("overflow")

IllegalInstruction ==
  Fetches /\ instr.opCode \in {"RES", "UNIMP"} /\ RaiseException("illegal instruction")

MoveToHiLo ==
  /\ Fetches /\ instr.opCode \in {"MTHI", "MTLO"}
  /\ IF instr.opCode = "MTHI" THEN hi' = Rs /\ UNCHANGED lo ELSE lo' = Rs /\ UNCHANGED hi
  /\ Retire(regs, 0, 0, pcAfter0) /\ UNCHANGED mem

\* The loop of Mult: the bits of a from the lowest, each with b doubled as often,
\* on double words, until a has no more.
MultLoop(a, b) ==
  LET after[i \in 0 .. WordBits] ==
        IF i = 0 THEN [a |-> a, bHi |-> 0, bLo |-> b, hi |-> 0, lo |-> 0]
        ELSE LET s == after[i - 1]
                 sum == Word(s.lo + s.bLo)
                 carry == IF sum < s.bLo THEN 1 ELSE 0
             IN IF s.a = 0 THEN s
                ELSE [a |-> Shifted(s.a, 1),
                      bHi |-> Word(2 * s.bHi) + s.bLo \div SIGN_BIT, bLo |-> Word(2 * s.bLo),
                      hi |-> IF s.a % 2 = 1 THEN Word(s.hi + carry + s.bHi) ELSE s.hi,
                      lo |-> IF s.a % 2 = 1 THEN sum ELSE s.lo]
  IN after[WordBits]

\* Mutant of Mult: the carry of the negated low word is lost.
MultWithoutCarry(a, b, signedArith) ==
  LET magnitude(w) == IF signedArith /\ Negative(w) THEN Word(-w) ELSE w
      product == MultLoop(magnitude(a), magnitude(b))
  IN IF a = 0 \/ b = 0 THEN [hi |-> 0, lo |-> 0]
     ELSE IF signedArith /\ Negative(a) # Negative(b)
       THEN [lo |-> Word(-product.lo), hi |-> Bytes(4) - 1 - product.hi]
       ELSE [lo |-> product.lo, hi |-> product.hi]

\* Mult: the signs apart, and the double word negated if they differ.
Mult(a, b, signedArith) ==
  LET magnitude(w) == IF signedArith /\ Negative(w) THEN Word(-w) ELSE w
      product == MultLoop(magnitude(a), magnitude(b))
      negated == Word(-product.lo)
      carry == IF negated = 0 THEN 1 ELSE 0
  IN IF a = 0 \/ b = 0 THEN [hi |-> 0, lo |-> 0]
     ELSE IF signedArith /\ Negative(a) # Negative(b)
       THEN [lo |-> negated, hi |-> Word(Bytes(4) - 1 - product.hi + carry)]
       ELSE [lo |-> product.lo, hi |-> product.hi]

Multiply ==
  /\ Fetches /\ instr.opCode \in {"MULT", "MULTU"}
  /\ LET product == Mult(Rs, Rt, instr.opCode = "MULT")
     IN hi' = product.hi /\ lo' = product.lo
  /\ Retire(regs, 0, 0, pcAfter0) /\ UNCHANGED mem

\* C divides to zero; the least integer by -1 traps in the host.
Quotient(n, d) ==
  LET q == (IF n < 0 THEN -n ELSE n) \div (IF d < 0 THEN -d ELSE d)
  IN IF (n < 0) = (d < 0) THEN q ELSE -q

Traps == instr.opCode = "DIV" /\ Signed(Rs) = Least /\ Signed(Rt) = -1

Divide ==
  /\ Fetches /\ instr.opCode \in {"DIV", "DIVU"} /\ ~Traps
  /\ LET n == IF instr.opCode = "DIV" THEN Signed(Rs) ELSE Rs
         d == IF instr.opCode = "DIV" THEN Signed(Rt) ELSE Rt
     IN IF d = 0 THEN lo' = 0 /\ hi' = 0
        ELSE lo' = Word(Quotient(n, d)) /\ hi' = Word(n - d * Quotient(n, d))
  /\ Retire(regs, 0, 0, pcAfter0) /\ UNCHANGED mem

HostTrap ==
  Fetches /\ Traps /\ status' = "host trap"
  /\ UNCHANGED <<program, mem, regs, hi, lo, pc, nextPC, loadReg, loadValue>>

---------------------------------------------------------------------------------
\* Branches and jumps; one that links writes its register first.
IndexToAddr(x) == 4 * x
\* The low addresses, up to the top bits that a jump keeps.
Region == Bytes(4) \div Power2[ByteBits \div 2]
RegionBits == Bytes(4) - Region
Conditional == {"BEQ", "BNE", "BGTZ", "BLEZ", "BGEZ", "BGEZAL", "BLTZ", "BLTZAL"}
Linking == {"BGEZAL", "BLTZAL", "JAL", "JALR"}
Jumps == {"J", "JAL", "JR", "JALR"}

Linked ==
  IF instr.opCode \in Linking
  THEN [regs EXCEPT ![IF instr.opCode = "JALR" THEN instr.rd ELSE 31] = pcAfter0]
  ELSE regs

Taken ==
  LET rs == Linked[instr.rs] IN
  CASE instr.opCode = "BEQ" -> rs = Rt
    [] instr.opCode = "BNE" -> rs # Rt
    [] instr.opCode = "BGTZ" -> Signed(rs) > 0
    [] instr.opCode = "BLEZ" -> Signed(rs) <= 0
    [] instr.opCode \in {"BGEZ", "BGEZAL"} -> And(rs, SIGN_BIT) = 0
    [] instr.opCode \in {"BLTZ", "BLTZAL"} -> And(rs, SIGN_BIT) # 0

Branch ==
  /\ Fetches /\ instr.opCode \in Conditional
  /\ Retire(Linked, 0, 0,
            IF Taken THEN Word(nextPC + IndexToAddr(instr.extra)) ELSE pcAfter0)
  /\ UNCHANGED <<mem, hi, lo>>

Jump ==
  /\ Fetches /\ instr.opCode \in Jumps
  /\ Retire(Linked, 0, 0,
            IF instr.opCode \in {"J", "JAL"}
            THEN Or(And(pcAfter0, RegionBits), IndexToAddr(instr.extra)) ELSE Linked[instr.rs])
  /\ UNCHANGED <<mem, hi, lo>>

---------------------------------------------------------------------------------
\* Memory.  ReadMem and WriteMem are of n bytes at addr, the lowest first; an
\* address that is not a multiple of n, or is past the memory, is an exception.
Past(addr) == \A a \in DOMAIN mem : a < addr
Accessible(addr, n) == addr % n = 0 /\ addr \in DOMAIN mem
Faults(addr, n) == addr % n # 0 \/ Past(addr)
ReadMem(addr, n) ==
  CASE n = 1 -> mem[addr]
    [] n = 2 -> mem[addr] + mem[addr + 1] * Bytes(1)
    [] n = 4 -> mem[addr] + mem[addr + 1] * Bytes(1) + mem[addr + 2] * Bytes(2) + mem[addr + 3] * Bytes(3)
WriteMem(addr, n, v) ==
  mem' = [a \in DOMAIN mem |->
            IF a \in addr .. addr + n - 1 THEN ByteOf(v, a - addr) ELSE mem[a]]

addr0 == Word(Rs + instr.extra)
byte == addr0 % 4
Aligned == {"LB", "LBU", "LH", "LHU", "LW", "SB", "SH", "SW"}
Unaligned == {"LWL", "LWR", "SWL", "SWR"}
Stores == {"SB", "SH", "SW", "SWL", "SWR"}
Size == CASE instr.opCode \in {"LB", "LBU", "SB"} -> 1
          [] instr.opCode \in {"LH", "LHU", "SH"} -> 2
          [] OTHER -> 4
Touched == IF instr.opCode \in Unaligned THEN addr0 - byte ELSE addr0

LoadAligned ==
  /\ Fetches /\ instr.opCode \in Aligned \ {"SB", "SH", "SW"} /\ Accessible(addr0, Size)
  /\ LET value == ReadMem(addr0, Size)
     IN Retire(regs, instr.rt,
               IF instr.opCode \in {"LB", "LH"} THEN Word(SignedOf(value, Size)) ELSE value,
               pcAfter0)
  /\ UNCHANGED <<mem, hi, lo>>

\* Mutant of Previous: it does not see a load that is still pending.
PreviousInRegister == Rt

\* What LWL and LWR merge with: the register, or the load that is pending on it.
Previous == IF loadReg = instr.rt THEN loadValue ELSE Rt

\* The switch over 3 - byte.
Merged(word) ==
  IF instr.opCode = "LWL"
  THEN Lower(Previous, 3 - byte) + Word(word * Bytes(3 - byte))
  ELSE Previous - Lower(Previous, 4 - byte) + word \div Bytes(byte)

LoadUnaligned ==
  /\ Fetches /\ instr.opCode \in {"LWL", "LWR"} /\ Accessible(Touched, 4)
  /\ Retire(regs, instr.rt, Merged(ReadMem(Touched, 4)), pcAfter0)
  /\ UNCHANGED <<mem, hi, lo>>

StoreAligned ==
  /\ Fetches /\ instr.opCode \in {"SB", "SH", "SW"} /\ Accessible(addr0, Size)
  /\ WriteMem(addr0, Size, Rt)
  /\ Retire(regs, 0, 0, pcAfter0) /\ UNCHANGED hilo

StoreUnaligned ==
  /\ Fetches /\ instr.opCode \in {"SWL", "SWR"} /\ Accessible(Touched, 4)
  /\ LET value == ReadMem(Touched, 4)
     IN WriteMem(Touched, 4,
                 IF instr.opCode = "SWL" THEN value - Lower(value, byte + 1) + Rt \div Bytes(3 - byte)
                                         ELSE Lower(value, byte) + Word(Rt * Bytes(byte)))
  /\ Retire(regs, 0, 0, pcAfter0) /\ UNCHANGED hilo

AddressError ==
  /\ Fetches /\ instr.opCode \in Aligned \cup Unaligned /\ Faults(Touched, Size)
  /\ RaiseException("address error")

\* The instruction itself is read from memory, too.
FetchError == Running /\ Faults(pc, 4) /\ RaiseException("address error")

---------------------------------------------------------------------------------
\* System calls: RaiseException ends a pending load before the handler looks at
\* the registers; one that returns sets the counters itself.
AfterLoad == [regs EXCEPT ![loadReg] = loadValue, ![0] = 0]

Halt ==
  /\ Fetches /\ instr.opCode = "SYSCALL" /\ AfterLoad[2] = SC_Halt
  /\ RaiseException("halted")

Add ==
  /\ Fetches /\ instr.opCode = "SYSCALL" /\ AfterLoad[2] = SC_Add
  /\ regs' = [AfterLoad EXCEPT ![2] = Word(AfterLoad[4] + AfterLoad[5])]
  /\ loadReg' = 0 /\ loadValue' = 0
  /\ pc' = Word(pc + 4) /\ nextPC' = Word(pc + 8)
  /\ UNCHANGED <<program, mem, hi, lo, status>>

\* Interrupt::CheckIfDue, between two instructions.
CheckIfDue ==
  /\ Running /\ loadReg # 0
  /\ DelayedLoad(regs, 0, 0)
  /\ UNCHANGED <<program, mem, hi, lo, pc, nextPC, status>>

OneInstruction ==
  \/ Compute \/ OverflowException \/ IllegalInstruction \/ MoveToHiLo \/ Multiply \/ Divide
  \/ HostTrap \/ Branch \/ Jump \/ LoadAligned \/ LoadUnaligned \/ StoreAligned
  \/ StoreUnaligned \/ AddressError \/ FetchError \/ Halt \/ Add

Next == OneInstruction \/ CheckIfDue

Spec == Init /\ [][Next]_vars

---------------------------------------------------------------------------------
\* The registers, counters and memory of the simulated processor hold words and
\* bytes, and register 0 is 0.
TypeOK ==
  /\ program \in Programs
  /\ mem \in [DOMAIN mem -> 0 .. Bytes(1) - 1]
  /\ regs \in [Registers -> Words] /\ regs[0] = 0
  /\ {hi, lo, pc, nextPC, loadValue} \subseteq Words /\ loadReg \in Registers
  /\ status \in {"running", "halted", "overflow", "illegal instruction", "address error",
                 "host trap"}

\* The registers that an instruction uses before a load that is pending is done.
Uses(i) ==
  CASE i.op \in {"SYSCALL", "BREAK"} -> {}
    [] i.op \in (Aligned \cup Unaligned) \ Stores -> {i.rs}
    [] OTHER -> {i.rs, i.rt, i.rd} \cup IF i.op \in Linking \ {"JALR"} THEN {31} ELSE {}

\* What the architecture asks of a program at each step: it leaves alone the register
\* of a load in the instruction after it, but that LWL and LWR may go on with it; it
\* has no branch and no system call in a delay slot, and calls by no register that
\* the call writes.  And what this processor asks: only what is not negative is
\* shifted right with zeros, and jumps stay in the lowest region.
Obeys(i) ==
  /\ loadReg = 0 \/ loadReg \notin Uses(i)
  /\ i.op \in Conditional \cup Jumps \cup {"SYSCALL"} => nextPC = Word(pc + 4)
  /\ i.op \in Linking => i.rs # IF i.op = "JALR" THEN i.rd ELSE 31
  /\ i.op \in {"SRL", "SRLV"} => ~Negative(regs[i.rt])
  /\ i.op \in {"J", "JAL"} => pcAfter0 < Region /\ 4 * i.imm < Region

\* At each instruction that is reached the program keeps to these rules, whatever
\* interrupts came: a load is pending for one instruction and no longer, and a branch
\* is over with its delay slot (mipssim.cc:697-706, machine.cc:105).
Disciplined == Fetches => Obeys(current)

\* The simulator runs programs as the architecture says, whenever interrupts come:
\* each step computes what it should, with pending loads counted as done
\* (mipssim.cc:125, DelayedLoad at mipssim.cc:700, machine.cc:105, interrupt.cc:352).
Architecture == INSTANCE MipsArchitecture WITH regs <- AfterLoad
Implements == Architecture!Spec
===============================================================================
