---------------------------- MODULE MipsArchitecture ----------------------------
(***************************************************************************)
(* What a program may expect of the processor: each instruction by what it *)
(* computes on integers, bits and bytes, and a branch delay slot.  A load  *)
(* has its result at once: a program that touches the register of a load   *)
(* in the instruction after it is not one of the architecture.  Interrupts *)
(* are not seen.                                                           *)
(***************************************************************************)
EXTENDS MipsWords

VARIABLES program, regs, hi, lo, pc, nextPC, mem, status

vars == <<program, regs, hi, lo, pc, nextPC, mem, status>>

Data == DOMAIN mem
Fetched == program[pc \div 4 + 1]

\* The operations, by what they do.
Sum == Signed(regs[Fetched.rs])
       + IF Fetched.op = "ADDI" THEN Fetched.imm ELSE Signed(regs[Fetched.rt])
Difference == Signed(regs[Fetched.rs]) - Signed(regs[Fetched.rt])
Fits(n) == n \in Least .. Greatest
Address == Word(regs[Fetched.rs] + Fetched.imm)
Truth(b) == IF b THEN 1 ELSE 0

\* A word of given bytes, from the lowest.
OfBytes(b(_)) == b(0) + b(1) * Bytes(1) + b(2) * Bytes(2) + b(3) * Bytes(3)

Shift(n) == n % WordBits
BitNumbers == 0 .. WordBits - 1
ShiftLeft(w, n) == OfBits({k \in BitNumbers : k - n \in Bits(w)})
ShiftRight(w, n, top) ==
  OfBits({k \in BitNumbers : IF k + n < WordBits THEN k + n \in Bits(w) ELSE top})

\* The value an operation on registers gives, and where.
Value ==
  LET rs == regs[Fetched.rs] rt == regs[Fetched.rt] imm == Fetched.imm IN
  CASE Fetched.op \in {"ADD", "ADDI", "ADDU"} -> Word(Sum)
    [] Fetched.op = "ADDIU" -> Word(rs + imm)
    [] Fetched.op \in {"SUB", "SUBU"} -> Word(Difference)
    [] Fetched.op = "AND" -> And(rs, rt)
    [] Fetched.op = "OR" -> Or(rs, rt)
    [] Fetched.op = "XOR" -> Xor(rs, rt)
    [] Fetched.op = "NOR" -> OfBits(BitNumbers \ (Bits(rs) \cup Bits(rt)))
    [] Fetched.op = "ANDI" -> And(rs, imm)
    [] Fetched.op = "ORI" -> Or(rs, imm)
    [] Fetched.op = "XORI" -> Xor(rs, imm)
    [] Fetched.op = "LUI" -> imm * Bytes(2)
    [] Fetched.op = "SLT" -> Truth(Signed(rs) < Signed(rt))
    [] Fetched.op = "SLTI" -> Truth(Signed(rs) < imm)
    [] Fetched.op = "SLTU" -> Truth(rs < rt)
    [] Fetched.op = "SLTIU" -> Truth(rs < Word(imm))
    [] Fetched.op = "SLL" -> ShiftLeft(rt, imm)
    [] Fetched.op = "SLLV" -> ShiftLeft(rt, Shift(rs))
    [] Fetched.op = "SRL" -> ShiftRight(rt, imm, FALSE)
    [] Fetched.op = "SRLV" -> ShiftRight(rt, Shift(rs), FALSE)
    [] Fetched.op = "SRA" -> ShiftRight(rt, imm, Negative(rt))
    [] Fetched.op = "SRAV" -> ShiftRight(rt, Shift(rs), Negative(rt))
    [] Fetched.op = "MFHI" -> hi
    [] Fetched.op = "MFLO" -> lo

Immediate == {"ADDI", "ADDIU", "ANDI", "ORI", "XORI", "LUI", "SLTI", "SLTIU"}
Computing ==
  Immediate \cup {"ADD", "ADDU", "SUB", "SUBU", "AND", "OR", "XOR", "NOR", "SLT", "SLTU", "SLL",
                  "SLLV", "SRL", "SRLV", "SRA", "SRAV", "MFHI", "MFLO"}
Overflows == \/ Fetched.op \in {"ADD", "ADDI"} /\ ~Fits(Sum)
             \/ Fetched.op = "SUB" /\ ~Fits(Difference)

Put(r, v) == regs' = [regs EXCEPT ![r] = IF r = 0 THEN 0 ELSE v]
Running == status = "running" /\ pc % 4 = 0 /\ pc \div 4 + 1 \in DOMAIN program
Advance == pc' = nextPC /\ nextPC' = Word(nextPC + 4) /\ UNCHANGED <<program, status>>

Compute ==
  /\ Running /\ Fetched.op \in Computing /\ ~Overflows
  /\ Put(IF Fetched.op \in Immediate THEN Fetched.rt ELSE Fetched.rd, Value)
  /\ Advance /\ UNCHANGED <<hi, lo, mem>>

MoveToHiLo ==
  /\ Running /\ Fetched.op \in {"MTHI", "MTLO"}
  /\ hi' = IF Fetched.op = "MTHI" THEN regs[Fetched.rs] ELSE hi
  /\ lo' = IF Fetched.op = "MTLO" THEN regs[Fetched.rs] ELSE lo
  /\ Advance /\ UNCHANGED <<regs, mem>>

Multiply ==
  /\ Running /\ Fetched.op \in {"MULT", "MULTU"}
  /\ LET product == IF Fetched.op = "MULT" THEN Signed(regs[Fetched.rs]) * Signed(regs[Fetched.rt])
                                           ELSE regs[Fetched.rs] * regs[Fetched.rt]
     IN lo' = product % Bytes(4) /\ hi' = (product \div Bytes(4)) % Bytes(4)
  /\ Advance /\ UNCHANGED <<regs, mem>>

\* The quotient that is rounded to zero and the remainder with the sign of the
\* dividend.  A division by zero may leave anything.
Divides(n, d, q, r) ==
  n = q * d + r /\ (r < 0 => n < 0) /\ (r > 0 => n > 0) /\ r \in -Greatest - 1 .. 2 * Greatest + 1
  /\ (IF r < 0 THEN -r ELSE r) < (IF d < 0 THEN -d ELSE d)

Divide ==
  /\ Running /\ Fetched.op \in {"DIV", "DIVU"}
  /\ lo' \in Words /\ hi' \in Words
  /\ regs[Fetched.rt] # 0 =>
       IF Fetched.op = "DIV"
       THEN Divides(Signed(regs[Fetched.rs]), Signed(regs[Fetched.rt]), Signed(lo'), Signed(hi'))
       ELSE Divides(regs[Fetched.rs], regs[Fetched.rt], lo', hi')
  /\ Advance /\ UNCHANGED <<regs, mem>>

Condition ==
  LET rs == Signed(regs[Fetched.rs]) IN
  CASE Fetched.op = "BEQ" -> rs = Signed(regs[Fetched.rt])
    [] Fetched.op = "BNE" -> rs # Signed(regs[Fetched.rt])
    [] Fetched.op = "BGTZ" -> rs > 0
    [] Fetched.op = "BLEZ" -> rs <= 0
    [] Fetched.op \in {"BGEZ", "BGEZAL"} -> rs >= 0
    [] Fetched.op \in {"BLTZ", "BLTZAL"} -> rs < 0
    [] OTHER -> TRUE

\* The instruction after the branch is executed, whether it is taken or not;
\* a call returns to the instruction after that.
Branch ==
  /\ Running
  /\ Fetched.op \in {"BEQ", "BNE", "BGTZ", "BLEZ", "BGEZ", "BGEZAL", "BLTZ", "BLTZAL", "J", "JAL",
                     "JR", "JALR"}
  /\ pc' = Word(pc + 4)
  /\ nextPC' = IF ~Condition THEN Word(pc + 8)
               ELSE CASE Fetched.op \in {"J", "JAL"} -> 4 * Fetched.imm
                      [] Fetched.op \in {"JR", "JALR"} -> regs[Fetched.rs]
                      [] OTHER -> Word(pc + 4 + 4 * Fetched.imm)
  /\ CASE Fetched.op \in {"BGEZAL", "BLTZAL", "JAL"} -> Put(31, Word(pc + 8))
       [] Fetched.op = "JALR" -> Put(Fetched.rd, Word(pc + 8))
       [] OTHER -> regs' = regs
  /\ UNCHANGED <<program, hi, lo, mem, status>>

\* Memory: n bytes at a multiple of n, and for LWL, LWR, SWL and SWR the bytes
\* of one word up to, or from, any address.
Width == CASE Fetched.op \in {"LB", "LBU", "SB"} -> 1
           [] Fetched.op \in {"LH", "LHU", "SH"} -> 2
           [] Fetched.op \in {"LW", "SW"} -> 4
           [] OTHER -> 1
Loads == {"LB", "LBU", "LH", "LHU", "LW", "LWL", "LWR"}
Stores == {"SB", "SH", "SW", "SWL", "SWR"}
Reachable == Address \in Data /\ Address % Width = 0
Past(a) == \A b \in Data : b < a
Offset == Address % 4

Loaded ==
  LET byte(k) == mem[Address + k]
      whole(n) == LET b(k) == IF k < n THEN byte(k) ELSE 0 IN OfBytes(b)
      old(k) == ByteOf(regs[Fetched.rt], k)
      left(k) == IF k >= 3 - Offset THEN byte(k - 3) ELSE old(k)
      right(k) == IF k <= 3 - Offset THEN byte(k) ELSE old(k)
  IN CASE Fetched.op \in {"LBU", "LHU", "LW"} -> whole(Width)
       [] Fetched.op \in {"LB", "LH"} -> Word(SignedOf(whole(Width), Width))
       [] Fetched.op = "LWL" -> OfBytes(left)
       [] Fetched.op = "LWR" -> OfBytes(right)

Load ==
  /\ Running /\ Fetched.op \in Loads /\ Reachable
  /\ Put(Fetched.rt, Loaded)
  /\ Advance /\ UNCHANGED <<hi, lo, mem>>

Store ==
  /\ Running /\ Fetched.op \in Stores /\ Reachable
  /\ mem' = [a \in Data |->
       CASE Fetched.op = "SWL" /\ a \in Address - Offset .. Address ->
              ByteOf(regs[Fetched.rt], a - Address + 3)
         [] Fetched.op = "SWR" /\ a \in Address .. Address - Offset + 3 ->
              ByteOf(regs[Fetched.rt], a - Address)
         [] Fetched.op \in {"SB", "SH", "SW"} /\ a \in Address .. Address + Width - 1 ->
              ByteOf(regs[Fetched.rt], a - Address)
         [] OTHER -> mem[a]]
  /\ Advance /\ UNCHANGED <<regs, hi, lo>>

\* The system calls of the model: the sum of two registers, and the end.
Syscall ==
  /\ Running /\ Fetched.op = "SYSCALL"
  /\ \/ /\ regs[2] = SC_Halt /\ status' = "halted"
        /\ UNCHANGED <<program, regs, hi, lo, pc, nextPC, mem>>
     \/ /\ regs[2] = SC_Add /\ Put(2, Word(regs[4] + regs[5]))
        /\ Advance /\ UNCHANGED <<hi, lo, mem>>

\* A program with a fault goes no further, and says which it was.  What the
\* quotient of the least integer and -1 does is not defined.
Fault ==
  /\ \/ Running /\ Overflows /\ status' = "overflow"
     \/ /\ Running /\ Fetched.op \in Loads \cup Stores
        /\ Address % Width # 0 \/ Past(Address)
        /\ status' = "address error"
     \/ status = "running" /\ (pc % 4 # 0 \/ Past(pc)) /\ status' = "address error"
     \/ Running /\ Fetched.op = "BREAK" /\ status' = "illegal instruction"
     \/ /\ Running /\ Fetched.op = "DIV" /\ Signed(regs[Fetched.rs]) = Least
        /\ Signed(regs[Fetched.rt]) = -1 /\ status' = "host trap"
  /\ UNCHANGED <<program, regs, hi, lo, pc, nextPC, mem>>

Init ==
  /\ regs = [r \in Registers |-> 0]
  /\ hi = 0 /\ lo = 0 /\ pc = 0 /\ nextPC = 4
  /\ status = "running"

Next == \/ Compute \/ MoveToHiLo \/ Multiply \/ Divide \/ Branch \/ Load \/ Store
        \/ Syscall \/ Fault

Spec == Init /\ [][Next]_vars
===============================================================================
