-------------------------------- MODULE Programs --------------------------------
(***************************************************************************)
(* Executable files in the NOFF format (userprog/noff.h), and the          *)
(* instructions of the programs in them.  Memory is made of words; a word  *)
(* of a file is named by the file and its virtual address, so that it is   *)
(* seen where each word of memory came from.                               *)
(***************************************************************************)
EXTENDS Integers, Sequences, FiniteSets

CONSTANTS
  PageSize,  \* words of a page
  StackSize, \* UserStackSize
  Files,     \* the executable files
  Header,    \* Header[f]: the segments of f
  Text       \* Text[f]: the instructions of f, from virtual address 0

Segments == {"code", "init", "rdata", "uninit"}

ASSUME PageAssumption == PageSize \in Nat \ {0} /\ StackSize \in Nat \ {0}
ASSUME HeaderAssumption ==
  Header \in [Files -> [Segments -> [at : Nat, size : Nat]]]
ASSUME TextAssumption ==
  /\ Text \in [Files -> Seq([op : {"nop", "load", "store", "print", "read", "write", "halt",
                                    "exit"},
                             addr : Nat])]
  /\ \A f \in Files : Header[f].code = [at |-> 0, size |-> Len(Text[f])]

\* The size of the address space of f, with its stack.
Size(f) == Header[f].code.size + Header[f].init.size + Header[f].rdata.size
           + Header[f].uninit.size + StackSize

NumPages(f) == (Size(f) + PageSize - 1) \div PageSize

\* Words.  <<>> is a cleared one.
Zero == <<>>
Input == <<"input">>
Word(f, a) == <<f, a>>
Addresses(segment) == segment.at .. segment.at + segment.size - 1
Words ==
  {Zero, Input}
    \cup UNION {{Word(f, a) : a \in Addresses(Header[f][s])} : f \in Files, s \in Segments}

\* What the words of memory mean as instructions: a cleared word is a nop.
Instruction(word) ==
  IF word = Zero THEN [op |-> "nop", addr |-> 0]
  ELSE IF \E f \in Files : \E a \in Addresses(Header[f].code) : word = Word(f, a)
    THEN Text[word[1]][word[2] + 1]
    ELSE [op |-> "illegal", addr |-> 0]

\* The registers at the start of a program (the program counter and one other).
InitialRegisters == [pc |-> 0, r |-> Zero]
Registers == [pc : Nat, r : Words]
===============================================================================
