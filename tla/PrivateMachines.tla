----------------------------- MODULE PrivateMachines -----------------------------
(***************************************************************************)
(* What several user programs at once should look like to each of them: a  *)
(* machine of its own, whose memory holds the segments of its file where   *)
(* the file wants them, and whose memory and registers nobody else         *)
(* changes.                                                                *)
(***************************************************************************)
EXTENDS Programs

CONSTANT Threads

VARIABLES
  state, \* absent, user, calling or exited
  mem,   \* the memory of each machine
  regs,  \* its registers
  output \* the last word the program gave to Write

vars == <<state, mem, regs, output>>

Image(f) ==
  [a \in 0..NumPages(f) * PageSize - 1 |->
     IF \E s \in {"code", "init", "rdata"} : a \in Addresses(Header[f][s])
       THEN Word(f, a) ELSE Zero]

Init ==
  /\ state = [t \in Threads |-> "absent"]
  /\ mem = [t \in Threads |-> Zero]
  /\ regs = [t \in Threads |-> InitialRegisters]
  /\ output = [t \in Threads |-> Zero]

Start(t) ==
  /\ state[t] = "absent"
  /\ state' = [state EXCEPT ![t] = "user"]
  /\ \E f \in Files : mem' = [mem EXCEPT ![t] = Image(f)]
  /\ regs' = [regs EXCEPT ![t] = InitialRegisters]
  /\ UNCHANGED output

\* A program whose file cannot be loaded.
Fail(t) ==
  /\ state[t] = "absent"
  /\ state' = [state EXCEPT ![t] = "exited"]
  /\ UNCHANGED <<mem, regs, output>>

\* The instruction the program counter of t is at.
InUser(t) == state[t] = "user" /\ regs[t].pc \in DOMAIN mem[t]
Fetched(t) == Instruction(mem[t][regs[t].pc])
Advance(t, word) == regs' = [regs EXCEPT ![t] = [pc |-> @.pc + 1, r |-> word]]

Nop(t) ==
  /\ InUser(t) /\ Fetched(t).op = "nop"
  /\ Advance(t, regs[t].r)
  /\ UNCHANGED <<state, mem, output>>

Load(t) ==
  /\ InUser(t) /\ Fetched(t).op = "load" /\ Fetched(t).addr \in DOMAIN mem[t]
  /\ Advance(t, mem[t][Fetched(t).addr])
  /\ UNCHANGED <<state, mem, output>>

Store(t) ==
  /\ InUser(t) /\ Fetched(t).op = "store" /\ Fetched(t).addr \in DOMAIN mem[t]
  /\ mem' = [mem EXCEPT ![t][Fetched(t).addr] = regs[t].r]
  /\ Advance(t, regs[t].r)
  /\ UNCHANGED <<state, output>>

\* Read fills a buffer of the program, Write takes one from it.
Read(t) ==
  /\ InUser(t) /\ Fetched(t).op = "read"
  /\ mem' = [mem EXCEPT ![t][Fetched(t).addr] = Input]
  /\ Advance(t, regs[t].r)
  /\ UNCHANGED <<state, output>>

Write(t) ==
  /\ InUser(t) /\ Fetched(t).op = "write"
  /\ output' = [output EXCEPT ![t] = mem[t][Fetched(t).addr]]
  /\ Advance(t, regs[t].r)
  /\ UNCHANGED <<state, mem>>

\* PrintInt takes time.
PrintInt(t) ==
  /\ InUser(t) /\ Fetched(t).op = "print"
  /\ state' = [state EXCEPT ![t] = "calling"]
  /\ UNCHANGED <<mem, regs, output>>

Return(t) ==
  /\ state[t] = "calling"
  /\ state' = [state EXCEPT ![t] = "user"]
  /\ Advance(t, regs[t].r)
  /\ UNCHANGED <<mem, output>>

Exit(t) ==
  /\ InUser(t) /\ Fetched(t).op = "exit"
  /\ state' = [state EXCEPT ![t] = "exited"]
  /\ UNCHANGED <<mem, regs, output>>

Next ==
  \E t \in Threads : Start(t) \/ Fail(t) \/ Nop(t) \/ Load(t) \/ Store(t) \/ Read(t)
                     \/ Write(t) \/ PrintInt(t) \/ Return(t) \/ Exit(t)

Spec == Init /\ [][Next]_vars
===============================================================================
