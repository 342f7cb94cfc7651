----------------------------- MODULE MCUserPrograms -----------------------------
(* Files of a few words, and the command lines the kernel is started with.       *)
EXTENDS UserPrograms

Do(op, addr) == [op |-> op, addr |-> addr]
Seg(at0, size) == [at |-> at0, size |-> size]

MCFiles == {"compute", "copy", "data", "constants", "buffer", "stop", "wild", "absent"}
MCExecutable == MCFiles \ {"absent"}

MCText == [f \in MCFiles |->
  CASE f = "compute" -> <<Do("load", 3), Do("store", 6), Do("print", 0), Do("load", 6), Do("exit", 0)>>
    [] f = "copy" -> <<Do("load", 1), Do("store", 4), Do("exit", 0)>>
    [] f = "data" -> <<Do("load", 5), Do("store", 0), Do("nop", 0), Do("exit", 0)>>
    [] f = "constants" -> <<Do("load", 3), Do("write", 3), Do("exit", 0)>>
    [] f = "buffer" -> <<Do("read", 4), Do("load", 4), Do("write", 4), Do("exit", 0)>>
    [] f = "stop" -> <<Do("store", 2), Do("halt", 0)>>
    [] OTHER -> <<Do("load", 9)>>]

MCHeader == [f \in MCFiles |->
  [code   |-> Seg(0, Len(MCText[f])),
   init   |-> IF f = "data" THEN Seg(4, 2) ELSE Seg(0, 0),
   rdata  |-> IF f = "constants" THEN Seg(3, 1) ELSE Seg(0, 0),
   uninit |-> Seg(0, IF f = "copy" THEN 1 ELSE 0)]]

\* Programs that keep to what is translated, together, and the others alone.
MCWorkloads ==
  {<<"compute", "copy">>, <<"copy", "absent", "copy">>, <<"data", "compute">>,
   <<"copy", "compute", "copy">>, <<"stop", "copy">>, <<"copy", "wild">>,
   <<"constants">>, <<"buffer">>}

\* They are workloads for which programs are isolated.
ASSUME ConfinedAssumption == WorkloadsConfined
===============================================================================
