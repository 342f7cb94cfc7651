------------------------------ MODULE MCPostOffice ------------------------------
(* Two machines that run NetworkTest, one of which has another sender.           *)
EXTENDS PostOffice

CONSTANTS test0, test1, mailer

Send(h, b) == [op |-> "send", to |-> h, box |-> b]
Receive(b) == [op |-> "receive", box |-> b]
Reply == [op |-> "reply"]

MCClients == {test0, test1, mailer}
MCHostOf == [c \in MCClients |-> IF c = test1 THEN 1 ELSE 0]
MCScript == [c \in MCClients |->
  CASE c = test0  -> <<Send(1, 0), Receive(0), Reply, Receive(1)>>
    [] c = test1  -> <<Send(0, 0), Receive(0), Reply, Receive(1)>>
    [] c = mailer -> <<Send(1, 2)>>]
===============================================================================
