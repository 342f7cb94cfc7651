----------------------------- MODULE BlockingQueue -----------------------------
(***************************************************************************)
(* What SynchList promises to its callers (threads/synchlist.h): a queue   *)
(* shared by any number of threads.  A call of Append or RemoveFront takes *)
(* effect once, at one moment between its invocation and its return, and   *)
(* RemoveFront takes effect only when there is an item to remove.          *)
(***************************************************************************)
EXTENDS Sequences

CONSTANTS Threads, Items, Nil

VARIABLES buffer, call

Idle == [op |-> "none", item |-> Nil, done |-> FALSE]

BInit ==
  /\ buffer = <<>>
  /\ call = [t \in Threads |-> Idle]

Invoke(t, op, item) ==
  /\ call[t] = Idle
  /\ call' = [call EXCEPT ![t] = [op |-> op, item |-> item, done |-> FALSE]]
  /\ UNCHANGED buffer

Put(t) ==
  /\ call[t].op = "append" /\ ~call[t].done
  /\ buffer' = Append(buffer, call[t].item)
  /\ call' = [call EXCEPT ![t] = [op |-> "append", item |-> call[t].item, done |-> TRUE]]

Take(t) ==
  /\ call[t].op = "remove" /\ ~call[t].done
  /\ buffer # <<>>
  /\ buffer' = Tail(buffer)
  /\ call' = [call EXCEPT ![t] = [op |-> "remove", item |-> Head(buffer), done |-> TRUE]]

Return(t) ==
  /\ call[t].done
  /\ call' = [call EXCEPT ![t] = Idle]
  /\ UNCHANGED buffer

BNext ==
  \E t \in Threads :
    \/ \E item \in Items : Invoke(t, "append", item)
    \/ Invoke(t, "remove", Nil)
    \/ Put(t) \/ Take(t) \/ Return(t)

BSpec == BInit /\ [][BNext]_<<buffer, call>>
===============================================================================
