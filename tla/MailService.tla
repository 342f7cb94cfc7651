------------------------------ MODULE MailService ------------------------------
(***************************************************************************)
(* What the post office promises (network/post.h, machine/network.h):      *)
(* mail may be lost on its way, but what is not lost reaches the box it is *)
(* addressed to, once, and in the order in which it was put on the wire; a *)
(* call of Send or Receive takes effect once.                              *)
(***************************************************************************)
EXTENDS Naturals, Sequences

CONSTANTS Hosts, Clients, Boxes, Mails, Nil, HostOf

VARIABLES
  channel, \* the mail on its way to each host
  boxes,   \* the mail in each box of each host
  call     \* what each client has asked for

Idle == [op |-> "none", mail |-> Nil, box |-> Nil, done |-> FALSE]
SendCall(m, done) == [op |-> "send", mail |-> m, box |-> Nil, done |-> done]
ReceiveCall(b, m, done) == [op |-> "receive", mail |-> m, box |-> b, done |-> done]

Init ==
  /\ channel = [h \in Hosts |-> <<>>]
  /\ boxes = [h \in Hosts |-> [b \in Boxes |-> <<>>]]
  /\ call = [c \in Clients |-> Idle]

Invoke(c) ==
  /\ call[c] = Idle
  /\ \/ \E m \in {call'[c].mail} \cap Mails : call' = [call EXCEPT ![c] = SendCall(m, FALSE)]
     \/ \E b \in Boxes : call' = [call EXCEPT ![c] = ReceiveCall(b, Nil, FALSE)]
  /\ UNCHANGED <<channel, boxes>>

Post(c) ==
  /\ call[c].op = "send" /\ ~call[c].done
  /\ \/ channel' = [channel EXCEPT ![call[c].mail.to] = Append(@, call[c].mail)]
     \/ UNCHANGED channel
  /\ call' = [call EXCEPT ![c] = SendCall(call[c].mail, TRUE)]
  /\ UNCHANGED boxes

Deliver(h) ==
  /\ channel[h] # <<>>
  /\ channel' = [channel EXCEPT ![h] = Tail(@)]
  /\ boxes' = [boxes EXCEPT ![h][Head(channel[h]).box] = Append(@, Head(channel[h]))]
  /\ UNCHANGED call

Collect(c) ==
  /\ call[c].op = "receive" /\ ~call[c].done
  /\ boxes[HostOf[c]][call[c].box] # <<>>
  /\ boxes' = [boxes EXCEPT ![HostOf[c]][call[c].box] = Tail(@)]
  /\ call' = [call EXCEPT ![c] =
                ReceiveCall(@.box, Head(boxes[HostOf[c]][@.box]), TRUE)]
  /\ UNCHANGED channel

Return(c) ==
  /\ call[c].done
  /\ call' = [call EXCEPT ![c] = Idle]
  /\ UNCHANGED <<channel, boxes>>

\* A host stops: what is in it and on its way to it is gone.
Stop(h) ==
  /\ channel' = [channel EXCEPT ![h] = <<>>]
  /\ boxes' = [boxes EXCEPT ![h] = [b \in Boxes |-> <<>>]]
  /\ call' = [c \in Clients |-> IF HostOf[c] = h THEN Idle ELSE call[c]]

Next ==
  \/ \E c \in Clients : Invoke(c) \/ Post(c) \/ Collect(c) \/ Return(c)
  \/ \E h \in Hosts : Deliver(h) \/ Stop(h)

Spec == Init /\ [][Next]_<<channel, boxes, call>>
===============================================================================
