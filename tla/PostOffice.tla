------------------------------- MODULE PostOffice -------------------------------
(***************************************************************************)
(* The post offices of several machines and the network between them       *)
(* (network/post.cc, machine/network.cc), and the clients of main -N       *)
(* (Kernel::NetworkTest, threads/kernel.cc); this is MP1's kernel, the     *)
(* later ones do not open their post offices.                              *)
(*                                                                         *)
(* A machine is one process of the host.  Its threads lose the CPU only at *)
(* a P, a V or a lock, and its interrupts come at these points too: what   *)
(* is between them is one step.  A mailbox is a SynchList, taken here as   *)
(* what module BlockingQueue says of it, and Lock and Semaphore are taken  *)
(* at their word.  Packets are sent over datagram sockets of the host,     *)
(* which keep their order.                                                 *)
(***************************************************************************)
EXTENDS Integers, Sequences, FiniteSets

CONSTANTS
  Hosts,
  Clients, HostOf, \* the threads that use a post office, and their machines
  Script,          \* Script[c]: the calls c makes, one after the other
  Boxes,           \* the mailboxes of a post office
  Networks,        \* the networks that are checked, from {"perfect", "lossy"}
  Nil              \* a NULL pointer

ScriptSteps ==
  [op : {"send"}, to : Hosts, box : Boxes] \cup [op : {"receive"}, box : Boxes]
    \cup [op : {"reply"}]

ASSUME NamesAssumption == Nil \notin Clients \cup Boxes
ASSUME HostAssumption == HostOf \in [Clients -> Hosts]
ASSUME ScriptAssumption == Script \in [Clients -> Seq(ScriptSteps)]
ASSUME NetworksAssumption == Networks \subseteq {"perfect", "lossy"}
ASSUME BoxesAssumption == {0, 1} \subseteq Boxes

\* Mail with its two headers; by and n say who wrote it, in which step.
Mails == [to : Hosts, from : Hosts, box : Boxes, reply : Boxes, by : Clients, n : Nat]
ASSUME NilAssumption == Nil \notin Mails

VARIABLES
  network,  \* which network there is
  up,       \* new, running or stopped: only a running host has a socket
  wire,     \* the packets in each host's socket
  inbox,    \* NetworkInput::inHdr and inbox, Nil when inHdr.length is 0
  messageAvailable, messageSent, \* the semaphores' values
  worker, letter, \* the postal worker's next statement, and its buffer
  boxes,    \* PostOfficeInput::boxes
  sendLock, \* the holder of PostOfficeOutput::sendLock
  sending,  \* pending interrupts of NetworkOutput
  pc, step, \* of each client
  mail,     \* what it sends
  got       \* what it received last

hostVars == <<network, up>>
inVars == <<inbox, messageAvailable, worker, letter>>
outVars == <<messageSent, sendLock, sending>>
clientVars == <<pc, step, mail, got>>
vars == <<hostVars, wire, inVars, boxes, outVars, clientVars>>

Empty == [b \in Boxes |-> <<>>]

Init ==
  /\ network \in Networks
  /\ up = [h \in Hosts |-> "new"]
  /\ wire = [h \in Hosts |-> <<>>]
  /\ inbox = [h \in Hosts |-> Nil]
  /\ messageAvailable = [h \in Hosts |-> 0]
  /\ messageSent = [h \in Hosts |-> 0]
  /\ worker = [h \in Hosts |-> "wait"]
  /\ letter = [h \in Hosts |-> Nil]
  /\ boxes = [h \in Hosts |-> Empty]
  /\ sendLock = [h \in Hosts |-> Nil]
  /\ sending = [h \in Hosts |-> 0]
  /\ pc = [c \in Clients |-> "idle"]
  /\ step = [c \in Clients |-> 1]
  /\ mail = [c \in Clients |-> Nil]
  /\ got = [c \in Clients |-> Nil]

\* SendToSocket stops its whole process while it waits to try again.
Retrying(h) == \E c \in Clients : HostOf[c] = h /\ pc[c] = "retry"
Active(h) == up[h] = "running" /\ ~Retrying(h)
At(c, label) == Active(HostOf[c]) /\ pc[c] = label
Go(c, label) == pc' = [pc EXCEPT ![c] = label]

-----------------------------------------------------------------------------
(* Machines.                                                               *)

\* The kernel starts, and its NetworkInput binds its socket.
Boot(h) ==
  /\ up[h] = "new"
  /\ up' = [up EXCEPT ![h] = "running"]
  /\ UNCHANGED <<network, wire, inVars, boxes, outVars, clientVars>>

\* It halts, or its process is killed.
Stop(h) ==
  /\ network = "lossy"
  /\ up[h] = "running"
  /\ up' = [up EXCEPT ![h] = "stopped"]
  /\ wire' = [wire EXCEPT ![h] = <<>>]
  /\ inbox' = [inbox EXCEPT ![h] = Nil]
  /\ letter' = [letter EXCEPT ![h] = Nil]
  /\ boxes' = [boxes EXCEPT ![h] = Empty]
  /\ pc' = [c \in Clients |-> IF HostOf[c] = h THEN "dead" ELSE pc[c]]
  /\ UNCHANGED <<network, messageAvailable, worker, outVars, step, mail, got>>

-----------------------------------------------------------------------------
(* Input.                                                                  *)

\* Mutant of PollNetwork: a packet that is still buffered is overwritten.
PollNetworkOverwrites(h) ==
  /\ Active(h)
  /\ wire[h] # <<>>
  /\ inbox' = [inbox EXCEPT ![h] = Head(wire[h])]
  /\ wire' = [wire EXCEPT ![h] = Tail(@)]
  /\ messageAvailable' = [messageAvailable EXCEPT ![h] = @ + 1]
  /\ UNCHANGED <<hostVars, worker, letter, boxes, outVars, clientVars>>

\* NetworkInput::CallBack with PostOfficeInput::CallBack.
PollNetwork(h) ==
  /\ Active(h)
  /\ inbox[h] = Nil /\ wire[h] # <<>>
  /\ inbox' = [inbox EXCEPT ![h] = Head(wire[h])]
  /\ wire' = [wire EXCEPT ![h] = Tail(@)]
  /\ messageAvailable' = [messageAvailable EXCEPT ![h] = @ + 1]
  /\ UNCHANGED <<hostVars, worker, letter, boxes, outVars, clientVars>>

\* PostalDelivery.
AwaitMessage(h) ==
  /\ Active(h) /\ worker[h] = "wait"
  /\ messageAvailable[h] > 0
  /\ messageAvailable' = [messageAvailable EXCEPT ![h] = @ - 1]
  /\ worker' = [worker EXCEPT ![h] = "receive"]
  /\ UNCHANGED <<hostVars, wire, inbox, letter, boxes, outVars, clientVars>>

\* Mutant of ReceivePacket: the buffer is not marked empty.
ReceivePacketKeeps(h) ==
  /\ Active(h) /\ worker[h] = "receive"
  /\ letter' = [letter EXCEPT ![h] = inbox[h]]
  /\ worker' = [worker EXCEPT ![h] = "put"]
  /\ UNCHANGED <<hostVars, wire, inbox, messageAvailable, boxes, outVars, clientVars>>

\* NetworkInput::Receive.
ReceivePacket(h) ==
  /\ Active(h) /\ worker[h] = "receive"
  /\ letter' = [letter EXCEPT ![h] = inbox[h]]
  /\ inbox' = [inbox EXCEPT ![h] = Nil]
  /\ worker' = [worker EXCEPT ![h] = "put"]
  /\ UNCHANGED <<hostVars, wire, messageAvailable, boxes, outVars, clientVars>>

\* Mutant of PutInBox: all mail goes to box 0.
PutInBoxZero(h) ==
  /\ Active(h) /\ worker[h] = "put"
  /\ boxes' = [boxes EXCEPT ![h][0] = Append(@, letter[h])]
  /\ letter' = [letter EXCEPT ![h] = Nil]
  /\ worker' = [worker EXCEPT ![h] = "wait"]
  /\ UNCHANGED <<hostVars, wire, inbox, messageAvailable, outVars, clientVars>>

\* MailBox::Put.
PutInBox(h) ==
  /\ Active(h) /\ worker[h] = "put"
  /\ boxes' = [boxes EXCEPT ![h][letter[h].box] = Append(@, letter[h])]
  /\ letter' = [letter EXCEPT ![h] = Nil]
  /\ worker' = [worker EXCEPT ![h] = "wait"]
  /\ UNCHANGED <<hostVars, wire, inbox, messageAvailable, outVars, clientVars>>

-----------------------------------------------------------------------------
(* Clients.                                                                *)

Next1(c) == Script[c][step[c]]
Written(c, h, b) ==
  [to |-> h, from |-> HostOf[c], box |-> b, reply |-> 1, by |-> c, n |-> step[c]]

\* NetworkTest replies to the machine and the box its mail names.
CallSend(c) ==
  /\ At(c, "idle") /\ step[c] \in DOMAIN Script[c]
  /\ \/ /\ Next1(c).op = "send"
        /\ mail' = [mail EXCEPT ![c] = Written(c, Next1(c).to, Next1(c).box)]
     \/ /\ Next1(c).op = "reply" /\ got[c] # Nil
        /\ mail' = [mail EXCEPT ![c] = Written(c, got[c].from, got[c].reply)]
  /\ Go(c, "acquire")
  /\ UNCHANGED <<hostVars, wire, inVars, boxes, outVars, step, got>>

\* Mutant of AcquireSend: the lock is not tested.
AcquireSendUntested(c) ==
  /\ At(c, "acquire")
  /\ sendLock' = [sendLock EXCEPT ![HostOf[c]] = c]
  /\ Go(c, "transmit")
  /\ UNCHANGED <<hostVars, wire, inVars, boxes, messageSent, sending, step, mail, got>>

AcquireSend(c) ==
  /\ At(c, "acquire")
  /\ sendLock[HostOf[c]] = Nil
  /\ sendLock' = [sendLock EXCEPT ![HostOf[c]] = c]
  /\ Go(c, "transmit")
  /\ UNCHANGED <<hostVars, wire, inVars, boxes, messageSent, sending, step, mail, got>>

\* Mutant of Transmit: a packet is dropped before the interrupt is scheduled.
TransmitDropsFirst(c) ==
  /\ At(c, "transmit")
  /\ \/ /\ network = "lossy"
        /\ Go(c, "await") /\ UNCHANGED <<wire, sending>>
     \/ /\ sending' = [sending EXCEPT ![HostOf[c]] = @ + 1]
        /\ IF up[mail[c].to] = "running"
             THEN wire' = [wire EXCEPT ![mail[c].to] = Append(@, mail[c])] /\ Go(c, "await")
             ELSE Go(c, "retry") /\ UNCHANGED wire
  /\ UNCHANGED <<hostVars, inVars, boxes, messageSent, sendLock, step, mail, got>>

\* NetworkOutput::Send: the interrupt is scheduled, then the packet is dropped or
\* given to the socket.
Transmit(c) ==
  /\ At(c, "transmit")
  /\ sending' = [sending EXCEPT ![HostOf[c]] = @ + 1]
  /\ \/ /\ up[mail[c].to] = "running"
        /\ wire' = [wire EXCEPT ![mail[c].to] = Append(@, mail[c])]
        /\ Go(c, "await")
     \/ /\ up[mail[c].to] # "running"
        /\ Go(c, "retry") /\ UNCHANGED wire
     \/ /\ network = "lossy"
        /\ Go(c, "await") /\ UNCHANGED wire
  /\ UNCHANGED <<hostVars, inVars, boxes, messageSent, sendLock, step, mail, got>>

\* SendToSocket tries again, and gives up after ten seconds.  With the perfect
\* network the machines are started within them.
Retry(c) ==
  /\ up[HostOf[c]] = "running" /\ pc[c] = "retry"
  /\ up[mail[c].to] = "running"
  /\ wire' = [wire EXCEPT ![mail[c].to] = Append(@, mail[c])]
  /\ Go(c, "await")
  /\ UNCHANGED <<hostVars, inVars, boxes, outVars, step, mail, got>>

GiveUp(c) ==
  /\ network = "lossy"
  /\ up[HostOf[c]] = "running" /\ pc[c] = "retry"
  /\ up[mail[c].to] # "running"
  /\ Go(c, "await")
  /\ UNCHANGED <<hostVars, wire, inVars, boxes, outVars, step, mail, got>>

\* NetworkOutput::CallBack with PostOfficeOutput::CallBack.
SendInterrupt(h) ==
  /\ Active(h) /\ sending[h] > 0
  /\ sending' = [sending EXCEPT ![h] = @ - 1]
  /\ messageSent' = [messageSent EXCEPT ![h] = @ + 1]
  /\ UNCHANGED <<hostVars, wire, inVars, boxes, sendLock, clientVars>>

AwaitSent(c) ==
  /\ At(c, "await")
  /\ messageSent[HostOf[c]] > 0
  /\ messageSent' = [messageSent EXCEPT ![HostOf[c]] = @ - 1]
  /\ Go(c, "release")
  /\ UNCHANGED <<hostVars, wire, inVars, boxes, sendLock, sending, step, mail, got>>

ReleaseSend(c) ==
  /\ At(c, "release")
  /\ sendLock' = [sendLock EXCEPT ![HostOf[c]] = Nil]
  /\ mail' = [mail EXCEPT ![c] = Nil]
  /\ step' = [step EXCEPT ![c] = @ + 1]
  /\ Go(c, "idle")
  /\ UNCHANGED <<hostVars, wire, inVars, boxes, messageSent, sending, got>>

CallReceive(c) ==
  /\ At(c, "idle") /\ step[c] \in DOMAIN Script[c]
  /\ Next1(c).op = "receive"
  /\ Go(c, "get")
  /\ UNCHANGED <<hostVars, wire, inVars, boxes, outVars, step, mail, got>>

\* MailBox::Get.
GetFromBox(c) ==
  /\ At(c, "get")
  /\ boxes[HostOf[c]][Next1(c).box] # <<>>
  /\ got' = [got EXCEPT ![c] = Head(boxes[HostOf[c]][Next1(c).box])]
  /\ boxes' = [boxes EXCEPT ![HostOf[c]][Next1(c).box] = Tail(@)]
  /\ Go(c, "received")
  /\ UNCHANGED <<hostVars, wire, inVars, outVars, step, mail>>

ReturnMail(c) ==
  /\ At(c, "received")
  /\ step' = [step EXCEPT ![c] = @ + 1]
  /\ Go(c, "idle")
  /\ UNCHANGED <<hostVars, wire, inVars, boxes, outVars, mail, got>>

-----------------------------------------------------------------------------
HostStep(h) ==
  \/ Boot(h) \/ PollNetwork(h) \/ AwaitMessage(h) \/ ReceivePacket(h) \/ PutInBox(h)
  \/ SendInterrupt(h)
ClientStep(c) ==
  \/ CallSend(c) \/ AcquireSend(c) \/ Transmit(c) \/ Retry(c) \/ GiveUp(c)
  \/ AwaitSent(c) \/ ReleaseSend(c) \/ CallReceive(c) \/ GetFromBox(c) \/ ReturnMail(c)

Next ==
  \/ \E h \in Hosts : HostStep(h) \/ Stop(h)
  \/ \E c \in Clients : ClientStep(c)

Spec == Init /\ [][Next]_vars

\* A running machine goes on, and with the perfect network machines are started.
\* Nothing makes one start on the lossy network, or stop.  (Each of these steps
\* brings a script, a packet or a handler forward, and none takes one back: there are
\* finitely many, and no step can be put off for ever by others.)
Progress ==
  \/ \E h \in Hosts : (network = "perfect" \/ up[h] = "running") /\ HostStep(h)
  \/ \E c \in Clients : ClientStep(c)
FairSpec == Spec /\ WF_vars(Progress)

-----------------------------------------------------------------------------
(* Properties.                                                             *)

ClientPcs ==
  {"idle", "acquire", "transmit", "retry", "await", "release", "get", "received", "dead"}

TypeOK ==
  /\ network \in Networks
  /\ up \in [Hosts -> {"new", "running", "stopped"}]
  /\ wire \in [Hosts -> Seq(Mails)]
  /\ inbox \in [Hosts -> Mails \cup {Nil}]
  /\ messageAvailable \in [Hosts -> Nat] /\ messageSent \in [Hosts -> Nat]
  /\ worker \in [Hosts -> {"wait", "receive", "put"}]
  /\ letter \in [Hosts -> Mails \cup {Nil}]
  /\ boxes \in [Hosts -> [Boxes -> Seq(Mails)]]
  /\ sendLock \in [Hosts -> Clients \cup {Nil}]
  /\ sending \in [Hosts -> Nat]
  /\ pc \in [Clients -> ClientPcs]
  /\ step \in [Clients -> Nat \ {0}]
  /\ mail \in [Clients -> Mails \cup {Nil}]
  /\ got \in [Clients -> Mails \cup {Nil}]

\* The worker never reads an empty buffer, and a packet that is in the buffer is
\* always announced: one V for each.
PacketAnnounced ==
  \A h \in Hosts : up[h] = "running" =>
    messageAvailable[h] + (IF worker[h] = "receive" THEN 1 ELSE 0)
      = (IF inbox[h] = Nil THEN 0 ELSE 1)

\* One packet at a time: sendBusy is never set, so nothing but the lock and the
\* semaphore keep a second Send from NetworkOutput; a Send that waits has one
\* interrupt or one signal of its own, dropped packet or not.
Senders(h) ==
  {c \in Clients : HostOf[c] = h /\ pc[c] \in {"transmit", "retry", "await", "release"}}
Sent(h) == {c \in Senders(h) : pc[c] \in {"retry", "await"}}
OneAtATime ==
  \A h \in Hosts : up[h] = "running" =>
    /\ \A c \in Senders(h) : sendLock[h] = c
    /\ sending[h] + messageSent[h] = Cardinality(Sent(h))

\* The post office as its clients see it.
Letters(m) == IF m = Nil THEN <<>> ELSE <<m>>

AbstractCall(c) ==
  CASE pc[c] \in {"acquire", "transmit", "retry"} ->
         [op |-> "send", mail |-> mail[c], box |-> Nil, done |-> FALSE]
    [] pc[c] \in {"await", "release"} ->
         [op |-> "send", mail |-> mail[c], box |-> Nil, done |-> TRUE]
    [] pc[c] = "get" ->
         [op |-> "receive", mail |-> Nil, box |-> Next1(c).box, done |-> FALSE]
    [] pc[c] = "received" ->
         [op |-> "receive", mail |-> got[c], box |-> Next1(c).box, done |-> TRUE]
    [] OTHER -> [op |-> "none", mail |-> Nil, box |-> Nil, done |-> FALSE]

Service == INSTANCE MailService WITH
  channel <- [h \in Hosts |-> Letters(letter[h]) \o Letters(inbox[h]) \o wire[h]],
  call <- [c \in Clients |-> AbstractCall(c)]

\* Mail that is not lost is delivered once, in order, to the box it names.
Delivers == Service!Spec

\* A Send returns, whatever becomes of the packet and of the other machine, unless
\* its own machine stops; also when nothing ever stops (post.cc:323, sysdep.cc:555).
SendsReturn == \A c \in Clients : pc[c] = "acquire" ~> pc[c] \in {"idle", "dead"}

\* NetworkTest replies to the other machine's first mail and ends with the
\* acknowledgement of its own.
Tests == {c \in Clients : \E i \in DOMAIN Script[c] : Script[c][i].op = "reply"}

\* With a perfect network NetworkTest ends on both machines.
TestEnds == \A c \in Tests : network = "perfect" ~> step[c] = 5
===============================================================================
