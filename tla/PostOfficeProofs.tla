---------------------------- MODULE PostOfficeProofs ----------------------------
(***************************************************************************)
(* Proofs about PostOffice, for any machines, clients, scripts and boxes,  *)
(* with packets lost and machines stopped at any time: the safety          *)
(* invariants of the two sides, and that mail is delivered as MailService  *)
(* says.                                                                   *)
(***************************************************************************)
EXTENDS PostOffice, FiniteSetTheorems, SequenceTheorems, TLAPS

\* Where a client is between the P and the V of sendLock, and where its packet
\* has been given away and not yet acknowledged by the hardware.
SendPcs == {"transmit", "retry", "await", "release"}
SentPcs == {"retry", "await"}

Waiting(h) == \E c \in Clients : HostOf[c] = h /\ pc[c] \in SentPcs

\* One V of messageAvailable for the packet in the buffer, and a letter in the
\* worker's hands exactly when it is to be put in a box.
InputInv ==
  \A h \in Hosts :
    /\ up[h] = "running" =>
         /\ messageAvailable[h] + (IF worker[h] = "receive" THEN 1 ELSE 0)
              = (IF inbox[h] = Nil THEN 0 ELSE 1)
         /\ letter[h] # Nil <=> worker[h] = "put"
    /\ up[h] = "new" =>
         messageAvailable[h] = 0 /\ worker[h] = "wait" /\ inbox[h] = Nil /\ letter[h] = Nil

\* The client that sends has the lock, and one interrupt or signal of its own.
OutputInv ==
  /\ \A c \in Clients : pc[c] \in SendPcs => sendLock[HostOf[c]] = c
  /\ \A h \in Hosts : up[h] = "running" =>
       sending[h] + messageSent[h] = (IF Waiting(h) THEN 1 ELSE 0)
  /\ \A h \in Hosts : up[h] = "new" => sending[h] = 0 /\ messageSent[h] = 0
  /\ \A c \in Clients : up[HostOf[c]] = "new" => pc[c] = "idle"

\* What a client carries while it is in a call.
CallInv ==
  \A c \in Clients :
    /\ pc[c] \in SendPcs \cup {"acquire"} => mail[c] \in Mails
    /\ pc[c] \in {"get", "received"} => step[c] \in DOMAIN Script[c] /\ Next1(c).op = "receive"

MailInv == TypeOK /\ InputInv /\ OutputInv /\ CallInv

-----------------------------------------------------------------------------
\* A fresh kernel has no mail and no calls.
LEMMA InitMail == Init => MailInv
<1> SUFFICES ASSUME Init PROVE MailInv
  OBVIOUS
<1>1. TypeOK
  BY DEF Init, TypeOK, Empty, ClientPcs
<1>2. InputInv
  BY DEF Init, InputInv
<1>3. OutputInv
  BY HostAssumption DEF Init, OutputInv, SendPcs, SentPcs, Waiting
<1>4. CallInv
  BY DEF Init, CallInv, SendPcs
<1> QED BY <1>1, <1>2, <1>3, <1>4 DEF MailInv

\* A step of the clients leaves the input side alone, and one of the input side
\* the clients.
LEMMA InputStays ==
  ASSUME InputInv, UNCHANGED <<up, inbox, messageAvailable, worker, letter>>
  PROVE  InputInv'
BY DEF InputInv

LEMMA OutputStays ==
  ASSUME OutputInv, UNCHANGED <<up, messageSent, sendLock, sending, pc>>
  PROVE  OutputInv'
BY DEF OutputInv, Waiting

LEMMA CallStays ==
  ASSUME CallInv, UNCHANGED <<pc, step, mail>>
  PROVE  CallInv'
BY DEF CallInv, Next1

\* The steps of a machine.
LEMMA HostKeepsMail ==
  ASSUME MailInv, NEW h \in Hosts, HostStep(h) \/ Stop(h)
  PROVE  MailInv'
<1> USE DEF MailInv, hostVars, inVars, outVars, clientVars
<1>1. CASE Boot(h)
  <2>1. TypeOK'
    BY <1>1 DEF Boot, TypeOK
  <2>2. InputInv'
    BY <1>1 DEF Boot, InputInv, TypeOK
  <2>3. OutputInv'
    BY <1>1, HostAssumption DEF Boot, OutputInv, TypeOK, Waiting, SentPcs
  <2>4. CallInv'
    BY <1>1, CallStays DEF Boot
  <2> QED BY <2>1, <2>2, <2>3, <2>4
<1>2. CASE PollNetwork(h)
  <2>1. Head(wire[h]) \in Mails /\ Tail(wire[h]) \in Seq(Mails)
    BY <1>2 DEF PollNetwork, TypeOK
  <2>2. TypeOK'
    BY <1>2, <2>1 DEF PollNetwork, TypeOK
  <2>3. /\ inbox[h] = Nil /\ inbox'[h] # Nil
        /\ messageAvailable'[h] = messageAvailable[h] + 1 /\ messageAvailable[h] \in Nat
        /\ UNCHANGED <<up, worker, letter>>
        /\ \A k \in Hosts \ {h} :
             inbox'[k] = inbox[k] /\ messageAvailable'[k] = messageAvailable[k]
    BY <1>2, <2>1, NilAssumption DEF PollNetwork, TypeOK
  <2>4. up[h] = "running"
    BY <1>2 DEF PollNetwork, Active
  <2>5. InputInv'
    BY <2>3, <2>4 DEF InputInv
  <2> QED BY <1>2, <2>2, <2>5, OutputStays, CallStays DEF PollNetwork
<1>3. CASE AwaitMessage(h)
  <2>1. TypeOK'
    BY <1>3 DEF AwaitMessage, TypeOK
  <2>2. InputInv'
    BY <1>3 DEF AwaitMessage, InputInv, TypeOK
  <2> QED BY <1>3, <2>1, <2>2, OutputStays, CallStays DEF AwaitMessage
<1>4. CASE ReceivePacket(h)
  <2>1. TypeOK'
    BY <1>4 DEF ReceivePacket, TypeOK
  <2>2. up[h] = "running" /\ inbox[h] # Nil
    BY <1>4 DEF ReceivePacket, Active, InputInv, TypeOK
  <2>3. InputInv'
    BY <1>4, <2>2 DEF ReceivePacket, InputInv, TypeOK
  <2> QED BY <1>4, <2>1, <2>3, OutputStays, CallStays DEF ReceivePacket
<1>5. CASE PutInBox(h)
  <2>1. letter[h] \in Mails
    BY <1>5 DEF PutInBox, Active, InputInv, TypeOK
  <2>2. boxes' \in [Hosts -> [Boxes -> Seq(Mails)]]
    <3>1. letter[h].box \in Boxes
      BY <2>1 DEF Mails
    <3>2. Append(boxes[h][letter[h].box], letter[h]) \in Seq(Mails)
      BY <2>1, <3>1 DEF TypeOK
    <3> QED BY <1>5, <3>1, <3>2 DEF PutInBox, TypeOK
  <2>3. TypeOK'
    BY <1>5, <2>2 DEF PutInBox, TypeOK
  <2>4. InputInv'
    BY <1>5 DEF PutInBox, InputInv, TypeOK
  <2> QED BY <1>5, <2>3, <2>4, OutputStays, CallStays DEF PutInBox
<1>6. CASE SendInterrupt(h)
  <2>1. TypeOK'
    BY <1>6 DEF SendInterrupt, TypeOK
  <2>2. OutputInv'
    BY <1>6 DEF SendInterrupt, OutputInv, TypeOK, Waiting, Active
  <2> QED BY <1>6, <2>1, <2>2, InputStays, CallStays DEF SendInterrupt
<1>7. CASE Stop(h)
  <2>1. Empty \in [Boxes -> Seq(Mails)]
    BY DEF Empty
  <2>2. TypeOK'
    BY <1>7, <2>1 DEF Stop, TypeOK, ClientPcs
  <2>3. InputInv'
    BY <1>7 DEF Stop, InputInv, TypeOK
  <2>4. ASSUME NEW k \in Hosts, k # h
        PROVE  Waiting(k)' <=> Waiting(k)
    BY <1>7, <2>4 DEF Stop, Waiting, SentPcs
  <2>5. OutputInv'
    BY <1>7, <2>4, HostAssumption DEF Stop, OutputInv, TypeOK, SendPcs
  <2>6. CallInv'
    BY <1>7 DEF Stop, CallInv, SendPcs, Next1
  <2> QED BY <2>2, <2>3, <2>5, <2>6
<1> QED BY <1>1, <1>2, <1>3, <1>4, <1>5, <1>6, <1>7 DEF HostStep

\* The calls of a script are well formed.
LEMMA ScriptCalls ==
  ASSUME MailInv, NEW c \in Clients, step[c] \in DOMAIN Script[c]
  PROVE  /\ Next1(c) \in ScriptSteps
         /\ Next1(c).op = "send" => Next1(c).to \in Hosts /\ Next1(c).box \in Boxes
<1>1. Next1(c) \in ScriptSteps
  BY ScriptAssumption DEF Next1
<1> QED BY <1>1 DEF ScriptSteps

\* What a client writes is mail.
LEMMA WrittenIsMail ==
  ASSUME MailInv, NEW c \in Clients, NEW h \in Hosts, NEW b \in Boxes
  PROVE  Written(c, h, b) \in Mails
<1>1. step[c] \in Nat /\ HostOf[c] \in Hosts /\ 1 \in Boxes
  BY HostAssumption, BoxesAssumption DEF MailInv, TypeOK
<1> QED BY <1>1 DEF Written, Mails

\* A call of Send begins with mail.
LEMMA CallSendWrites ==
  ASSUME MailInv, NEW c \in Clients, CallSend(c)
  PROVE  \E m \in Mails : mail' = [mail EXCEPT ![c] = m]
<1>1. CASE Next1(c).op = "send" /\ mail' = [mail EXCEPT ![c] = Written(c, Next1(c).to, Next1(c).box)]
  BY <1>1, ScriptCalls, WrittenIsMail DEF CallSend
<1>2. CASE got[c] # Nil /\ mail' = [mail EXCEPT ![c] = Written(c, got[c].from, got[c].reply)]
  <2>1. got[c].from \in Hosts /\ got[c].reply \in Boxes
    BY <1>2 DEF MailInv, TypeOK, Mails
  <2> QED BY <1>2, <2>1, WrittenIsMail
<1> QED BY <1>1, <1>2 DEF CallSend

\* The one that sends is alone in it.
LEMMA SenderAlone ==
  ASSUME MailInv, NEW c \in Clients, NEW d \in Clients, HostOf[c] = HostOf[d],
         pc[c] \in SendPcs, pc[d] \in SendPcs
  PROVE  c = d
BY DEF MailInv, OutputInv

\* A client that gets or loses its own interrupt or signal, and no other.
LEMMA WaitingIs ==
  ASSUME MailInv, NEW c \in Clients, pc[c] \in SendPcs
  PROVE  Waiting(HostOf[c]) <=> pc[c] \in SentPcs
BY SenderAlone DEF Waiting, SentPcs, SendPcs

\* The steps of a client in Send.
LEMMA SendKeepsMail ==
  ASSUME MailInv, NEW c \in Clients,
         CallSend(c) \/ AcquireSend(c) \/ Transmit(c) \/ Retry(c) \/ GiveUp(c) \/ AwaitSent(c)
           \/ ReleaseSend(c)
  PROVE  MailInv'
<1> DEFINE h == HostOf[c]
<1> USE DEF hostVars, inVars, outVars, clientVars
<1>0. /\ TypeOK /\ InputInv /\ OutputInv /\ CallInv
      /\ h \in Hosts /\ pc[c] \in ClientPcs /\ c # Nil
  BY HostAssumption, NamesAssumption DEF MailInv, TypeOK
<1>1. InputInv'
  BY <1>0, InputStays
     DEF CallSend, AcquireSend, Transmit, Retry, GiveUp, AwaitSent, ReleaseSend
<1>2. CASE CallSend(c)
  <2>1. PICK m \in Mails : mail' = [mail EXCEPT ![c] = m]
    BY <1>2, CallSendWrites
  <2>2. pc[c] = "idle" /\ pc' = [pc EXCEPT ![c] = "acquire"]
    BY <1>2 DEF CallSend, At, Go
  <2>3. TypeOK'
    BY <1>0, <1>2, <2>1, <2>2 DEF CallSend, TypeOK, ClientPcs
  <2>4. OutputInv'
    BY <1>0, <1>2, <2>2
       DEF CallSend, At, Active, OutputInv, TypeOK, SendPcs, SentPcs, Waiting
  <2>5. CallInv'
    BY <1>0, <1>2, <2>1, <2>2 DEF CallSend, CallInv, TypeOK, Next1, SendPcs
  <2> QED BY <1>1, <2>3, <2>4, <2>5 DEF MailInv
<1>3. CASE AcquireSend(c)
  <2>1. /\ pc[c] = "acquire" /\ pc' = [pc EXCEPT ![c] = "transmit"]
        /\ up[h] = "running" /\ sendLock[h] = Nil /\ sendLock' = [sendLock EXCEPT ![h] = c]
    BY <1>3 DEF AcquireSend, At, Active, Go
  <2>2. TypeOK'
    BY <1>0, <1>3, <2>1 DEF AcquireSend, TypeOK, ClientPcs
  <2>3. OutputInv'
    <3>1. \A d \in Clients : pc[d] \in SendPcs => HostOf[d] # h
      BY <1>0, <2>1, NamesAssumption DEF OutputInv
    <3>2. \A d \in Clients : pc'[d] \in SendPcs => sendLock'[HostOf[d]] = d
      BY <1>0, <2>1, <3>1, HostAssumption DEF OutputInv, TypeOK
    <3>3. \A k \in Hosts : Waiting(k)' <=> Waiting(k)
      BY <1>0, <2>1 DEF Waiting, SentPcs, TypeOK
    <3>4. \A d \in Clients : up[HostOf[d]] = "new" => pc'[d] = "idle"
      BY <1>0, <2>1 DEF OutputInv, TypeOK
    <3> QED BY <1>0, <1>3, <3>2, <3>3, <3>4 DEF AcquireSend, OutputInv
  <2>4. CallInv'
    BY <1>0, <1>3, <2>1 DEF AcquireSend, CallInv, TypeOK, Next1, SendPcs
  <2> QED BY <1>1, <2>2, <2>3, <2>4 DEF MailInv
<1>4. CASE Transmit(c) \/ Retry(c) \/ GiveUp(c) \/ AwaitSent(c)
  <2>1. /\ up[h] = "running" /\ pc[c] \in SendPcs
        /\ \E p \in SendPcs : pc' = [pc EXCEPT ![c] = p]
        /\ UNCHANGED <<up, sendLock, step, mail>>
    BY <1>4 DEF Transmit, Retry, GiveUp, AwaitSent, At, Active, Go, SendPcs
  <2>2. mail[c] \in Mails /\ mail[c].to \in Hosts
    BY <1>0, <2>1 DEF CallInv, Mails
  <2>3. /\ \/ UNCHANGED wire
           \/ wire' = [wire EXCEPT ![mail[c].to] = Append(@, mail[c])]
        /\ UNCHANGED <<network, boxes, got>>
    BY <1>4 DEF Transmit, Retry, GiveUp, AwaitSent
  <2>4. \/ /\ pc[c] = "transmit" /\ pc'[c] \in SentPcs
           /\ sending' = [sending EXCEPT ![h] = @ + 1] /\ UNCHANGED messageSent
        \/ /\ pc[c] = "retry" /\ pc'[c] \in SentPcs
           /\ UNCHANGED <<sending, messageSent>>
        \/ /\ pc[c] = "await" /\ pc'[c] = "release" /\ messageSent[h] > 0
           /\ messageSent' = [messageSent EXCEPT ![h] = @ - 1] /\ UNCHANGED sending
    <3>1. pc \in [Clients -> ClientPcs]
      BY <1>0 DEF TypeOK
    <3>2. CASE Transmit(c)
      BY <3>1, <3>2 DEF Transmit, At, Go, SentPcs
    <3>3. CASE Retry(c) \/ GiveUp(c)
      BY <3>1, <3>3 DEF Retry, GiveUp, Go, SentPcs
    <3>4. CASE AwaitSent(c)
      BY <3>1, <3>4 DEF AwaitSent, At, Go
    <3> QED BY <1>4, <3>2, <3>3, <3>4
  <2>4a. /\ wire \in [Hosts -> Seq(Mails)] /\ pc \in [Clients -> ClientPcs]
         /\ sending \in [Hosts -> Nat] /\ messageSent \in [Hosts -> Nat]
    BY <1>0 DEF TypeOK
  <2>5. TypeOK'
    <3>1. wire' \in [Hosts -> Seq(Mails)]
      <4>1. wire[mail[c].to] \in Seq(Mails)
        BY <2>2, <2>4a
      <4>2. Append(wire[mail[c].to], mail[c]) \in Seq(Mails)
        BY <2>2, <4>1
      <4> QED BY <2>3, <2>4a, <4>2
    <3>2. sending' \in [Hosts -> Nat] /\ messageSent' \in [Hosts -> Nat]
      BY <1>0, <2>4, <2>4a
    <3>3. UNCHANGED <<inbox, messageAvailable, worker, letter>>
      BY <1>4 DEF Transmit, Retry, GiveUp, AwaitSent
    <3>4. pc' \in [Clients -> ClientPcs]
      BY <1>0, <2>1 DEF TypeOK, ClientPcs, SendPcs
    <3> QED BY <1>0, <2>1, <2>3, <3>1, <3>2, <3>3, <3>4 DEF TypeOK
  <2>6. \A d \in Clients : pc'[d] \in SendPcs <=> pc[d] \in SendPcs
    BY <1>0, <2>1 DEF TypeOK
  <2>7. \A k \in Hosts \ {h} : Waiting(k)' <=> Waiting(k)
    BY <1>0, <2>1 DEF Waiting, TypeOK
  <2>8. Waiting(h) <=> pc[c] \in SentPcs
    BY <2>1, WaitingIs
  <2>9. Waiting(h)' <=> pc'[c] \in SentPcs
    <3>1. \A d \in Clients \ {c} : HostOf[d] = h => pc[d] \notin SendPcs
      BY <2>1, SenderAlone
    <3>2. \A d \in Clients \ {c} : HostOf[d] = h => pc'[d] \notin SentPcs
      BY <3>1, <2>6 DEF SendPcs, SentPcs
    <3> QED BY <3>2 DEF Waiting
  <2>10. sending'[h] + messageSent'[h] = (IF pc'[c] \in SentPcs THEN 1 ELSE 0)
    <3>1. sending[h] + messageSent[h] = (IF pc[c] \in SentPcs THEN 1 ELSE 0)
      BY <1>0, <2>1, <2>8 DEF OutputInv
    <3>2. \/ sending'[h] = sending[h] + 1 /\ messageSent'[h] = messageSent[h]
          \/ sending'[h] = sending[h] /\ messageSent'[h] = messageSent[h]
          \/ sending'[h] = sending[h] /\ messageSent'[h] = messageSent[h] - 1
      BY <1>0, <2>4, <2>4a
    <3> QED BY <1>0, <2>4, <2>4a, <3>1 DEF SentPcs
  <2>11. \A k \in Hosts \ {h} : sending'[k] = sending[k] /\ messageSent'[k] = messageSent[k]
    BY <1>0, <2>4 DEF TypeOK
  <2>12. \A d \in Clients : up[HostOf[d]] = "new" => pc'[d] = "idle"
    BY <1>0, <2>1 DEF OutputInv, TypeOK
  <2>13. OutputInv'
    BY <1>0, <2>1, <2>6, <2>7, <2>9, <2>10, <2>11, <2>12 DEF OutputInv
  <2>14. CallInv'
    BY <1>0, <2>1, <2>2 DEF CallInv, TypeOK, Next1, SendPcs
  <2> QED BY <1>1, <2>5, <2>13, <2>14 DEF MailInv
<1>5. CASE ReleaseSend(c)
  <2>1. /\ pc[c] = "release" /\ pc' = [pc EXCEPT ![c] = "idle"] /\ up[h] = "running"
        /\ sendLock' = [sendLock EXCEPT ![h] = Nil]
    BY <1>5 DEF ReleaseSend, At, Active, Go
  <2>2. TypeOK'
    BY <1>0, <1>5, <2>1 DEF ReleaseSend, TypeOK, ClientPcs
  <2>3. OutputInv'
    <3>1. \A d \in Clients \ {c} : pc[d] \in SendPcs => HostOf[d] # h
      BY <2>1, SenderAlone DEF SendPcs
    <3>2. \A d \in Clients : pc'[d] \in SendPcs => sendLock'[HostOf[d]] = d
      BY <1>0, <2>1, <3>1, HostAssumption DEF OutputInv, TypeOK, SendPcs
    <3>3. \A k \in Hosts : Waiting(k)' <=> Waiting(k)
      BY <1>0, <2>1 DEF Waiting, SentPcs, TypeOK
    <3>4. \A d \in Clients : up[HostOf[d]] = "new" => pc'[d] = "idle"
      BY <1>0, <2>1 DEF OutputInv, TypeOK
    <3> QED BY <1>0, <1>5, <3>2, <3>3, <3>4 DEF ReleaseSend, OutputInv
  <2>4. CallInv'
    BY <1>0, <1>5, <2>1 DEF ReleaseSend, CallInv, TypeOK, Next1, SendPcs
  <2> QED BY <1>1, <2>2, <2>3, <2>4 DEF MailInv
<1> QED BY <1>2, <1>3, <1>4, <1>5

\* The steps of a client in Receive.
LEMMA ReceiveKeepsMail ==
  ASSUME MailInv, NEW c \in Clients, CallReceive(c) \/ GetFromBox(c) \/ ReturnMail(c)
  PROVE  MailInv'
<1> USE DEF hostVars, inVars, outVars, clientVars
<1>0. /\ TypeOK /\ InputInv /\ OutputInv /\ CallInv
      /\ pc \in [Clients -> ClientPcs] /\ HostOf[c] \in Hosts
  BY HostAssumption DEF MailInv, TypeOK
<1>1. InputInv'
  BY <1>0, InputStays DEF CallReceive, GetFromBox, ReturnMail
<1>2. /\ up[HostOf[c]] = "running" /\ pc[c] \in {"idle", "get", "received"}
      /\ \E p \in {"idle", "get", "received"} : pc' = [pc EXCEPT ![c] = p]
      /\ UNCHANGED <<up, messageSent, sendLock, sending>>
  BY DEF CallReceive, GetFromBox, ReturnMail, At, Active, Go
<1>3. OutputInv'
  <2>1. \A d \in Clients : pc'[d] \in SendPcs <=> pc[d] \in SendPcs
    BY <1>0, <1>2 DEF SendPcs
  <2>2. \A k \in Hosts : Waiting(k)' <=> Waiting(k)
    BY <1>0, <1>2 DEF Waiting, SentPcs
  <2>3. \A d \in Clients : up[HostOf[d]] = "new" => pc'[d] = "idle"
    BY <1>0, <1>2 DEF OutputInv
  <2> QED BY <1>0, <1>2, <2>1, <2>2, <2>3 DEF OutputInv
<1>4. CASE CallReceive(c)
  <2>1. TypeOK'
    BY <1>0, <1>2, <1>4 DEF CallReceive, TypeOK, ClientPcs
  <2>2. CallInv'
    BY <1>0, <1>4 DEF CallReceive, At, Go, CallInv, Next1, SendPcs
  <2> QED BY <1>1, <1>3, <2>1, <2>2 DEF MailInv
<1>5. CASE GetFromBox(c)
  <2>1. step[c] \in DOMAIN Script[c] /\ Next1(c).op = "receive" /\ Next1(c) \in ScriptSteps
    BY <1>0, <1>5, ScriptCalls DEF GetFromBox, At, CallInv
  <2>2. Next1(c).box \in Boxes
    BY <2>1 DEF ScriptSteps
  <2>3. boxes \in [Hosts -> [Boxes -> Seq(Mails)]]
    BY <1>0 DEF TypeOK
  <2>4. /\ boxes[HostOf[c]][Next1(c).box] \in Seq(Mails)
        /\ boxes[HostOf[c]][Next1(c).box] # <<>>
    BY <1>0, <1>5, <2>2, <2>3 DEF GetFromBox
  <2>5. /\ Head(boxes[HostOf[c]][Next1(c).box]) \in Mails
        /\ Tail(boxes[HostOf[c]][Next1(c).box]) \in Seq(Mails)
    BY <2>4
  <2>6. boxes' \in [Hosts -> [Boxes -> Seq(Mails)]]
    BY <1>5, <2>2, <2>3, <2>5 DEF GetFromBox
  <2>7. got' \in [Clients -> Mails \cup {Nil}]
    BY <1>0, <1>5, <2>5 DEF GetFromBox, TypeOK
  <2>8. TypeOK'
    BY <1>0, <1>2, <1>5, <2>6, <2>7 DEF GetFromBox, TypeOK, ClientPcs
  <2>9. CallInv'
    BY <1>0, <1>5, <2>1 DEF GetFromBox, At, Go, CallInv, Next1, SendPcs
  <2> QED BY <1>1, <1>3, <2>8, <2>9 DEF MailInv
<1>6. CASE ReturnMail(c)
  <2>1. TypeOK'
    BY <1>0, <1>2, <1>6 DEF ReturnMail, TypeOK, ClientPcs
  <2>2. CallInv'
    BY <1>0, <1>6 DEF ReturnMail, At, Go, CallInv, Next1, SendPcs
  <2> QED BY <1>1, <1>3, <2>1, <2>2 DEF MailInv
<1> QED BY <1>4, <1>5, <1>6

\* Every step keeps the invariant.
LEMMA NextMail == MailInv /\ [Next]_vars => MailInv'
<1> SUFFICES ASSUME MailInv, [Next]_vars PROVE MailInv'
  OBVIOUS
<1>1. CASE \E h \in Hosts : HostStep(h) \/ Stop(h)
  BY <1>1, HostKeepsMail
<1>2. CASE \E c \in Clients : ClientStep(c)
  BY <1>2, SendKeepsMail, ReceiveKeepsMail DEF ClientStep
<1>3. CASE UNCHANGED vars
  <2>1. TypeOK'
    BY <1>3 DEF MailInv, TypeOK, vars, hostVars, inVars, outVars, clientVars
  <2> QED
    BY <1>3, <2>1, InputStays, OutputStays, CallStays
       DEF MailInv, vars, hostVars, inVars, outVars, clientVars
<1> QED BY <1>1, <1>2, <1>3 DEF Next

\* The inductive invariant of the post offices.
THEOREM MailHolds == Spec => []MailInv
<1>1. MailInv /\ [Next]_vars => MailInv'
  BY NextMail
<1> QED BY InitMail, <1>1, PTL DEF Spec

-----------------------------------------------------------------------------
\* Every variable of the post offices keeps its type; in particular the postal
\* worker never puts a letter away that is none.
THEOREM PostOfficeTyped == Spec => []TypeOK
<1>1. MailInv => TypeOK
  BY DEF MailInv
<1> QED BY <1>1, MailHolds, PTL

\* NetworkInput's one packet and the semaphore of PostOfficeInput agree, for any
\* traffic: the worker never receives an empty buffer, and no packet is left there
\* unannounced.
THEOREM PacketsAnnounced == Spec => []PacketAnnounced
<1>1. MailInv => PacketAnnounced
  BY DEF MailInv, InputInv, PacketAnnounced
<1> QED BY <1>1, MailHolds, PTL

\* PostOfficeOutput::Send has one packet at a time in the hardware, and the signal
\* it waits for is its own, though NetworkOutput's sendBusy is never set.
THEOREM SendsOneAtATime == Spec => []OneAtATime
<1>1. MailInv => OneAtATime
  <2> SUFFICES ASSUME MailInv, NEW h \in Hosts, up[h] = "running"
               PROVE  /\ \A c \in Senders(h) : sendLock[h] = c
                      /\ sending[h] + messageSent[h] = Cardinality(Sent(h))
    BY DEF OneAtATime
  <2>1. \A c \in Senders(h) : c \in Clients /\ HostOf[c] = h /\ pc[c] \in SendPcs
    BY DEF Senders, SendPcs
  <2>2. \A c \in Senders(h) : sendLock[h] = c
    BY <2>1 DEF MailInv, OutputInv
  <2>3. sending[h] + messageSent[h] = (IF Waiting(h) THEN 1 ELSE 0)
    BY DEF MailInv, OutputInv
  <2>4. Sent(h) = {c \in Clients : HostOf[c] = h /\ pc[c] \in SentPcs}
    BY DEF Sent, Senders, SentPcs
  <2>5. CASE Waiting(h)
    <3>1. PICK c \in Clients : HostOf[c] = h /\ pc[c] \in SentPcs
      BY <2>5 DEF Waiting
    <3>2. Sent(h) = {c}
      BY <2>2, <2>4, <3>1 DEF Sent
    <3> QED BY <2>2, <2>3, <2>5, <3>2, FS_Singleton
  <2>6. CASE ~Waiting(h)
    <3>1. Sent(h) = {}
      BY <2>4, <2>6 DEF Waiting
    <3> QED BY <2>2, <2>3, <2>6, <3>1, FS_EmptySet
  <2> QED BY <2>5, <2>6
<1> QED BY <1>1, MailHolds, PTL

-----------------------------------------------------------------------------
(* The refinement.                                                         *)

\* The mail on its way to h, and the calls, as MailService sees them.
On(h) == Letters(letter[h]) \o Letters(inbox[h]) \o wire[h]
Channel == [h \in Hosts |-> On(h)]
Calls == [c \in Clients |-> AbstractCall(c)]

LEMMA CallsStay ==
  ASSUME UNCHANGED <<pc, step, mail, got>>
  PROVE  UNCHANGED Calls
BY DEF Calls, AbstractCall, Next1

LEMMA ChannelStays ==
  ASSUME UNCHANGED <<wire, inbox, letter>>
  PROVE  UNCHANGED Channel
BY DEF Channel, On, Letters

\* A step of c changes the call of c only.
LEMMA OneCall ==
  ASSUME NEW c \in Clients,
         \A d \in Clients \ {c} : pc'[d] = pc[d] /\ step'[d] = step[d] /\ mail'[d] = mail[d]
                                    /\ got'[d] = got[d]
  PROVE  Calls' = [Calls EXCEPT ![c] = AbstractCall(c)']
<1>1. \A d \in Clients \ {c} : AbstractCall(d)' = AbstractCall(d)
  BY DEF AbstractCall, Next1
<1> QED BY <1>1 DEF Calls

LEMMA MailConcat ==
  ASSUME NEW s \in Seq(Mails), NEW t \in Seq(Mails), NEW u \in Seq(Mails)
  PROVE  (s \o t) \o u = s \o (t \o u)
BY ConcatAssociative

\* What is on its way to a host is mail.
LEMMA OnIsMail ==
  ASSUME MailInv, NEW h \in Hosts
  PROVE  On(h) \in Seq(Mails)
<1>1. wire[h] \in Seq(Mails) /\ inbox[h] \in Mails \cup {Nil} /\ letter[h] \in Mails \cup {Nil}
  BY DEF MailInv, TypeOK
<1>2. Letters(inbox[h]) \in Seq(Mails) /\ Letters(letter[h]) \in Seq(Mails)
  BY <1>1 DEF Letters
<1>3. Letters(letter[h]) \o Letters(inbox[h]) \in Seq(Mails)
  BY <1>2
<1> QED BY <1>1, <1>3 DEF On

\* The kernels start with no mail on its way, in no box, and no call.
LEMMA InitService == Init => Service!Init
<1> SUFFICES ASSUME Init PROVE Service!Init
  OBVIOUS
<1>1. \A h \in Hosts : On(h) = <<>>
  BY DEF Init, On, Letters
<1>2. \A c \in Clients : AbstractCall(c) = Service!Idle
  BY DEF Init, AbstractCall, Service!Idle
<1> QED BY <1>1, <1>2 DEF Init, Empty, Service!Init, On

\* A step of a machine is the delivery of a letter, the stop of the machine, or
\* moves the mail nearer to its box, which nobody sees.
LEMMA HostServes ==
  ASSUME MailInv, NEW h \in Hosts, HostStep(h) \/ Stop(h)
  PROVE  \/ UNCHANGED <<Channel, boxes, Calls>>
         \/ Service!Deliver(h) \/ Service!Stop(h)
<1> USE DEF hostVars, inVars, outVars, clientVars
<1>0. /\ wire \in [Hosts -> Seq(Mails)] /\ inbox \in [Hosts -> Mails \cup {Nil}]
      /\ letter \in [Hosts -> Mails \cup {Nil}]
  BY DEF MailInv, TypeOK
<1>1. CASE Boot(h) \/ AwaitMessage(h) \/ SendInterrupt(h)
  BY <1>1, CallsStay, ChannelStays DEF Boot, AwaitMessage, SendInterrupt
<1>2. CASE PollNetwork(h)
  <2>1. wire[h] # <<>> /\ inbox[h] = Nil /\ inbox'[h] = Head(wire[h])
        /\ wire'[h] = Tail(wire[h]) /\ letter'[h] = letter[h]
    BY <1>0, <1>2 DEF PollNetwork
  <2>2. Head(wire[h]) \in Mails /\ Tail(wire[h]) \in Seq(Mails) /\ Head(wire[h]) # Nil
        /\ wire[h] = <<Head(wire[h])>> \o Tail(wire[h])
    BY <1>0, <2>1, NilAssumption
  <2>3. Letters(letter[h]) \in Seq(Mails)
    BY <1>0 DEF Letters
  <2>4. On(h)' = Letters(letter[h]) \o <<Head(wire[h])>> \o Tail(wire[h])
    BY <2>1, <2>2 DEF On, Letters
  <2>5. On(h) = Letters(letter[h]) \o wire[h]
    BY <2>1, <2>3 DEF On, Letters
  <2>6. On(h)' = On(h)
    <3>1. <<Head(wire[h])>> \in Seq(Mails)
      BY <2>2
    <3>2. On(h)' = Letters(letter[h]) \o (<<Head(wire[h])>> \o Tail(wire[h]))
      BY <2>2, <2>3, <2>4, <3>1, MailConcat
    <3> QED BY <2>2, <2>5, <3>2
  <2>7. \A k \in Hosts \ {h} : On(k)' = On(k)
    BY <1>0, <1>2 DEF PollNetwork, On
  <2>8. UNCHANGED Channel
    BY <2>6, <2>7 DEF Channel
  <2> QED BY <1>2, <2>8, CallsStay DEF PollNetwork
<1>3. CASE ReceivePacket(h)
  <2>1. letter[h] = Nil /\ letter'[h] = inbox[h] /\ inbox'[h] = Nil /\ wire'[h] = wire[h]
    BY <1>0, <1>3 DEF ReceivePacket, Active, MailInv, InputInv
  <2>2. Letters(inbox[h]) \in Seq(Mails) /\ wire[h] \in Seq(Mails)
    BY <1>0 DEF Letters
  <2>3. On(h)' = Letters(inbox[h]) \o <<>> \o wire[h]
    BY <2>1 DEF On, Letters
  <2>4. On(h) = <<>> \o Letters(inbox[h]) \o wire[h]
    BY <2>1 DEF On, Letters
  <2>5. On(h)' = On(h)
    BY <2>2, <2>3, <2>4
  <2>6. \A k \in Hosts \ {h} : On(k)' = On(k)
    BY <1>0, <1>3 DEF ReceivePacket, On
  <2>7. UNCHANGED Channel
    BY <2>5, <2>6 DEF Channel
  <2> QED BY <1>3, <2>7, CallsStay DEF ReceivePacket
<1>4. CASE PutInBox(h)
  <2>1. letter[h] \in Mails /\ letter'[h] = Nil /\ wire' = wire /\ inbox' = inbox
    BY <1>0, <1>4 DEF PutInBox, Active, MailInv, InputInv
  <2>2. DEFINE rest == Letters(inbox[h]) \o wire[h]
  <2>3. rest \in Seq(Mails) /\ Letters(inbox[h]) \in Seq(Mails) /\ wire[h] \in Seq(Mails)
    BY <1>0 DEF Letters
  <2>4. On(h) = <<letter[h]>> \o rest
    <3>1. On(h) = <<letter[h]>> \o Letters(inbox[h]) \o wire[h]
      BY <2>1, NilAssumption DEF On, Letters
    <3>2. <<letter[h]>> \in Seq(Mails)
      BY <2>1
    <3> QED BY <2>3, <3>1, <3>2, MailConcat
  <2>5. On(h)' = rest
    BY <2>1, <2>3 DEF On, Letters
  <2>6. On(h) # <<>> /\ Head(On(h)) = letter[h] /\ Tail(On(h)) = rest
    <3> HIDE DEF rest
    <3> QED BY <2>1, <2>3, <2>4
  <2>7. \A k \in Hosts \ {h} : On(k)' = On(k)
    BY <1>0, <1>4 DEF PutInBox, On
  <2>8. Channel' = [Channel EXCEPT ![h] = Tail(Channel[h])]
    BY <2>5, <2>6, <2>7 DEF Channel
  <2>9. Channel[h] # <<>> /\ Head(Channel[h]) = letter[h]
    BY <2>6 DEF Channel
  <2>10. boxes' = [boxes EXCEPT ![h][Head(Channel[h]).box] = Append(@, Head(Channel[h]))]
    BY <1>4, <2>9 DEF PutInBox
  <2>11. UNCHANGED Calls
    BY <1>4, CallsStay DEF PutInBox
  <2>12. Service!Deliver(h)
    BY <2>8, <2>9, <2>10, <2>11 DEF Service!Deliver, Channel, Calls, On
  <2> QED BY <2>12
<1>5. CASE Stop(h)
  <2>1. On(h)' = <<>>
    BY <1>0, <1>5 DEF Stop, On, Letters
  <2>2. \A k \in Hosts \ {h} : On(k)' = On(k)
    BY <1>0, <1>5 DEF Stop, On
  <2>3. Channel' = [Channel EXCEPT ![h] = <<>>]
    BY <2>1, <2>2 DEF Channel
  <2>4. ASSUME NEW c \in Clients, HostOf[c] = h PROVE AbstractCall(c)' = Service!Idle
    BY <1>5, <2>4 DEF Stop, AbstractCall, Service!Idle
  <2>5. ASSUME NEW c \in Clients, HostOf[c] # h PROVE AbstractCall(c)' = AbstractCall(c)
    BY <1>5, <2>5 DEF Stop, AbstractCall, Next1
  <2>6. Calls' = [c \in Clients |-> IF HostOf[c] = h THEN Service!Idle ELSE Calls[c]]
    BY <2>4, <2>5 DEF Calls
  <2>7. boxes' = [boxes EXCEPT ![h] = [b \in Boxes |-> <<>>]]
    BY <1>5 DEF Stop, Empty
  <2>8. Service!Stop(h)
    BY <2>3, <2>6, <2>7 DEF Service!Stop, Channel, Calls, On
  <2> QED BY <2>8
<1> QED BY <1>1, <1>2, <1>3, <1>4, <1>5 DEF HostStep

\* A step of a client is a call, the taking effect of one, its return, or nothing
\* that a client sees.
LEMMA ClientServes ==
  ASSUME MailInv, NEW c \in Clients, ClientStep(c)
  PROVE  \/ UNCHANGED <<Channel, boxes, Calls>>
         \/ Service!Invoke(c) \/ Service!Post(c) \/ Service!Collect(c) \/ Service!Return(c)
<1> USE DEF hostVars, inVars, outVars, clientVars
<1>0. /\ pc \in [Clients -> ClientPcs] /\ mail \in [Clients -> Mails \cup {Nil}]
      /\ got \in [Clients -> Mails \cup {Nil}] /\ step \in [Clients -> Nat \ {0}]
      /\ wire \in [Hosts -> Seq(Mails)] /\ HostOf[c] \in Hosts
  BY HostAssumption DEF MailInv, TypeOK
<1>1. CASE CallSend(c)
  <2>1. PICK m \in Mails : mail' = [mail EXCEPT ![c] = m]
    BY <1>1, CallSendWrites
  <2>2. pc[c] = "idle" /\ pc' = [pc EXCEPT ![c] = "acquire"] /\ UNCHANGED <<step, got, boxes>>
    BY <1>1 DEF CallSend, At, Go
  <2>3. Calls' = [Calls EXCEPT ![c] = AbstractCall(c)']
    BY <1>0, <2>1, <2>2, OneCall
  <2>4. Calls[c] = Service!Idle
    BY <2>2 DEF Calls, AbstractCall, Service!Idle
  <2>5. AbstractCall(c)' = Service!SendCall(m, FALSE)
    BY <1>0, <2>1, <2>2 DEF AbstractCall, Service!SendCall
  <2>6. UNCHANGED Channel
    BY <1>1, ChannelStays DEF CallSend
  <2>7. Calls'[c].mail = m
    BY <2>3, <2>5 DEF Calls, Service!SendCall
  <2>8. Service!Invoke(c)
    BY <2>2, <2>3, <2>4, <2>5, <2>6, <2>7 DEF Service!Invoke, Channel, Calls, On
  <2> QED BY <2>8
<1>2. CASE AcquireSend(c) \/ AwaitSent(c)
  <2>1. \/ pc[c] = "acquire" /\ pc' = [pc EXCEPT ![c] = "transmit"]
        \/ pc[c] = "await" /\ pc' = [pc EXCEPT ![c] = "release"]
    BY <1>2 DEF AcquireSend, AwaitSent, At, Go
  <2>2. UNCHANGED <<step, mail, got, boxes, wire, inbox, letter>>
    BY <1>2 DEF AcquireSend, AwaitSent
  <2>3. \A d \in Clients : AbstractCall(d)' = AbstractCall(d)
    BY <1>0, <2>1, <2>2 DEF AbstractCall, Next1
  <2> QED BY <2>2, <2>3, ChannelStays DEF Calls
<1>3. CASE Transmit(c) \/ Retry(c) \/ GiveUp(c)
  <2>1. /\ pc[c] \in {"transmit", "retry"}
        /\ UNCHANGED <<step, mail, got, boxes, inbox, letter>>
    BY <1>3 DEF Transmit, Retry, GiveUp, At
  <2>2. mail[c] \in Mails /\ mail[c].to \in Hosts
    BY <2>1 DEF MailInv, CallInv, SendPcs, Mails
  <2>3. \/ pc' = [pc EXCEPT ![c] = "retry"] /\ UNCHANGED wire
        \/ pc' = [pc EXCEPT ![c] = "await"] /\ UNCHANGED wire
        \/ /\ pc' = [pc EXCEPT ![c] = "await"]
           /\ wire' = [wire EXCEPT ![mail[c].to] = Append(@, mail[c])]
    BY <1>3 DEF Transmit, Retry, GiveUp, Go
  <2>4. CASE pc' = [pc EXCEPT ![c] = "retry"] /\ UNCHANGED wire
    <3>1. \A d \in Clients : AbstractCall(d)' = AbstractCall(d)
      BY <1>0, <2>1, <2>4 DEF AbstractCall, Next1
    <3> QED BY <2>1, <2>4, <3>1, ChannelStays DEF Calls
  <2>5. CASE pc' = [pc EXCEPT ![c] = "await"]
    <3>1. Calls' = [Calls EXCEPT ![c] = AbstractCall(c)']
      BY <1>0, <2>1, <2>5, OneCall
    <3>2. Calls[c] = Service!SendCall(mail[c], FALSE)
      BY <2>1 DEF Calls, AbstractCall, Service!SendCall
    <3>3. AbstractCall(c)' = Service!SendCall(mail[c], TRUE)
      BY <1>0, <2>1, <2>5 DEF AbstractCall, Service!SendCall
    <3>4. /\ Calls[c].op = "send" /\ ~Calls[c].done /\ Calls[c].mail = mail[c]
      BY <3>2 DEF Service!SendCall
    <3>5. \/ UNCHANGED Channel
          \/ Channel' = [Channel EXCEPT ![mail[c].to] = Append(@, mail[c])]
      <4>1. CASE UNCHANGED wire
        BY <2>1, <4>1, ChannelStays
      <4>2. CASE wire' = [wire EXCEPT ![mail[c].to] = Append(@, mail[c])]
        <5>0. PICK k \in Hosts : k = mail[c].to
          BY <2>2
        <5> DEFINE before == Letters(letter[k]) \o Letters(inbox[k])
        <5>1. wire'[k] = Append(wire[k], mail[c]) /\ wire[k] \in Seq(Mails)
          BY <1>0, <5>0, <4>2
        <5>2. before \in Seq(Mails)
          <6>1. letter[k] \in Mails \cup {Nil} /\ inbox[k] \in Mails \cup {Nil}
            BY DEF MailInv, TypeOK
          <6>2. Letters(letter[k]) \in Seq(Mails) /\ Letters(inbox[k]) \in Seq(Mails)
            BY <6>1 DEF Letters
          <6> QED BY <6>2
        <5>3. On(k) = before \o wire[k] /\ On(k)' = before \o wire'[k]
          BY <2>1 DEF On, Letters
        <5>4. before \o Append(wire[k], mail[c]) = Append(before \o wire[k], mail[c])
          <6> HIDE DEF before
          <6> QED BY <2>2, <5>1, <5>2
        <5>5. On(k)' = Append(On(k), mail[c])
          BY <5>1, <5>3, <5>4
        <5>6. \A j \in Hosts \ {k} : On(j)' = On(j)
          BY <1>0, <2>1, <4>2, <5>0 DEF On, Letters
        <5>7. Channel' = [Channel EXCEPT ![k] = Append(Channel[k], mail[c])]
          BY <5>5, <5>6 DEF Channel
        <5> QED BY <5>0, <5>7
      <4> QED BY <2>3, <4>1, <4>2
    <3>6. Service!Post(c)
      BY <2>1, <3>1, <3>3, <3>4, <3>5 DEF Service!Post, Channel, Calls, On
    <3> QED BY <3>6
  <2> QED BY <2>3, <2>4, <2>5
<1>4. CASE ReleaseSend(c) \/ ReturnMail(c)
  <2>1. /\ pc[c] \in {"release", "received"} /\ pc' = [pc EXCEPT ![c] = "idle"]
        /\ \A d \in Clients \ {c} : mail'[d] = mail[d] /\ step'[d] = step[d]
        /\ UNCHANGED <<got, boxes, wire, inbox, letter>>
    BY <1>0, <1>4 DEF ReleaseSend, ReturnMail, At, Go
  <2>2. Calls' = [Calls EXCEPT ![c] = AbstractCall(c)']
    BY <1>0, <2>1, OneCall
  <2>3. Calls[c].done
    BY <2>1 DEF Calls, AbstractCall
  <2>4. AbstractCall(c)' = Service!Idle
    BY <1>0, <2>1 DEF AbstractCall, Service!Idle
  <2>5. Service!Return(c)
    BY <2>1, <2>2, <2>3, <2>4, ChannelStays DEF Service!Return, Channel, Calls, On
  <2> QED BY <2>5
<1>5. CASE CallReceive(c)
  <2>1. /\ pc[c] = "idle" /\ pc' = [pc EXCEPT ![c] = "get"]
        /\ step[c] \in DOMAIN Script[c] /\ Next1(c).op = "receive"
        /\ UNCHANGED <<step, mail, got, boxes, wire, inbox, letter>>
    BY <1>5 DEF CallReceive, At, Go
  <2>2. Next1(c).box \in Boxes
    BY <2>1, ScriptCalls DEF ScriptSteps
  <2>3. Calls' = [Calls EXCEPT ![c] = AbstractCall(c)']
    BY <1>0, <2>1, OneCall
  <2>4. Calls[c] = Service!Idle
    BY <2>1 DEF Calls, AbstractCall, Service!Idle
  <2>5. AbstractCall(c)' = Service!ReceiveCall(Next1(c).box, Nil, FALSE)
    BY <1>0, <2>1 DEF AbstractCall, Next1, Service!ReceiveCall
  <2>6. Service!Invoke(c)
    BY <2>1, <2>2, <2>3, <2>4, <2>5, ChannelStays DEF Service!Invoke, Channel, Calls, On
  <2> QED BY <2>6
<1>6. CASE GetFromBox(c)
  <2> DEFINE b == Next1(c).box
             box == boxes[HostOf[c]][b]
  <2>1. /\ pc[c] = "get" /\ pc' = [pc EXCEPT ![c] = "received"] /\ box # <<>>
        /\ got' = [got EXCEPT ![c] = Head(box)]
        /\ boxes' = [boxes EXCEPT ![HostOf[c]][b] = Tail(@)]
        /\ UNCHANGED <<step, mail, wire, inbox, letter>>
    BY <1>6 DEF GetFromBox, At, Go
  <2>2. Calls' = [Calls EXCEPT ![c] = AbstractCall(c)']
    BY <1>0, <2>1, OneCall
  <2>3. Calls[c] = Service!ReceiveCall(b, Nil, FALSE)
    BY <2>1 DEF Calls, AbstractCall, Service!ReceiveCall
  <2>4. Calls[c].op = "receive" /\ ~Calls[c].done /\ Calls[c].box = b
    BY <2>3 DEF Service!ReceiveCall
  <2>5. AbstractCall(c)' = Service!ReceiveCall(b, Head(box), TRUE)
    BY <1>0, <2>1 DEF AbstractCall, Next1, Service!ReceiveCall
  <2>6. /\ boxes[HostOf[c]][Calls[c].box] # <<>>
        /\ boxes' = [boxes EXCEPT ![HostOf[c]][Calls[c].box] = Tail(@)]
        /\ Calls' = [Calls EXCEPT ![c] =
             Service!ReceiveCall(@.box, Head(boxes[HostOf[c]][@.box]), TRUE)]
    BY <2>1, <2>2, <2>4, <2>5 DEF Calls
  <2>7. Service!Collect(c)
    BY <2>1, <2>4, <2>6, ChannelStays DEF Service!Collect, Channel, Calls, On
  <2> QED BY <2>7
<1> QED BY <1>1, <1>2, <1>3, <1>4, <1>5, <1>6 DEF ClientStep

\* The post offices, their network, their worker threads and their locks deliver
\* mail as MailService says: what is not lost comes once, in order, in the box it
\* names, for any number of machines, clients and packets.
THEOREM PostOfficeDelivers == Spec => Delivers
<1>1. MailInv /\ [Next]_vars => [Service!Next]_<<Channel, boxes, Calls>>
  <2> SUFFICES ASSUME MailInv, [Next]_vars
               PROVE  Service!Next \/ UNCHANGED <<Channel, boxes, Calls>>
    OBVIOUS
  <2>1. ASSUME NEW h \in Hosts, HostStep(h) \/ Stop(h)
        PROVE  Service!Next \/ UNCHANGED <<Channel, boxes, Calls>>
    BY <2>1, HostServes DEF Service!Next
  <2>2. ASSUME NEW c \in Clients, ClientStep(c)
        PROVE  Service!Next \/ UNCHANGED <<Channel, boxes, Calls>>
    BY <2>2, ClientServes DEF Service!Next
  <2>3. CASE UNCHANGED vars
    BY <2>3, ChannelStays, CallsStay
       DEF vars, hostVars, inVars, outVars, clientVars
  <2> QED BY <2>1, <2>2, <2>3 DEF Next
<1> QED BY InitService, <1>1, MailHolds, PTL DEF Spec, Delivers, Service!Spec, Channel, Calls, On
===============================================================================
