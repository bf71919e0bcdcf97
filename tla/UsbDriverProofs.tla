--------------------------- MODULE UsbDriverProofs ---------------------------
(* Proofs about UsbDriver for every set of requests: the address, and that *)
(* a host is answered in order and told of nothing that was not done.      *)
EXTENDS UsbDriver, TLAPS

\* A packet is filled, and sent or about to be made ready.
Filled == usbTxLen = "DATA" \/ pc = "send"

\* What is ready continues the answer to the host's request, and what usbPoll
\* reads next goes on from there.
Answering ==
  IF Filled
    THEN LET left == ReplyLen(request) - got
         IN /\ usbTxBuf.pid = expect /\ usbTxBuf.at = got
            /\ usbTxBuf.len = IF left > 8 THEN 8 ELSE left
            /\ usbTxBuf.len > 0 => usbTxBuf.ptr = Source(request)
            /\ usbMsgPtr = [ptr |-> Source(request), at |-> got + usbTxBuf.len]
            /\ usbMsgLen = IF left < 8 THEN NO_MSG ELSE left - usbTxBuf.len
    ELSE /\ usbTxBuf.pid = 1 - expect
         /\ usbMsgPtr = [ptr |-> Source(request), at |-> got]
         /\ usbMsgLen = ReplyLen(request) - got

\* The first packet of an answer has token DATA1.
StatusReady ==
  /\ expect = 1
  /\ Filled => usbTxBuf.pid = 1
  /\ ~Filled /\ usbMsgLen # NO_MSG => usbTxBuf.pid = 0

\* Between the SETUP that was acknowledged and the end of the transfer: the
\* SETUP waits, or was worked on.
AnswerInv ==
  stage \in {"in", "out", "status"} =>
    IF Unprocessed
      THEN Received = request /\ got = 0 /\ expect = 1
      ELSE /\ stage = "in" => Answering /\ got <= ReplyLen(request)
           /\ ~DataIn(request) => StatusReady
           /\ request.bRequest = "SET_CONFIGURATION"
                => usbConfiguration = request.wValue
           /\ request.bRequest = "SET_ADDRESS"
                => usbNewDeviceAddr = request.wValue

\* SET_ADDRESS is the only way to another address.
Moving == request.bRequest = "SET_ADDRESS" /\ stage \in {"setup", "status"}

AddressInv ==
  /\ AddressKept
  /\ ~lost => \/ usbNewDeviceAddr = usbDeviceAddr
              \/ Moving /\ usbNewDeviceAddr = request.wValue
  /\ ~lost /\ Unprocessed /\ Received.bRequest = "SET_ADDRESS"
       => Moving /\ Received = request

\* usbPoll works on a packet that waits, and fills a buffer that is not sent.
PollInv ==
  /\ pc \in {"rx", "free"} => usbRxLen # 0
  /\ pc = "send" => usbTxLen = "NAK"
  /\ pc = "rx" /\ usbRxToken = "SETUP" => Received \in Requests
  /\ stage = "setup" => got = 0 /\ expect = 1
  /\ stage = "in" => DataIn(request)
  /\ stage = "out" => ~DataIn(request) /\ request.wLength > 0
  /\ bus = "reset" => stage = "none" /\ address = 0

DriverInv == UsbTypeOK /\ PollInv /\ AnswerInv /\ AddressInv

LEMMA RequestTypes ==
  ASSUME NEW rq \in Requests
  PROVE  /\ rq.wLength \in Nat /\ rq.wValue \in Nat /\ rq.in \in BOOLEAN
         /\ ~rq.in => rq.wLength <= 8
         /\ rq.bRequest = "SET_ADDRESS" => ~rq.in /\ rq.wLength = 0
  BY RequestsAssumption DEF Setups

\* No answer is longer than a descriptor, or than the host asks for.
LEMMA ReplyLenBound ==
  ASSUME NEW rq \in Requests
  PROVE  ReplyLen(rq) \in 0..63 /\ ReplyLen(rq) <= rq.wLength
<1>1. rq.wLength \in Nat /\ rq \in Setups
  BY RequestsAssumption DEF Setups
<1>2. /\ Message(rq).len \in 0..63 \cup {255}
      /\ Message(rq).len = 255 => rq.wLength = 1
  <2>1. usbDriverDescriptor(rq.wValue).len \in 0..63
    BY DEF usbDriverDescriptor, Flash, NoDescriptor, DeviceDescriptorLen,
           ConfigurationDescriptorLen, HidDescriptorLen,
           HidReportDescriptorLen, StringDescriptorLen
  <2>2. usbDriverSetup(rq).len \in 0..63
    BY <2>1 DEF usbDriverSetup
  <2>3. /\ usbFunctionSetup(rq).len \in 0..63 \cup {255}
        /\ usbFunctionSetup(rq).len = 255 => rq.wLength = 1
    BY DEF usbFunctionSetup
  <2>. QED
    BY <2>2, <2>3 DEF Message
<1>. QED
  BY <1>1, <1>2 DEF ReplyLen

LEMMA SourceInMemory == ASSUME NEW rq PROVE Source(rq) \in Memory
<1>1. usbDriverDescriptor(rq.wValue).ptr \in Memory
  BY DEF usbDriverDescriptor, Flash, NoDescriptor, Memory
<1>2. usbDriverSetup(rq).ptr \in Memory
  BY <1>1 DEF usbDriverSetup, Memory
<1>3. usbFunctionSetup(rq).ptr \in Memory
  BY DEF usbFunctionSetup, Memory
<1>. QED
  BY <1>2, <1>3 DEF Source, Message

LEMMA RequestNotEmpty == Empty \notin Requests
<1>1. \A rq \in Requests : rq.bRequest # "EMPTY"
  BY RequestsAssumption DEF Setups, StandardRequests, ClassRequests
<1>. QED
  BY <1>1 DEF Empty, NoSetup

LEMMA DriverInit == UsbInit => DriverInv
<1>. SUFFICES ASSUME UsbInit PROVE DriverInv
  OBVIOUS
<1>. USE DEF UsbInit
<1>1. UsbTypeOK
  <2>1. rxBuf \in [{0, 1} -> Packets]
    BY DEF Packets
  <2>2. usbTxBuf \in [pid: {0, 1}, ptr: Memory, at: Nat, len: 0..8]
    BY DEF NoPacket, Memory
  <2>3. usbMsgPtr \in [ptr: Memory, at: Nat]
    BY DEF NoMessage, Memory
  <2>4. lost \in BOOLEAN
    OBVIOUS
  <2>. QED
    BY <2>1, <2>2, <2>3, <2>4 DEF UsbTypeOK, NO_MSG
<1>2. PollInv /\ AnswerInv /\ AddressInv
  BY DEF PollInv, AnswerInv, AddressInv, AddressKept, Unprocessed
<1>. QED
  BY <1>1, <1>2 DEF DriverInv

LEMMA TypeStep ==
  ASSUME UsbTypeOK, PollInv, [UsbNext]_usbVars
  PROVE  UsbTypeOK'
<1>. USE DEF UsbTypeOK, PollInv, Received, Packets
<1>1. CASE PollRx
  BY <1>1 DEF PollRx, receiver, sender, addresses, host, transfer
<1>2. CASE ProcessRx
  <2>1. CASE usbRxToken = "SETUP"
    <3>1. Received \in Requests
      BY <1>2, <2>1 DEF ProcessRx
    <3>2. /\ ReplyLen(Received) \in Nat /\ Received.wValue \in Nat
          /\ Source(Received) \in Memory
      BY <3>1, ReplyLenBound, RequestTypes, SourceInMemory
    <3>. QED
      BY <1>2, <2>1, <3>2
         DEF ProcessRx, receiver, addresses, host, transfer, SetAddress
  <2>2. CASE usbRxToken # "SETUP"
    BY <1>2, <2>2 DEF ProcessRx, receiver, sender, addresses, host, transfer
  <2>. QED
    BY <2>1, <2>2
<1>3. CASE FreeRx
  BY <1>3 DEF FreeRx, sender, addresses, host, transfer
<1>4. CASE BuildTx
  BY <1>4
     DEF BuildTx, receiver, sender, addresses, host, transfer, usbBuildTxBlock,
         Remaining, NO_MSG
<1>5. CASE SendTx
  BY <1>5 DEF SendTx, receiver, addresses, host, transfer
<1>6. CASE CheckLine
  <2>1. lost' \in BOOLEAN
    BY <1>6 DEF CheckLine
  <2>2. usbNewDeviceAddr' \in Nat /\ usbDeviceAddr' \in Nat
    BY <1>6 DEF CheckLine, ResetAddresses, addresses
  <2>. QED
    BY <1>6, <2>1, <2>2 DEF CheckLine, receiver, sender, transfer
<1>7. CASE SetupAcked
  BY <1>7 DEF SetupAcked, sender, addresses, Receive, Accept, AfterSetup
<1>8. CASE SetupNak
  BY <1>8 DEF SetupNak, sender, addresses, host, transfer, Receive, NakOut
<1>9. CASE InData
  BY <1>9 DEF InData, receiver, Send
<1>10. CASE InStatus
  <2>1. address' \in Nat
    BY <1>10, RequestTypes DEF InStatus
  <2>. QED
    BY <1>10, <2>1 DEF InStatus, receiver, Send
<1>11. CASE OutData
  <2>1. request.wLength \in 0..8
    BY <1>11, RequestTypes DEF OutData, DataIn
  <2>. QED
    BY <1>11, <2>1 DEF OutData, sender, addresses, Receive, Accept, NakOut
<1>12. CASE OutStatus
  BY <1>12 DEF OutStatus, sender, addresses, Receive
<1>13. ASSUME NEW rq \in Requests, Start(rq) PROVE UsbTypeOK'
  BY <1>13 DEF Start, receiver, sender, addresses
<1>14. CASE EndReset
  BY <1>14 DEF EndReset, receiver, sender, addresses, transfer
<1>15. CASE SetupAckLost
  BY <1>15 DEF SetupAckLost, sender, addresses, host, transfer, Receive, Accept
<1>16. CASE GiveUp
  BY <1>16 DEF GiveUp, receiver, sender, addresses
<1>17. CASE ResetBus
  BY <1>17 DEF ResetBus, receiver, sender, addresses
<1>18. CASE Restart
  <2>1. rxBuf' \in [{0, 1} -> Packets]
    BY <1>18 DEF Restart
  <2>2. usbTxBuf' \in [pid: {0, 1}, ptr: Memory, at: Nat, len: 0..8]
    BY <1>18 DEF Restart, NoPacket, Memory
  <2>3. usbMsgPtr' \in [ptr: Memory, at: Nat]
    BY <1>18 DEF Restart, NoMessage, Memory
  <2>4. lost' \in BOOLEAN
    BY <1>18 DEF Restart
  <2>. QED
    BY <1>18, <2>2, <2>3, <2>4 DEF Restart, NO_MSG
<1>19. CASE UNCHANGED usbVars
  BY <1>19 DEF usbVars, receiver, sender, addresses, host, transfer
<1>. QED
  BY <1>1, <1>2, <1>3, <1>4, <1>5, <1>6, <1>7, <1>8, <1>9, <1>10, <1>11, <1>12,
     <1>13, <1>14, <1>15, <1>16, <1>17, <1>18, <1>19
     DEF UsbNext, usbPoll, Transaction, Faults

LEMMA PollStep ==
  ASSUME UsbTypeOK, PollInv, [UsbNext]_usbVars
  PROVE  PollInv'
<1>. USE DEF PollInv, UsbTypeOK, Received, DataIn, NO_MSG, Addressed
<1>1. CASE PollRx
  BY <1>1 DEF PollRx, receiver, host, transfer
<1>2. CASE ProcessRx
  BY <1>2 DEF ProcessRx, receiver, host, transfer
<1>3. CASE FreeRx
  BY <1>3 DEF FreeRx, host, transfer
<1>4. CASE BuildTx
  BY <1>4 DEF BuildTx, host, transfer, usbBuildTxBlock, TransmitIdle
<1>5. CASE SendTx
  BY <1>5 DEF SendTx, host, transfer
<1>6. CASE CheckLine
  BY <1>6 DEF CheckLine, transfer
<1>7. CASE SetupAcked
  BY <1>7 DEF SetupAcked, sender, AfterSetup
<1>8. CASE SetupNak
  BY <1>8 DEF SetupNak, sender, host, transfer, Receive, NakOut
<1>9. CASE InData
  BY <1>9 DEF InData, Sends
<1>10. CASE InStatus
  BY <1>10 DEF InStatus, Sends
<1>11. CASE OutData
  BY <1>11 DEF OutData, sender, Receive, NakOut
<1>12. CASE OutStatus
  BY <1>12 DEF OutStatus, sender, Receive
<1>13. ASSUME NEW rq \in Requests, Start(rq) PROVE PollInv'
  BY <1>13 DEF Start, receiver, sender
<1>14. CASE EndReset
  BY <1>14 DEF EndReset, receiver, sender, transfer
<1>15. CASE SetupAckLost
  BY <1>15 DEF SetupAckLost, sender, host, transfer
<1>16. CASE GiveUp
  BY <1>16 DEF GiveUp, receiver, sender
<1>17. CASE ResetBus
  BY <1>17 DEF ResetBus, receiver, sender
<1>18. CASE Restart
  BY <1>18 DEF Restart
<1>19. CASE UNCHANGED usbVars
  BY <1>19 DEF usbVars, receiver, sender, host, transfer
<1>. QED
  BY <1>1, <1>2, <1>3, <1>4, <1>5, <1>6, <1>7, <1>8, <1>9, <1>10, <1>11, <1>12,
     <1>13, <1>14, <1>15, <1>16, <1>17, <1>18, <1>19
     DEF UsbNext, usbPoll, Transaction, Faults

\* The status a host is sent has the token it waits for.
LEMMA StatusToken ==
  ASSUME UsbTypeOK, AnswerInv, InStatus
  PROVE  usbTxBuf.pid = expect
<1>1. ~Unprocessed /\ Filled /\ stage = "status" /\ ~DataIn(request)
  BY DEF UsbTypeOK, InStatus, Sends, Unprocessed, Filled
<1>2. StatusReady
  BY <1>1 DEF AnswerInv
<1>. QED
  BY <1>1, <1>2 DEF StatusReady

LEMMA AnswerStep ==
  ASSUME UsbTypeOK, PollInv, AnswerInv, [UsbNext]_usbVars
  PROVE  AnswerInv'
<1>. USE DEF UsbTypeOK, PollInv, AnswerInv, Answering, StatusReady, Filled,
             Unprocessed, Received
<1>a. ReplyLen(request) \in 0..63 /\ ReplyLen(request) <= request.wLength
  BY ReplyLenBound
<1>1. CASE PollRx
  BY <1>1 DEF PollRx, receiver, sender, addresses, host, transfer
<1>2. CASE ProcessRx
  BY <1>2, <1>a DEF ProcessRx, sender, addresses, host, transfer, SetAddress
<1>3. CASE FreeRx
  BY <1>3 DEF FreeRx, sender, addresses, host, transfer
<1>4. CASE BuildTx
  <2>1. CASE ~TransmitIdle
    BY <1>4, <2>1 DEF BuildTx, receiver, sender, addresses, host, transfer
  <2>2. ASSUME TransmitIdle, Unprocessed PROVE AnswerInv'
    BY <1>4, <2>2 DEF BuildTx, receiver, host, transfer
  <2>3. ASSUME TransmitIdle, ~Unprocessed, stage \in {"in", "out", "status"}
        PROVE  AnswerInv'
    <3>1. ~Unprocessed' /\ Filled' /\ stage' = stage
      BY <1>4, <2>3 DEF BuildTx, receiver, host, transfer
    <3>2. stage = "in" => Answering'
      BY <1>4, <2>3
         DEF BuildTx, host, transfer, usbBuildTxBlock, Remaining, TransmitIdle
    <3>3. ~DataIn(request) => StatusReady'
      BY <1>4, <2>3
         DEF BuildTx, host, transfer, usbBuildTxBlock, TransmitIdle
    <3>. QED
      BY <1>4, <2>3, <3>1, <3>2, <3>3 DEF BuildTx, addresses, host, transfer, DataIn
  <2>. QED
    BY <1>4, <2>1, <2>2, <2>3 DEF BuildTx, host, transfer
<1>5. CASE SendTx
  BY <1>5 DEF SendTx, receiver, addresses, host, transfer
<1>6. CASE CheckLine
  BY <1>6 DEF CheckLine, receiver, sender, addresses, transfer
<1>7. CASE SetupAcked
  BY <1>7 DEF SetupAcked, Receive, Accept
<1>8. CASE SetupNak
  BY <1>8 DEF SetupNak, host, transfer
<1>9. CASE InData
  <2>1. DataIn(request) /\ stage = "in" /\ stage' \in {"in", "status"}
    BY <1>9 DEF InData
  <2>. QED
    BY <1>9, <1>a, <2>1 DEF InData, receiver, Send, Sends, DataIn
<1>10. CASE InStatus
  <2>1. stage' = "finished"
    BY <1>10, StatusToken DEF InStatus
  <2>2. stage' \notin {"setup", "in", "out", "status"}
    BY <2>1
  <2>. QED
    BY <1>10, <2>2 DEF InStatus
<1>11. CASE OutData
  <2>1. /\ stage = "out" /\ stage' \in {"out", "status"}
        /\ rxBuf'[1 - inBuf] = Received
    BY <1>11 DEF OutData, Receive, NakOut
  <2>2. CASE NakOut
    BY <1>11, <2>1, <2>2 DEF OutData, addresses, sender, NakOut
  <2>3. CASE usbRxLen = 0 /\ Accept("OUT", request.wLength)
    BY <1>11, <2>1, <2>3 DEF OutData, addresses, sender, Accept
  <2>. QED
    BY <1>11, <2>2, <2>3 DEF OutData
<1>12. CASE OutStatus
  BY <1>12 DEF OutStatus, addresses, Receive
<1>13. ASSUME NEW rq \in Requests, Start(rq) PROVE AnswerInv'
  BY <1>13 DEF Start
<1>14. CASE EndReset
  BY <1>14 DEF EndReset, transfer
<1>15. CASE SetupAckLost
  BY <1>15 DEF SetupAckLost, host, transfer
<1>16. CASE GiveUp
  BY <1>16 DEF GiveUp
<1>17. CASE ResetBus
  BY <1>17 DEF ResetBus
<1>18. CASE Restart
  BY <1>18 DEF Restart
<1>19. CASE UNCHANGED usbVars
  BY <1>19 DEF usbVars, receiver, sender, addresses, host, transfer
<1>. QED
  BY <1>1, <1>2, <1>3, <1>4, <1>5, <1>6, <1>7, <1>8, <1>9, <1>10, <1>11, <1>12,
     <1>13, <1>14, <1>15, <1>16, <1>17, <1>18, <1>19
     DEF UsbNext, usbPoll, Transaction, Faults

LEMMA AddressStep ==
  ASSUME UsbTypeOK, PollInv, AnswerInv, AddressInv, [UsbNext]_usbVars
  PROVE  AddressInv'
<1>. USE DEF UsbTypeOK, PollInv, AnswerInv, AddressInv, AddressKept, Moving,
             Unprocessed, Received
<1>b. /\ request.wLength \in Nat
      /\ request.bRequest = "SET_ADDRESS" => ~request.in /\ request.wLength = 0
  BY RequestTypes
<1>1. CASE PollRx
  BY <1>1 DEF PollRx, receiver, addresses, host, transfer
<1>2. CASE ProcessRx
  BY <1>2 DEF ProcessRx, addresses, host, transfer, SetAddress
<1>3. CASE FreeRx
  BY <1>3 DEF FreeRx, addresses, host, transfer
<1>4. CASE BuildTx
  BY <1>4 DEF BuildTx, receiver, addresses, host, transfer
<1>5. CASE SendTx
  BY <1>5 DEF SendTx, receiver, addresses, host, transfer
<1>6. CASE CheckLine
  BY <1>6 DEF CheckLine, receiver, addresses, transfer, ResetAddresses
<1>7. CASE SetupAcked
  BY <1>7, <1>b DEF SetupAcked, addresses, Receive, Accept, AfterSetup, DataIn
<1>8. CASE SetupNak
  BY <1>8 DEF SetupNak, addresses, host, transfer, Receive, NakOut
<1>9. CASE InData
  BY <1>9 DEF InData, receiver, Send
<1>10. CASE InStatus
  BY <1>10, StatusToken DEF InStatus, receiver, Send, Sends
<1>11. CASE OutData
  BY <1>11 DEF OutData, addresses, Receive, Accept, NakOut
<1>12. CASE OutStatus
  BY <1>12, <1>b DEF OutStatus, addresses, Receive, DataIn
<1>13. ASSUME NEW rq \in Requests, Start(rq) PROVE AddressInv'
  BY <1>13 DEF Start, receiver, addresses
<1>14. CASE EndReset
  BY <1>14 DEF EndReset, receiver, addresses
<1>15. CASE SetupAckLost
  BY <1>15 DEF SetupAckLost, addresses, host, transfer, Receive, Accept
<1>16. CASE GiveUp
  BY <1>16 DEF GiveUp, receiver, addresses
<1>17. CASE ResetBus
  BY <1>17 DEF ResetBus
<1>18. CASE Restart
  BY <1>18 DEF Restart
<1>19. CASE UNCHANGED usbVars
  BY <1>19 DEF usbVars, receiver, addresses, host, transfer
<1>. QED
  BY <1>1, <1>2, <1>3, <1>4, <1>5, <1>6, <1>7, <1>8, <1>9, <1>10, <1>11, <1>12,
     <1>13, <1>14, <1>15, <1>16, <1>17, <1>18, <1>19
     DEF UsbNext, usbPoll, Transaction, Faults

LEMMA DriverAlways == UsbSpec => []DriverInv
<1>1. DriverInv /\ [UsbNext]_usbVars => DriverInv'
  BY TypeStep, PollStep, AnswerStep, AddressStep DEF DriverInv
<1>. QED
  BY DriverInit, <1>1, PTL DEF UsbSpec

\* Buffers, lengths, tokens and addresses stay in their ranges, and the SETUP
\* that waits for usbPoll is always one of the host's, whole.
THEOREM DriverTypes == UsbSpec => []UsbTypeOK
<1>1. DriverInv => UsbTypeOK
  BY DEF DriverInv
<1>. QED
  BY DriverAlways, <1>1, PTL

\* The driver answers at the address the host uses, wherever in usbPoll the
\* status packet of SET_ADDRESS is sent, unless the host cannot know it.
THEOREM AddressAlwaysKept == UsbSpec => []AddressKept
<1>1. DriverInv => AddressKept
  BY DEF DriverInv, AddressInv
<1>. QED
  BY DriverAlways, <1>1, PTL

\* The packets a host accepts are its present answer's, in order and complete,
\* whatever transfers it gave up before.
THEOREM RepliesInOrder == UsbSpec => ReplyInOrder
<1>1. ASSUME DriverInv, InData
      PROVE  /\ usbTxBuf.pid = expect
             /\ usbTxBuf.at = got /\ usbTxBuf.len <= ReplyLen(request) - got
             /\ usbTxBuf.len > 0 => usbTxBuf.ptr = Source(request)
             /\ stage' = "status" => got' = ReplyLen(request)
  <2>1. /\ usbTxBuf.len \in 0..8 /\ request \in Requests
        /\ got \in Nat /\ request.wLength \in Nat
    BY <1>1, RequestTypes DEF DriverInv, UsbTypeOK
  <2>2. ReplyLen(request) \in 0..63 /\ ReplyLen(request) <= request.wLength
    BY <2>1, ReplyLenBound
  <2>3. Answering /\ Filled /\ got <= ReplyLen(request)
    BY <1>1
       DEF DriverInv, AnswerInv, InData, Sends, Unprocessed, UsbTypeOK, Filled
  <2>4. /\ usbTxBuf.pid = expect /\ usbTxBuf.at = got
        /\ usbTxBuf.len = IF ReplyLen(request) - got > 8
                            THEN 8 ELSE ReplyLen(request) - got
        /\ usbTxBuf.len > 0 => usbTxBuf.ptr = Source(request)
    BY <2>3 DEF Answering
  <2>5. stage' = "status" => got' = ReplyLen(request)
    BY <1>1, <2>1, <2>2, <2>4 DEF InData
  <2>. QED
    BY <2>1, <2>2, <2>4, <2>5
<1>2. DriverInv /\ [UsbNext]_usbVars
        => [InData =>
             /\ usbTxBuf.pid = expect
             /\ usbTxBuf.at = got /\ usbTxBuf.len <= ReplyLen(request) - got
             /\ usbTxBuf.len > 0 => usbTxBuf.ptr = Source(request)
             /\ stage' = "status" => got' = ReplyLen(request)]_usbVars
  BY <1>1
<1>. QED
  BY DriverAlways, <1>2, PTL DEF UsbSpec, ReplyInOrder

\* A host that receives the status of SET_CONFIGURATION has configured the
\* radio: the status is not one that an earlier request left to be sent.
THEOREM StatusTells == UsbSpec => StatusMeansDone
<1>1. DriverInv /\ [UsbNext]_usbVars
        => [InStatus /\ request.bRequest = "SET_CONFIGURATION"
              => usbConfiguration = request.wValue]_usbVars
  BY DEF DriverInv, AnswerInv, InStatus, Sends, Unprocessed, UsbTypeOK
<1>. QED
  BY DriverAlways, <1>1, PTL DEF UsbSpec, StatusMeansDone

\* The driver implements RequestPipe for every set of requests: it carries out
\* requests one at a time and in order, and tells of an end only after it has.
THEOREM DriverImplementsPipe == UsbSpec => ImplementsRequestPipe
<1>1. UsbInit => Pipe!PipeInit
  BY DEF UsbInit, Pipe!PipeInit, Waiting, Unprocessed, Known, CarriedOut
<1>2. ASSUME DriverInv, [UsbNext]_usbVars
      PROVE  [Pipe!PipeNext]_(Pipe!pipeVars)
  <2>. USE <1>2 DEF DriverInv, UsbTypeOK, PollInv, AnswerInv, Waiting,
                    Unprocessed, Received, Known, CarriedOut,
                    Pipe!PipeNext, Pipe!pipeVars
  <2>1. CASE PollRx
    BY <2>1 DEF PollRx, receiver, host, transfer
  <2>2. CASE ProcessRx
    <3>1. CASE usbRxToken = "SETUP"
      <4>1. Pipe!CarryOut
        BY <2>2, <3>1, RequestNotEmpty
           DEF ProcessRx, receiver, host, transfer, Pipe!CarryOut
      <4>. QED
        BY <4>1
    <3>2. CASE usbRxToken # "SETUP"
      BY <2>2, <3>2 DEF ProcessRx, receiver, host, transfer
    <3>. QED
      BY <3>1, <3>2
  <2>3. CASE FreeRx
    BY <2>3 DEF FreeRx, host, transfer
  <2>4. CASE BuildTx
    BY <2>4 DEF BuildTx, receiver, host, transfer
  <2>5. CASE SendTx
    BY <2>5 DEF SendTx, receiver, host, transfer
  <2>6. CASE CheckLine
    BY <2>6 DEF CheckLine, receiver, transfer
  <2>7. CASE SetupAcked
    <3>1. Pipe!Accept
      BY <2>7 DEF SetupAcked, Receive, Accept, AfterSetup, Pipe!Accept
    <3>. QED
      BY <3>1
  <2>8. CASE SetupNak
    BY <2>8 DEF SetupNak, Receive, NakOut, host, transfer
  <2>9. CASE InData
    BY <2>9 DEF InData, receiver, Sends
  <2>10. CASE InStatus
    <3>1. Pipe!Finish
      BY <2>10, StatusToken DEF InStatus, receiver, Sends, Pipe!Finish, DriverInv
    <3>. QED
      BY <3>1
  <2>11. CASE OutData
    BY <2>11 DEF OutData, Receive, Accept, NakOut
  <2>12. CASE OutStatus
    <3>1. CASE usbRxLen = 0
      <4>1. Pipe!Finish
        BY <2>12, <3>1 DEF OutStatus, Receive, Pipe!Finish
      <4>. QED
        BY <4>1
    <3>2. CASE usbRxLen # 0
      BY <2>12, <3>2 DEF OutStatus, Receive
    <3>. QED
      BY <3>1, <3>2
  <2>13. ASSUME NEW rq \in Requests, Start(rq) PROVE Pipe!Ask(rq)
    BY <2>13 DEF Start, receiver, Pipe!Ask
  <2>14. CASE EndReset
    BY <2>14 DEF EndReset, receiver, transfer
  <2>15. CASE SetupAckLost
    <3>1. Pipe!Accept
      BY <2>15 DEF SetupAckLost, Receive, Accept, host, transfer, Pipe!Accept
    <3>. QED
      BY <3>1
  <2>16. CASE GiveUp
    <3>1. Pipe!Abandon
      BY <2>16 DEF GiveUp, receiver, Pipe!Abandon
    <3>. QED
      BY <3>1
  <2>17. CASE ResetBus
    <3>1. CASE stage = "none"
      BY <2>17, <3>1 DEF ResetBus, receiver
    <3>2. CASE stage # "none"
      <4>1. Pipe!Abandon
        BY <2>17, <3>2 DEF ResetBus, receiver, Pipe!Abandon
      <4>. QED
        BY <4>1
    <3>. QED
      BY <3>1, <3>2
  <2>18. CASE Restart
    <3>1. Pipe!PowerUp
      BY <2>18 DEF Restart, Pipe!PowerUp
    <3>. QED
      BY <3>1
  <2>19. CASE UNCHANGED usbVars
    BY <2>19 DEF usbVars, receiver, host, transfer
  <2>. QED
    BY <1>2, <2>1, <2>2, <2>3, <2>4, <2>5, <2>6, <2>7, <2>8, <2>9, <2>10, <2>11,
       <2>12, <2>13, <2>14, <2>15, <2>16, <2>17, <2>18, <2>19
       DEF UsbNext, usbPoll, Transaction, Faults
<1>. QED
  BY DriverAlways, <1>1, <1>2, PTL
  DEF UsbSpec, ImplementsRequestPipe, Pipe!PipeSpec
=============================================================================
