------------------------------ MODULE UsbDriver ------------------------------
(***************************************************************************)
(* The control endpoint of the USB driver.  The interrupt handler answers  *)
(* each transaction of the host by itself: it takes a packet into one of   *)
(* two receive buffers if the other is free (usbRxLen = 0), and sends the  *)
(* transmit buffer if one is ready (usbTxLen is a length).  usbPoll, in    *)
(* the main loop, processes the packet, builds the next transmit buffer    *)
(* and looks for a bus reset; the handler comes between any two of its     *)
(* steps.  There is no lock: the handler sends nothing while a packet      *)
(* waits, and usbPoll builds only what the handler does not send.          *)
(*                                                                         *)
(* The host runs control transfers: SETUP, data, status.  It may miss the  *)
(* answer to SETUP and repeat it, give a transfer up, or reset the bus.    *)
(* A data packet the host has asked for is not lost; the driver relies on  *)
(* that (usbdrv/asmcommon.inc:154).                                        *)
(***************************************************************************)
EXTENDS UsbRequests

CONSTANT Requests   \* the host's

\* The data of a control-out transfer is one packet; SET_ADDRESS has none.
\* Addresses and configurations are bytes.
ASSUME RequestsAssumption ==
  /\ Requests \subseteq Setups
  /\ \A rq \in Requests : ~rq.in => rq.wLength <= 8
  /\ \A rq \in Requests :
       rq.bRequest = "SET_ADDRESS" => ~rq.in /\ rq.wLength = 0
  /\ \A rq \in Requests :
       rq.bRequest \in {"SET_ADDRESS", "SET_CONFIGURATION"} => rq.wValue < 256

NO_MSG == 255

VARIABLES
  rxBuf, inBuf,       \* receive buffers, and the one being received into
  usbRxLen,           \* length of the packet that waits in the other, or 0
  usbRxToken,
  usbTxBuf,           \* [pid, ptr, at, len]: data token and data
  usbTxLen,           \* "NAK" or "DATA"
  usbMsgPtr,          \* [ptr, at]: what is read next
  usbMsgLen,          \* bytes left, or NO_MSG
  usbNewDeviceAddr, usbDeviceAddr, usbConfiguration,
  pc,                 \* where usbPoll is
  bus,                \* "idle" or "reset"
  stage, request,     \* the host's transfer
  got, expect,        \* bytes it has received, the data token it waits for
  address,            \* of the device, for the host
  lost                \* the host cannot know what address the device has

receiver == <<rxBuf, inBuf, usbRxLen, usbRxToken>>
sender == <<usbTxBuf, usbTxLen, usbMsgPtr, usbMsgLen>>
addresses == <<usbNewDeviceAddr, usbDeviceAddr>>
transfer == <<stage, request, got, expect>>
host == <<bus, transfer, address, lost>>
usbVars == <<receiver, sender, addresses, usbConfiguration, pc, host>>

\* Packets beside SETUP's: the status of a transfer, and data.
NoSetup(name) == [bRequest |-> name, wValue |-> 0, in |-> FALSE, wLength |-> 0]
Empty == NoSetup("EMPTY")
Data == NoSetup("DATA")

Packets == Requests \cup {Empty, Data}

NoMessage == [ptr |-> "unchanged", at |-> 0]
NoPacket == [pid |-> 0, ptr |-> "unchanged", at |-> 0, len |-> 0]

UsbInit ==
  /\ rxBuf = [b \in {0, 1} |-> Empty] /\ inBuf = 0
  /\ usbRxLen = 0 /\ usbRxToken = "OUT"
  /\ usbTxBuf = NoPacket /\ usbTxLen = "NAK"
  /\ usbMsgPtr = NoMessage /\ usbMsgLen = NO_MSG
  /\ usbNewDeviceAddr = 0 /\ usbDeviceAddr = 0 /\ usbConfiguration = 0
  /\ pc = "poll"
  /\ bus = "idle" /\ stage = "none" /\ request \in Requests
  /\ got = 0 /\ expect = 1 /\ address = 0 /\ lost = FALSE

-----------------------------------------------------------------------------
(* usbPoll                                                                 *)

Received == rxBuf[1 - inBuf]

\* Variant: the buffer is given back before the packet is processed.
FreeEarly ==
  /\ pc = "poll"
  /\ pc' = IF usbRxLen >= 3 THEN "rx" ELSE "tx"
  /\ usbRxLen' = 0
  /\ UNCHANGED <<rxBuf, inBuf, usbRxToken, sender, addresses, usbConfiguration,
                 host>>

PollRx ==
  /\ pc = "poll"
  /\ pc' = IF usbRxLen >= 3 THEN "rx" ELSE "tx"
  /\ UNCHANGED <<receiver, sender, addresses, usbConfiguration, host>>

SetAddress(rq) ==
  /\ usbNewDeviceAddr' = rq.wValue
  /\ UNCHANGED usbDeviceAddr

\* usbProcessRx: a SETUP packet starts a message, and does what it asks for;
\* the data of a control-out transfer is ignored.
ProcessRx ==
  /\ pc = "rx" /\ pc' = "free"
  /\ IF usbRxToken = "SETUP"
       THEN /\ usbTxBuf' = [usbTxBuf EXCEPT !.pid = 0]
            /\ usbTxLen' = "NAK"
            /\ usbMsgPtr' = [ptr |-> Source(Received), at |-> 0]
            /\ usbMsgLen' = ReplyLen(Received)
            /\ IF Received.bRequest = "SET_ADDRESS"
                 THEN SetAddress(Received) ELSE UNCHANGED addresses
            /\ IF Received.bRequest = "SET_CONFIGURATION"
                 THEN usbConfiguration' = Received.wValue
                 ELSE UNCHANGED usbConfiguration
       ELSE UNCHANGED <<sender, addresses, usbConfiguration>>
  /\ UNCHANGED <<receiver, host>>

FreeRx ==
  /\ pc = "free" /\ pc' = "tx"
  /\ usbRxLen' = 0
  /\ UNCHANGED <<rxBuf, inBuf, usbRxToken, sender, addresses, usbConfiguration,
                 host>>

\* Variant: a message that is a multiple of a full packet ends without one.
NoEmptyPacket(len) == IF usbMsgLen - len = 0 THEN NO_MSG ELSE usbMsgLen - len

\* A partial packet is the last one.
Remaining(len) == IF len < 8 THEN NO_MSG ELSE usbMsgLen - len

\* usbBuildTxBlock, but for its last assignment, which SendTx makes
usbBuildTxBlock ==
  LET len == IF usbMsgLen > 8 THEN 8 ELSE usbMsgLen
  IN /\ usbMsgLen' = Remaining(len)
     /\ usbTxBuf' = [pid |-> 1 - usbTxBuf.pid, ptr |-> usbMsgPtr.ptr,
                     at |-> usbMsgPtr.at, len |-> len]
     /\ usbMsgPtr' = [usbMsgPtr EXCEPT !.at = @ + len]
     /\ UNCHANGED usbTxLen

TransmitIdle == usbTxLen = "NAK" /\ usbMsgLen # NO_MSG

BuildTx ==
  /\ pc = "tx"
  /\ IF TransmitIdle THEN pc' = "send" /\ usbBuildTxBlock
                     ELSE pc' = "line" /\ UNCHANGED sender
  /\ UNCHANGED <<receiver, addresses, usbConfiguration, host>>

SendTx ==
  /\ pc = "send" /\ pc' = "line"
  /\ usbTxLen' = "DATA"
  /\ UNCHANGED <<receiver, usbTxBuf, usbMsgPtr, usbMsgLen, addresses,
                 usbConfiguration, host>>

\* Variant: a reset leaves an address that was not yet used.
ResetDeviceAddr == usbDeviceAddr' = 0 /\ UNCHANGED usbNewDeviceAddr

ResetAddresses == usbNewDeviceAddr' = 0 /\ usbDeviceAddr' = 0

\* usbPoll sees a bus reset only if it comes by while it lasts.  A SETUP that
\* still waits may bring an address of before the reset.
CheckLine ==
  /\ pc = "line" /\ pc' = "poll"
  /\ IF bus = "reset"
       THEN ResetAddresses /\ lost' = (usbRxLen # 0)
       ELSE UNCHANGED <<addresses, lost>>
  /\ UNCHANGED <<receiver, sender, usbConfiguration, bus, transfer, address>>

usbPoll == PollRx \/ ProcessRx \/ FreeRx \/ BuildTx \/ SendTx \/ CheckLine

-----------------------------------------------------------------------------
(* The interrupt handler, transaction by transaction                       *)

\* Transactions with another address, or during a reset, are not answered.
Addressed == bus = "idle" /\ usbDeviceAddr = address

\* Variant: the two receive buffers are not swapped.
AcceptInPlace(token, len) ==
  usbRxLen' = len + 3 /\ usbRxToken' = token /\ UNCHANGED inBuf

\* ACK: the packet is kept for usbPoll, the next one goes to the other buffer.
Accept(token, len) ==
  usbRxLen' = len + 3 /\ usbRxToken' = token /\ inBuf' = 1 - inBuf

\* A data packet is received before it is known whether it can be kept.
Receive(packet) == rxBuf' = [rxBuf EXCEPT ![inBuf] = packet]

NakOut == usbRxLen # 0 /\ UNCHANGED <<inBuf, usbRxLen, usbRxToken>>

\* Variant: what is ready is sent whatever waits.
SendWhenReady == usbTxLen = "DATA"

\* handleIn: nothing is sent while a packet waits for usbPoll.
Sends == usbTxLen = "DATA" /\ usbRxLen < 1

\* The transmit buffer is free as soon as it is sent, and a new address is
\* used after the data packet.
Send == usbTxLen' = "NAK" /\ usbDeviceAddr' = usbNewDeviceAddr

-----------------------------------------------------------------------------
(* The host                                                                *)

DataIn(rq) == rq.in /\ rq.wLength > 0

Start(rq) ==
  /\ bus = "idle" /\ stage \in {"none", "finished"}
  /\ stage' = "setup" /\ request' = rq /\ got' = 0 /\ expect' = 1
  /\ UNCHANGED <<receiver, sender, addresses, usbConfiguration, pc, bus,
                 address, lost>>

AfterSetup == IF DataIn(request) THEN "in"
              ELSE IF request.wLength > 0 THEN "out" ELSE "status"

SetupAcked ==
  /\ stage = "setup" /\ Addressed /\ usbRxLen = 0
  /\ Receive(request) /\ Accept("SETUP", 8)
  /\ stage' = AfterSetup
  /\ UNCHANGED <<sender, addresses, usbConfiguration, pc, bus, request, got,
                 expect, address, lost>>

\* The host misses the ACK and will repeat the SETUP.
SetupAckLost ==
  /\ stage = "setup" /\ Addressed /\ usbRxLen = 0
  /\ Receive(request) /\ Accept("SETUP", 8)
  /\ UNCHANGED <<sender, addresses, usbConfiguration, pc, host>>

SetupNak ==
  /\ stage = "setup" /\ Addressed
  /\ Receive(request) /\ NakOut
  /\ UNCHANGED <<sender, addresses, usbConfiguration, pc, host>>

\* A packet with the other data token would be taken for a repetition.
InData ==
  /\ stage = "in" /\ Addressed /\ Sends
  /\ Send
  /\ IF usbTxBuf.pid = expect
       THEN /\ got' = got + usbTxBuf.len /\ expect' = 1 - expect
            /\ stage' = IF usbTxBuf.len < 8 \/ got' >= request.wLength
                          THEN "status" ELSE "in"
       ELSE UNCHANGED <<stage, got, expect>>
  /\ UNCHANGED <<receiver, usbTxBuf, usbMsgPtr, usbMsgLen, usbNewDeviceAddr,
                 usbConfiguration, pc, bus, request, address, lost>>

\* The status of a request without an answer comes with token DATA1; a packet
\* with the other one would be ignored.  Its length is not looked at: usb.c:88
\* has SET_REPORT of one byte end with a packet of one byte, which the host is
\* taken to accept (a host that does not gives the transfer up).
InStatus ==
  /\ stage = "status" /\ ~DataIn(request) /\ Addressed /\ Sends
  /\ Send
  /\ IF usbTxBuf.pid = expect
       THEN /\ stage' = "finished"
            /\ address' = IF request.bRequest = "SET_ADDRESS"
                            THEN request.wValue ELSE address
       ELSE UNCHANGED <<stage, address>>
  /\ UNCHANGED <<receiver, usbTxBuf, usbMsgPtr, usbMsgLen, usbNewDeviceAddr,
                 usbConfiguration, pc, bus, request, got, expect, lost>>

OutData ==
  /\ stage = "out" /\ Addressed
  /\ Receive(Data)
  /\ \/ usbRxLen = 0 /\ Accept("OUT", request.wLength) /\ stage' = "status"
     \/ NakOut /\ UNCHANGED stage
  /\ UNCHANGED <<sender, addresses, usbConfiguration, pc, bus, request, got,
                 expect, address, lost>>

\* An empty packet is acknowledged and not kept.
OutStatus ==
  /\ stage = "status" /\ DataIn(request) /\ Addressed
  /\ Receive(Empty)
  /\ UNCHANGED <<inBuf, usbRxLen, usbRxToken>>
  /\ stage' = IF usbRxLen = 0 THEN "finished" ELSE stage
  /\ UNCHANGED <<sender, addresses, usbConfiguration, pc, bus, request, got,
                 expect, address, lost>>

\* The host waits no longer.
GiveUp ==
  /\ stage \notin {"none", "finished"}
  /\ stage' = "none"
  /\ lost' = (lost \/ request.bRequest = "SET_ADDRESS")
  /\ UNCHANGED <<receiver, sender, addresses, usbConfiguration, pc, bus,
                 request, got, expect, address>>

ResetBus ==
  /\ bus = "idle"
  /\ bus' = "reset" /\ stage' = "none" /\ address' = 0 /\ lost' = TRUE
  /\ UNCHANGED <<receiver, sender, addresses, usbConfiguration, pc, request,
                 got, expect>>

EndReset ==
  /\ bus = "reset" /\ bus' = "idle"
  /\ UNCHANGED <<receiver, sender, addresses, usbConfiguration, pc, transfer,
                 address, lost>>

\* The radio loses power, or the watchdog restarts it: it logs in anew.
Restart ==
  /\ rxBuf' = [b \in {0, 1} |-> Empty] /\ inBuf' = 0
  /\ usbRxLen' = 0 /\ usbRxToken' = "OUT"
  /\ usbTxBuf' = NoPacket /\ usbTxLen' = "NAK"
  /\ usbMsgPtr' = NoMessage /\ usbMsgLen' = NO_MSG
  /\ usbNewDeviceAddr' = 0 /\ usbDeviceAddr' = 0 /\ usbConfiguration' = 0
  /\ pc' = "poll"
  /\ bus' = "idle" /\ stage' = "none" /\ address' = 0 /\ lost' = FALSE
  /\ UNCHANGED <<request, got, expect>>

Transaction ==
  SetupAcked \/ SetupNak \/ InData \/ InStatus \/ OutData \/ OutStatus

Faults == SetupAckLost \/ GiveUp \/ ResetBus \/ Restart

UsbNext ==
  \/ usbPoll \/ Transaction \/ (\E rq \in Requests : Start(rq)) \/ EndReset
  \/ Faults

UsbSpec == UsbInit /\ [][UsbNext]_usbVars

\* The main loop polls, the host goes on with its transfer.
UsbFairSpec ==
  /\ UsbSpec
  /\ WF_usbVars(usbPoll) /\ WF_usbVars(EndReset)
  /\ WF_usbVars(SetupAcked) /\ WF_usbVars(InData) /\ WF_usbVars(InStatus)
  /\ WF_usbVars(OutData) /\ WF_usbVars(OutStatus)

-----------------------------------------------------------------------------
(* Properties                                                              *)

\* Types.
UsbTypeOK ==
  /\ rxBuf \in [{0, 1} -> Packets] /\ inBuf \in {0, 1}
  /\ usbRxLen \in 0..11 /\ usbRxToken \in {"SETUP", "OUT"}
  /\ usbTxBuf \in [pid: {0, 1}, ptr: Memory, at: Nat, len: 0..8]
  /\ usbTxLen \in {"NAK", "DATA"}
  /\ usbMsgPtr \in [ptr: Memory, at: Nat] /\ usbMsgLen \in Nat
  /\ usbNewDeviceAddr \in Nat /\ usbDeviceAddr \in Nat /\ address \in Nat
  /\ usbConfiguration \in Nat
  /\ pc \in {"poll", "rx", "free", "tx", "send", "line"}
  /\ bus \in {"idle", "reset"}
  /\ stage \in {"none", "setup", "in", "out", "status", "finished"}
  /\ request \in Requests
  /\ got \in Nat /\ expect \in {0, 1} /\ lost \in BOOLEAN
  /\ usbRxLen # 0 /\ usbRxToken = "SETUP" => Received \in Requests

\* What the host accepts is the answer to its present request, from the first
\* byte on and complete: nothing of a transfer it gave up, nothing twice and
\* nothing skipped, wherever in usbPoll the handler sent it or took the SETUP.
ReplyInOrder ==
  [][InData =>
       /\ usbTxBuf.pid = expect
       /\ usbTxBuf.at = got /\ usbTxBuf.len <= ReplyLen(request) - got
       /\ usbTxBuf.len > 0 => usbTxBuf.ptr = Source(request)
       /\ stage' = "status" => got' = ReplyLen(request)]_usbVars

\* A request that the host has seen acknowledged was carried out: the status
\* it received is not one of an earlier request.
StatusMeansDone ==
  [][InStatus /\ request.bRequest = "SET_CONFIGURATION"
       => usbConfiguration = request.wValue]_usbVars

\* The radio answers at the address the host has given it, unless the host
\* gave up SET_ADDRESS or the radio has not noticed a reset.
AddressKept == ~lost => usbDeviceAddr = address

\* A SETUP packet waits that usbProcessRx has not worked on.
Unprocessed == usbRxLen # 0 /\ usbRxToken = "SETUP" /\ pc # "free"

\* RequestPipe's view: what waits, what the host knows of its request, and
\* whether that was carried out.
Waiting == IF Unprocessed THEN Received ELSE Empty
Known == IF stage \in {"none", "finished"} THEN stage
         ELSE IF stage = "setup" THEN "asked" ELSE "accepted"
CarriedOut == stage \in {"in", "out", "status"} /\ ~Unprocessed

Pipe == INSTANCE RequestPipe
          WITH NoRequest <- Empty, stage <- Known, waiting <- Waiting,
               done <- CarriedOut

\* The endpoint keeps RequestPipe's promise: a request is carried out before its
\* end is told, one that was given up never after a later one.
ImplementsRequestPipe == Pipe!PipeSpec

\* A transfer ends, if the host is patient and the line is good.
TransferEnds ==
  (<>[][~Faults]_usbVars) /\ <>[]~lost => []<>(stage \in {"none", "finished"})
=============================================================================
