----------------------------- MODULE UsbRequests -----------------------------
(***************************************************************************)
(* Requests on the radio's control endpoint, and the message that answers  *)
(* each: where it is read from (usbMsgPtr) and its length (replyLen).      *)
(* Standard requests are the driver's (usbDriverSetup), class requests the *)
(* radio's (usbFunctionSetup); vendor requests, and requests for           *)
(* descriptors the radio does not have, are answered with nothing.         *)
(***************************************************************************)
EXTENDS Naturals

\* bRequest of standard requests, by name; "OTHER" stands for the rest.
StandardRequests ==
  {"GET_STATUS", "SET_ADDRESS", "GET_DESCRIPTOR", "GET_CONFIGURATION",
   "SET_CONFIGURATION", "GET_INTERFACE", "SET_INTERFACE", "OTHER"}

\* bRequest of class requests: HID, and the radio's own.
ClassRequests ==
  {"GET_REPORT", "SET_REPORT", "GET_IDLE", "SET_IDLE", "GET_PROTOCOL",
   "SET_PROTOCOL", "USB_DATA_TX"}

\* A setup packet: bRequest, wValue, direction and wLength.
Setups ==
  [bRequest: StandardRequests \cup ClassRequests \cup {"VENDOR"},
   wValue: Nat, in: BOOLEAN, wLength: Nat]

\* What answers are read from: descriptors, and variables of the program.
Memory ==
  {"usbDescriptorDevice", "usbDescriptorConfiguration",
   "usbDescriptorConfiguration+18", "usbDescriptorHidReport",
   "usbDescriptorString0", "usbDescriptorStringVendor",
   "usbDescriptorStringDevice", "usbDescriptorStringSerialNumber",
   "usbTxBuf+9", "usbConfiguration", "reportBuffer", "protocolVer", "unchanged"}

Flash(ptr, len) == [ptr |-> ptr, len |-> len]

NoDescriptor == [ptr |-> "unchanged", len |-> 0]

\* usbDescriptorDevice: versions, class, packet size, ids, string numbers
DeviceDescriptorLen == 18

\* usbDescriptorConfiguration: it has the descriptors of the interface, of the
\* HID class and of the interrupt endpoint behind it.
HidDescriptorLen == 9
ConfigurationDescriptorLen == 9 + 9 + HidDescriptorLen + 7

\* usbHidReportDescriptor: modifiers, LEDs and six keys of a boot keyboard
HidReportDescriptorLen == 63

\* usbDescriptorString...: a header and two bytes for each character; the
\* language descriptor has one character.
StringDescriptorLen(characters) == 2 * characters + 2

\* The upper byte of wValue is the type of the descriptor, the lower one the
\* number of a string.  The HID descriptor is a part of the configuration's.
usbDriverDescriptor(wValue) ==
  CASE wValue \div 256 = 1 -> Flash("usbDescriptorDevice", DeviceDescriptorLen)
    [] wValue \div 256 = 2 ->
         Flash("usbDescriptorConfiguration", ConfigurationDescriptorLen)
    [] wValue \div 256 = 33 ->
         Flash("usbDescriptorConfiguration+18", HidDescriptorLen)
    [] wValue \div 256 = 34 ->
         Flash("usbDescriptorHidReport", HidReportDescriptorLen)
    [] wValue = 768 -> Flash("usbDescriptorString0", StringDescriptorLen(1))
    [] wValue = 769 ->
         Flash("usbDescriptorStringVendor", StringDescriptorLen(7))
    [] wValue = 770 ->
         Flash("usbDescriptorStringDevice", StringDescriptorLen(9))
    [] wValue = 771 ->
         Flash("usbDescriptorStringSerialNumber", StringDescriptorLen(5))
    [] OTHER -> NoDescriptor

\* The status and interface bytes are put behind the transmit buffer.
usbDriverSetup(rq) ==
  CASE rq.bRequest = "GET_STATUS" -> [ptr |-> "usbTxBuf+9", len |-> 2]
    [] rq.bRequest = "GET_INTERFACE" -> [ptr |-> "usbTxBuf+9", len |-> 1]
    [] rq.bRequest = "GET_CONFIGURATION" ->
         [ptr |-> "usbConfiguration", len |-> 1]
    [] rq.bRequest = "GET_DESCRIPTOR" -> usbDriverDescriptor(rq.wValue)
    [] OTHER -> [ptr |-> "usbTxBuf+9", len |-> 0]

\* usbFunctionSetup: GET_PROTOCOL and SET_PROTOCOL are answered the wrong way
\* round, and 255 for a report of one byte asks for usbFunctionWrite, which is
\* configured off.
usbFunctionSetup(rq) ==
  CASE rq.bRequest = "GET_REPORT" -> [ptr |-> "reportBuffer", len |-> 8]
    [] rq.bRequest = "SET_REPORT" ->
         [ptr |-> "reportBuffer", len |-> IF rq.wLength = 1 THEN 255 ELSE 0]
    [] rq.bRequest = "SET_PROTOCOL" -> [ptr |-> "protocolVer", len |-> 1]
    [] rq.bRequest = "USB_DATA_TX" -> [ptr |-> "reportBuffer", len |-> 4]
    [] OTHER -> [ptr |-> "reportBuffer", len |-> 0]

Message(rq) == IF rq.bRequest \in StandardRequests THEN usbDriverSetup(rq)
                                                   ELSE usbFunctionSetup(rq)

\* Where the answer is read from.
Source(rq) == Message(rq).ptr

\* usbProcessRx limits the length to wLength.
ReplyLen(rq) == IF Message(rq).len > rq.wLength THEN rq.wLength
                                                ELSE Message(rq).len
=============================================================================
