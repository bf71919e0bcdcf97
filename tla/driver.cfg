SPECIFICATION UsbFairSpec
CONSTANT Requests <- MCRequests
INVARIANTS
  UsbTypeOK
  AddressKept
PROPERTIES
  ReplyInOrder
  StatusMeansDone
  ImplementsRequestPipe
  TransferEnds
