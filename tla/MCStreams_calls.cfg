\* Two Sends and any number of Receives of 1 or 3 bytes; the kernel holds 3.
CONSTANTS
  Kinds = {"CTCPServer", "CTCPClient", "CTCPSSLServer", "CTCPSSLClient"}
  Sizes = {1, 3}
  Room = 3
  MaxSends = 2
  MaxIterations = 2
SPECIFICATION FairStreamsSpec
INVARIANTS StreamsTypeOK WritesInBuffer DeliveredInOrder EachSlipCostsOneByte SendsWholeMessages
PROPERTIES ResultSaysWhy CallsReturn
