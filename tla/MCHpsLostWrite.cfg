SPECIFICATION HpsSpec
CONSTANTS
  HpsCalls <- MCCalls
  HpsReplies <- MCReplies
  Providers <- MCProviders
  HPSMaxBodySize = 2
  StreamMTU = 1
  MaxLeftOver = 1
  NoBody = NoBody
  NoHpsCall = NoHpsCall
  NoHpsReply = NoHpsReply
INVARIANT CarriesOutTheRequest
