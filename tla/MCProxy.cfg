SPECIFICATION FairSpec
CONSTANTS
  Requests <- MCRequests
  Keys <- MCKeys
  KeyOf <- MCKeyOf
  Bypass = {}
  Streaming <- MCStreaming
  Live <- MCLive
  Opted <- MCOpted
  MaxTurns = 2
INVARIANT OneReply
INVARIANT WaitersServed
INVARIANT BilledOnce
PROPERTY Answered
CHECK_DEADLOCK FALSE
