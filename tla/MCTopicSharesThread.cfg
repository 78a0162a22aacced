CONSTANTS
  MaxMessages = 2
  Topics = {c1}
  MaxConcurrency = 2
  MaxCrashes = 0
SPECIFICATION ChannelSpec
INVARIANT TopicSharesThread
CHECK_DEADLOCK FALSE
