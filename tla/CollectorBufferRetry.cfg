SPECIFICATION Spec
CONSTANTS
  BatchSize = 2
  MaxBufferedItems = 3
  MaxPostItems = 2
  FlushInterval = 2
  MinPostInterval = 1
  RateLimitBackoff = 2
  ReconnectDelay = 2
  RetryAfters = {0, 3}
  MaxItems = 5
PROPERTIES DocumentedRetryDelay
