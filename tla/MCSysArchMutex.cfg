SPECIFICATION Spec
CONSTANTS
  Producers = {}
  Consumers = {}
  Lockers = {app, tcpip}
  Mails = {}
  NULL = NULL
  MAILBOX_SIZE = 2
  Wrap = 4
INVARIANT MutualExclusion
