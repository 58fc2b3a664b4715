SPECIFICATION Spec
CONSTANTS
  Producers = {app}
  Consumers = {tcpip}
  Lockers = {tcpip}
  Mails = {m1, m2}
  NULL = NULL
  MAILBOX_SIZE = 2
  Wrap = 4
INVARIANT FetchWaits
