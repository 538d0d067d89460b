SPECIFICATION StandaloneSpec
SYMMETRY Symmetric
CONSTANTS
  ProtocolIds = {0, 1}
  Values <- SomeBytes
  MaxLen = 6
  Damages <- LineDamages
  MaxDamaged = 2
  Threads = {t1, t2}
  Messages = {m1, m2}
  NoThread = NoThread
  MBOX_SIZE = 1
  SEM_MAX = 2
  Nesting = 2
  Versions = 2
  MaxPosts = 2
  MaxSignals = 3
INVARIANT LengthsFit
INVARIANT CrcIsRemainder
INVARIANT DamageDetected
INVARIANT TypeOK
INVARIANT PlainBracketIsAtomic
INVARIANT MutexIsAtomic
INVARIANT MailboxKeepsOrder
INVARIANT SignalsCounted
CHECK_DEADLOCK FALSE
