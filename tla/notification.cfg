SPECIFICATION FairSpec
CONSTANTS
  telegram = telegram
  email = email
  c1 = c1
  blank = blank
  Request = {r1}
  User = {u1}
  Channel = {telegram, email}
  Telegram = telegram
  Value = {c1, blank}
  Chat = {c1}
  Unset = Unset
  Body <- Bodies
  NoDoc = NoDoc
  NoCall = NoCall
  MaxRecords = 2
  MaxLives = 2
  MaxFaults = 2
INVARIANTS
  TypeOK
  NoneSkipped
  AgainBySetback
PROPERTIES
  EveryRecordHandled
