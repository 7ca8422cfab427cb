\* Two users one after the other, two requests at a time, three clicks.
SPECIFICATION FairConsoleSpec
CONSTANTS
  t1 = t1  t2 = t2
  x = x  y = y
  i1 = i1  i2 = i2
  s1 = s1  s2 = s2
  Token = {t1, t2}
  Merchant = {x, y}
  member <- Members
  Item = {i1, i2}
  Short = {t1}
  Slot = {s1, s2}
  MaxPage = 1
  MaxVersion = 1
  MaxClicks = 3
  NoToken = NoToken
  NoMerchant = NoMerchant
INVARIANTS
  ScreenIsRight
  CitationsResolve
  OneInvestigation
PROPERTIES
  RowsBecomeCurrent
\* The user may stay signed out.
CHECK_DEADLOCK FALSE
