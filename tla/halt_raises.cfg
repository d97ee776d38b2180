CONSTANTS
  p = p  drawdown = drawdown  vpn = vpn
  Bots = {p}
  Checks = {vpn, drawdown}
  Scope <- OneBotScope
  MaxManual = 0
SPECIFICATION FairSpec
PROPERTIES FailsClosed
