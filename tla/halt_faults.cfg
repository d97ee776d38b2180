CONSTANTS
  p = p  drawdown = drawdown  vpn = vpn
  Bots = {p}
  Checks = {drawdown, vpn}
  Scope <- OneBotScope
  MaxManual = 2
SPECIFICATION FairSpec
INVARIANTS TypeOK OneOrderAfterHalt FewCancels
PROPERTIES EveryKillHalts
