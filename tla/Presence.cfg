SPECIFICATION FairSpec
CONSTANTS
  Handlers = {h1}
  Poller = Poller
  c1 = c1
  c2 = c2
  Customs <- BothCustoms
  Configs <- ThreeConfigs
  Nothing = Nothing
INVARIANT TypeOK
INVARIANT StopReverts
INVARIANT PollNotLost
PROPERTY Settles
