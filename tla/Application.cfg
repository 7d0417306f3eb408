SPECIFICATION AppSpec
CONSTANTS
  Handlers = {h1}
  Poller = Poller
  c1 = c1
  c2 = c2
  Customs <- BothCustoms
  Configs <- OffAndOn
  Nothing = Nothing
  Offline = Offline
INVARIANT SavedIsShown
