SPECIFICATION ASpec
CONSTANTS
  Accounts = {u1, u2}
  KeyIds = {1, 2}
  RefreshIds = {1, 2, 3}
  LinkIds = {1, 2}
  Handlers = {1, 2}
  Root = Root
  NoUser = NoUser
  Unset = Unset
  Gone = Gone
  TokenLife = 2
  RefreshLife = 3
  LinkLife = 1
  KeyLives = {2, 3}
  Leeway = 1
  MaxRequests = 2
  Window = 2
  MaxWindows = 2
  WindowsDropped = 1
  CrMixes <- MCCrMixes
  NoName = NoName
  Nothing = Nothing
  Users = {"u1", "u2"}
  Groups = {"g"}
  Tags = {"t1", "t2"}
  Tree0 <- MCTree
  Allow = {{"r", "l"}, {"u"}}
  Contents <- MCContents
  Tag0 <- MCTag
  Query0 <- MCQuery
  Jobs = {1, 2}
  Mixes <- MCMixes
INVARIANTS
  RevokedRefused TokensFollowKey OneTokenPerSecret
    
CHECK_DEADLOCK FALSE
