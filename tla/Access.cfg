CONSTANTS
  Visits = {v1, v2, v3}
  Visitings <- MCVisitings
  Ids = {root, i1, i2, i3}
  Emails = {Ann, ann, boss}
  Lower <- MCLower
  Passwords = {good, weak}
  StrongPasswords = {good}
  NumberOf <- MCNumberOf
  Founders <- MCFounders
  NoUser = NoUser
  NoOne = NoOne
  AccessLife = 1
  RefreshLife = 2
  MaxTime = 4
  root = root
  i1 = i1
  i2 = i2
  i3 = i3
  v1 = v1
  v2 = v2
  v3 = v3
  Ann = Ann
  ann = ann
  boss = boss
  good = good
  weak = weak
SPECIFICATION FairSpec
INVARIANTS
  TypeOK
  OneUserPerEmail
  UserHasAccount
PROPERTIES
  LockedOut
  SessionsEnd
  VisitsEnd
