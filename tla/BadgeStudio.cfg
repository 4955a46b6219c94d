SPECIFICATION Spec
CHECK_DEADLOCK FALSE
CONSTANTS
  Tab = {t1, t2}
  StudioTab = {t1}
  Account = {author, guest}
  Author = {author}
  OAuthAccount = {guest}
  NoOne = NoOne
  Cookie = author
  View = {"me", "new", "edit", "badge"}
  Image = {i1}
  Thumb = {h1}
  NoPicture = NoPicture
  NoDefinition = NoDefinition
  MaxSaves = 2
INVARIANTS
  TypeOK
  LogoutLasts
  ExtraEventsWereLost
  AwardsAreTheAuthors
  ThumbAsChosen
