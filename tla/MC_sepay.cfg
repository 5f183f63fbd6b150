SPECIFICATION MCSpec
CONSTANTS
  h1 = h1  h2 = h2  a1 = a1  a2 = a2  s1 = s1  s2 = s2  r1 = r1  r2 = r2
  k1 = k1  k2 = k2  k3 = k3  t1 = t1  t2 = t2  None = None  Foreign = Foreign
  Handlers = {h1}
  Admins = {a1, a2}
  Stores = {s1, s2}
  Receivers = {r1, r2}
  Updates <- MCUpdates
  Hooks <- MCHooks
  Drafts <- MCDrafts
  Legacies <- MCLegacies
  MaxRevision = 1
  MaxTime = 2
  MaxAmountVND = 1999
  AmountLength = 5
  DigitChars <- MCDigits
  OtherChars = {"x"}
  Moments <- MCMoments
  Rows <- MCRows
  Days = {0, 1, 2}
  Limits = {1, 2}
  SpokenGroups <- MCSpokenGroups
INVARIANTS TwiceOnlyAcrossASwitch MissedOnlyAcrossASwitch EntriesHaveEvidence ReceiverStaysPinned AcksKept RegisteredSecretAuthenticates AmountsReadRight TextOrderToTheSecond AmountsSpokenApart PagesListOnce
PROPERTY BookedUnderAuthority
CHECK_DEADLOCK FALSE
SYMMETRY Symmetry
