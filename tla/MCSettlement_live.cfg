SPECIFICATION FairSpec
CONSTANTS
  o1 = o1
  o2 = o2
  e1 = e1
  e2 = e2
  a3 = a3
  a1 = a1
  a2 = a2
  h1 = h1
  h2 = h2
  d1 = d1
  d2 = d2
  x1 = x1
  None = None
  Orders = {o1}
  Emails = {e1}
  Accounts = {a1, a2}
  AccountEmail <- OneAddress
  Notices <- TwoEventNotices
  NoticeIds = {x1}
  Handlers = {h1, h2}
  Admins = {d1}
  MaxFaults = 1
PROPERTIES
  NotificationsAnswered
  PaymentTakesEffect
