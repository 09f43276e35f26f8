CONSTANTS
  Accounts = {u1}
  RefreshTokens = {1, 2, 3}
  ResetTokens = {11}
  Clients = {a, b}
  Nobody = nobody
  Nothing = nothing
  UserStatus = {"ACTIVE", "SUSPENDED"}
  MaxRequests = 6
  MaxFailedAttempts = 2
  Members = {m1, m2}
  Administrator = m1
  Desks = {a, b}
  Statuses = {"ACTIVE", "SUSPENDED"}
  RoleLists = {{"staff"}, {"customer"}}
  Days <- MCDays
  Expenses = {1, 2}
  Categories = {cat}
  Periods = {1, 2}
  Clerks = {a, b}
  Amounts = {1}
  Sales = {"paid", "unpaid", "back", "first"}
  ExpenseStatus = {"PENDING", "APPROVED"}
  Sale <- MCSale
  MaxBookings = 4
  Authors = {a1}
  Goods = {g1}
  ReviewIds = {1, 2}
  Texts = {x, y}
  Handlers = {a, b}
  MaxHelpful = 1
  MaxEdits = 6
  Subscribers = {s1}
  NoSubscriber = shop
  Channels = {"EMAIL", "SMS"}
  SentByStaff = {"NEW_DROP", "ORDER_SHIPPED"}
  Messages = {1, 2}
  Tasks = {a, b}
  MaxDeliveries = 2
SPECIFICATION BackofficeSpec
INVARIANTS
  BackofficeTypeOK
  SessionsStayEnded
  CounterCountsFailures
  SomebodyAdministers
  ClosedBooksAreKept
  ReportsAddUp
  PublishedAsModerated
  OptOutsAreRespected
  DeliveredOnce
CHECK_DEADLOCK FALSE
SYMMETRY Symmetry
