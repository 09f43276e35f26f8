CONSTANTS
  Carts = {1, 2, 3}
  Customer = customer
  Guest = guest
  Variants = {x, y}
  MAX_QTY = 2
  Tabs = {a, b}
  NoCart = none
  MaxCartRequests = 4
  Offers = {"welcome", "sale"}
  Coupons = {"HELLO"}
  Buyers = {x, y}
  Baskets = {"two"}
  Terms <- MCTerms
  Limits <- MCLimits
  Endless = {"sale"}
  Lines <- MCLines
  Subtotal <- MCSubtotal
  Tills = {a, b}
  Nil = nil
  MaxOrders = 2
  MaxCategories = 2
  MaxProducts = 1
  MaxVariants = 1
  Editors = {a, b}
  MaxEditions = 5
  Callers = {a, b}
  MaxAddresses = 3
  MaxCalls = 6
SPECIFICATION StorefrontSpec
PROPERTY
  LaterAddressTakesDefault
CHECK_DEADLOCK FALSE
