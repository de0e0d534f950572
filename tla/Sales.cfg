SPECIFICATION SalesSpec
CONSTANTS
    Orders = {o1, o2}
    Variants = {v1}
    MaxQty = 2
    MaxOnHand = 2
    CustomerOf <- OneCustomer
    OfferedTypes = {"pickup", "delivery", "shipping", "none"}
    LoneTypes = {"delivery", "shipping", "none"}
    SellsTickets = TRUE
    MaxOpenOrders = 2
    MaxRedemptions = 1
    PerCustomer = 2
SYMMETRY Symmetry
INVARIANTS
    ReservedIsHeld
    StockConserved
    ShortfallIsFlagged
    SoldOutIsAnnounced
    StockFollowsOrder
    CouponCountIsActive
