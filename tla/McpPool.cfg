SPECIFICATION Spec
CONSTANTS
    m1 = m1
    m2 = m2
    Callers <- TwoCallers
    Sessions <- OneSession
    SessionOf <- Together
    Servers = {x}
    MaxFlights = 4
    MaxAborts = 2
INVARIANTS TypeOK HandleIsUsable CooldownHolds
PROPERTIES ImplementsSingleFlight WaiterIsWoken
CHECK_DEADLOCK FALSE
