SPECIFICATION Spec
CONSTANTS
    Blocks = {b1, b2, b3}
    Outside = {away}
    NoBlock = NoBlock
    Programs <- MCPrograms
    Data = 2
    Slots = 10
    Limits = {6, 1000}
INVARIANTS TypeOK HostsFollowTheirGuests RunsWhatIsMeant DirectCallsBalance
PROPERTY PredictsReturns
