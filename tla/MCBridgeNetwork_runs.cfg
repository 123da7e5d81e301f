SPECIFICATION Spec
CONSTANTS
    m1 = m1
    m2 = m2
    m3 = m3
    Machines <- ThreeMachines
    NetRm = NetRm
    Addresses <- TwoAddresses
    Names <- FourNames
    Static <- DynamicOrFixed
    Failing <- FirstFailing
    Modes = {TRUE, FALSE}
    Overlapping <- Others
    None = None
    NoLink = NoLink
    NoAlias = NoAlias
SYMMETRY Symmetry
CHECK_DEADLOCK FALSE
INVARIANTS
    UpdateReconciles
    AttachedTapKept
    RemovedNetworkUnused
