\* All pairs of schemas over three names; two rows written, one upgrade.
SPECIFICATION Spec
CONSTANTS
    p = p
    q = q
    r = r
    Names = {p, q, r}
    NameHash <- Hashes
    FieldsOf <- FieldChoices
    Sample <- Samples
    MaxWrites = 2
    Capacities = {1, 3}
    MaxIdBytes = 64
INVARIANTS
    TypeOK
    NothingLost
    RegionsDisjoint
CHECK_DEADLOCK FALSE
