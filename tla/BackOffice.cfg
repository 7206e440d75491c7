SPECIFICATION Spec
CONSTANTS
    Plots = {p1, p2}
    Phones = {f1}
    Passwords = {w1, w2}
    Clients <- Requests
    Addresses = {a1}
    AddressOf <- OneAddress
    Listed <- EveryPlot
    Given <- SamePassword
    Limit = 2
    GlobalLimit = 3
    MaxVersion = 2
    MaxEvents = 2
    Nobody = Nobody
    Codes = {s1, s2}
    Names = {n1, n2}
    Known <- OneSupplier
    Lists <- SomeLists
    Sheets <- Requests
    Forms <- Requests
    MaxWrites = 2
    Absent = Absent
    Crops = {c1, c2}
    Varieties = {v1}
    PCodes = {q1, q2}
    Start <- OneOfEach
    Files <- SomeFiles
    Desks <- Requests
    MaxOpen = 2
    MaxCommits = 2
    NoRow = NoRow
    Characters <- SomeCharacters
    Suppliers <- TwoSuppliers
    Labels <- SomeLabels
    ProductCodes <- SomeCodes
    Months <- TwoMonths
    Grown <- NoneOrMany
    TypedCodes <- OneTyped
    MaxLotLength = 15
    MaxMade = 3
    Plans <- SomePlans
    Quantities = {0, 29, 207}
    Percents = {1500}
    MaxKg = 20000
    MaxPercent = 12937
    FallShort <- RoundedDown
    MaxFilings = 2
    Null = Null
    p1 = p1
    p2 = p2
    f1 = f1
    w1 = w1
    w2 = w2
    r1 = r1
    r2 = r2
    a1 = a1
    s1 = s1
    s2 = s2
    n1 = n1
    n2 = n2
    c1 = c1
    c2 = c2
    v1 = v1
    q1 = q1
    q2 = q2
SYMMETRY Symmetry
CHECK_DEADLOCK FALSE
INVARIANTS
    LookupsAreGuarded
    CodesTellApart
PROPERTIES
    SuppliersStand
    TaxonomyStands
    FiguresAgree
