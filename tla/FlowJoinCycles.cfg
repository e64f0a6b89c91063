CONSTANTS
    entry = entry
    body = body
    step = step
    sibling = sibling
    helper = helper
    deep = deep
    foreign = foreign
    p = p
    q = q
    r = r
    own = own
    template = template
    brother = brother
    shared = shared
    other = other
    m1 = m1
    m2 = m2
    lib = lib
    Methods <- MCMethods
    Entry = entry
    Endpoints <- MCEndpoints
    Outputs <- MCOutputs
    Accesses = {entry, helper, deep}
    Pool <- MCPool
    Class <- MCClass
    Ancestors <- MCAncestors
    Module <- MCModule
    Applications = {m1, m2}
    ExactOnly = FALSE
    MaxHops = 3
SPECIFICATION Spec
INVARIANTS
    CyclesAreKept
