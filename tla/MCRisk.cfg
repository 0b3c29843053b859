SPECIFICATION Spec
CONSTANTS
    Null = Null
    NoPolicy = NoPolicy
    strict = strict
    mild = mild
    broken = broken
    Setters = {s1, s2}
    Activators = {s2}
    Policies = {strict, mild}
    Overrides = {mild, broken}
    Limits <- MCLimits
    Intents <- MCIntents
    Compared <- MCCompared
    Askers = {a1}
INVARIANTS EngagedDenies WorseIsNoMilder
PROPERTIES StoreIsRegister CallsEnd
