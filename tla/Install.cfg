SPECIFICATION Spec
CONSTANTS
    genesis = genesis
    kernel = kernel
    reg = reg
    layout1 = layout1
    layout2 = layout2
    layout3 = layout3
    G = G
    K = K
    R = R
    L1 = L1
    L2 = L2
    fSeed = fSeed
    fKernel = fKernel
    fRegistry = fRegistry
    fLayout = fLayout
    fNew = fNew
    Archives = {genesis, kernel, reg, layout1, layout2, layout3}
    Packages = {G, K, R, L1, L2}
    Paths = {fSeed, fKernel, fRegistry, fLayout, fNew}
    PackageOf <- MCPackageOf
    Files <- MCFiles
    Deps <- MCDeps
    Layer <- MCLayer
    Chained <- MCChained
    Expects <- MCExpects
    Options <- MCOptions
    Sound = {genesis, kernel, reg, layout1, layout2, layout3}
    Signed = {reg, layout1, layout2}
    Registry = fRegistry
    Framework = fLayout
    Seed = genesis
    Kernel = kernel
    Bundle = {reg, layout1, layout2}
    Operators = {op}
    Script = sh
    None = None
    Truncated = Truncated
    MaxRuns = 3
    MaxFaults = 1
INVARIANTS TypeOK NeverBlocked Sealed OneEnd
PROPERTY HandedOver
CHECK_DEADLOCK FALSE
