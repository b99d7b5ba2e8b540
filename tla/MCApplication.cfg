SPECIFICATION ProgramsSpec
CONSTANTS
    core = core
    plugin = plugin
    m1 = m1
    m2 = m2
    m3 = m3
    e1 = e1
    r1 = r1
    r2 = r2
    b1 = b1
    b2 = b2
    other = other
    m4 = m4
    None = None
    Modules <- ThreeModules
    MetaBlocks <- FourClasses
    ModuleOf <- ItsModule
    Name <- OwnName
    ID <- SharedID
    Extensions <- OneExtension
    Tasklets <- OneTasklet
    Runners <- TwoRunners
    Score <- TwoScores
    Core = core
    Plugins <- TwoPlugins
    SuperOf <- TheSuper
    Blocks <- TwoBlocks
INVARIANTS
    TypeOK
    LookupsAreLive
    ListedIsFound
    ExtensionsAgree
    BestRunnerIsBest
    AppTypeOK
    EachModuleOnce
    BlocksKeepTheirMetaBlock
    SuperIsAlive
PROPERTY
    ShutdownEnds
