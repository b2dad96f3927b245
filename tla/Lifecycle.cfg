SPECIFICATION Spec
CONSTANTS
    bus = bus
    http = http
    plugins = plugins
    Names <- ThreeNames
    ServiceKeys <- TwoKeys
    Provides <- MCProvides
    Files <- SomeFiles
    MaxInstances = 3
    MaxDirectCalls = 2
INVARIANTS ModulesAgree RestartIsNotRefused ServicesMatchModules
PROPERTIES HooksInTurn
