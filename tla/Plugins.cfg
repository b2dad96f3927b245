SPECIFICATION Spec
CONSTANTS
    a = a
    b = b
    c = c
    Plugins <- ThreePlugins
    Configs <- SomeConfigs
INVARIANTS PluginsAgree AllOrNothing
PROPERTIES PluginsInTurn
