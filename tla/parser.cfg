SPECIFICATION Spec
CONSTANTS
    None = None
    Custom = {"Http", "Mark"}
    CustomSizes = {0, 2}
    OptionSizes = {0, 4}
    Rules <- MCRules
    InitialRules <- MCInitialRules
    StartTypes = {"Ether", "Tcp", "Http"}
    InputSizes <- MCInputSizes
    MaxRules = 2
INVARIANTS
    TypeOK
    DefaultConsumesAll
    DefaultShape
PROPERTIES
    ImplementsLayerChain
    Terminates
