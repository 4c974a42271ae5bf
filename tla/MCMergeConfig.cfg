SPECIFICATION Spec
CONSTANTS
    Name <- MCName
    Word <- MCWord
    Alias <- MCAlias
    MergeVars = {"old"}
    Password = {"ROOT_PASSWORD"}
    Hashed = {"$y"}
    Sinkhole = "sink"
    RouteList = "routes"
    RouteCustom = "custom"
    RouteSwitch <- MCRouteSwitch
    Network <- MCNetwork
    Inputs <- MCInputs
INVARIANTS
    ValuesAsDefined
    AcceptedIffDeclared
CHECK_DEADLOCK FALSE
