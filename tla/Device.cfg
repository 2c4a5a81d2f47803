CONSTANTS
    Descriptors <- MCDescriptors
    DefaultScope = "op"
    DefaultMaxLength = 2
    DefaultTotalLength = 0
    Width = 4
    IndexTexts <- MCIndexTexts
    BadTexts = {"bad"}
    Tops <- MCTops
    Commands = {"run", "reset"}
    FirstValues <- MCFirstValues
    Menus = {"g/m", "g/n"}
    Constraints = {"shared"}
    Shipped = {"en"}
    Subscriptions = TRUE
    Programs <- MCPrograms
    Serializers = {s1}
    ParamToProto <- paramToProto
    SubParamsFor <- subParamsFor
SPECIFICATION Spec
INVARIANTS
    OnlyAuthorizedReads
    ValuesKept
    VisitorSound
    SerializedComplete
PROPERTIES
    OnlyAuthorizedWrites
