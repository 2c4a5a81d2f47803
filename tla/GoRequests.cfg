CONSTANTS
    OidOrder <- MCOidOrder
    Values <- MCValues
    BuildSubs <- MCBuildSubs
    MaxBuilds = 4
    Slots = {0, 65535}
    Programs <- MCPrograms
    NativeToProto <- ToProto
    ProtoToNative <- FromProto
    InfosForRequest <- paramInfosForRequest
    DeviceToJSON <- MarshalDeviceJSON
SPECIFICATION Spec
INVARIANTS
    TransportsAgree
    NoHandlerWithoutScope
    ConversionsFaithful
\* A program that only builds stops.
CHECK_DEADLOCK FALSE
