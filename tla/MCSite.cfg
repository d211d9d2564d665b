SPECIFICATION Spec
CONSTANTS
  Node = {"n1", "n2"}
  Endpoint = {"e1", "e2"}
  Placement = {"dns1", "web2", "exp2"}
  Service = {"dns", "web", "exp"}
  Device = {"d1", "d2"}
  IpRow = {"i1", "i2"}
  IpRange = {"fixed", "leased", "dynamic"}
  Workspace = {"w"}
  Agent = {"a"}
  EndpointUrl = {"e1", "e2"}
  Profile = {"dnsmasq", "app", "exporter"}
  ManagedProfile = {"dnsmasq"}
  Conflicting = {}
  HostVariable = {"resolver_url", "target_url"}
  NoDevice = NoDevice
  Blank = Blank
  Garbled = Garbled
  EndpointNode <- MCEndpointNode
  EndpointType <- MCEndpointType
  NodeType <- MCNodeType
  Accepted <- MCAccepted
  ExpectedSpec <- MCExpectedSpec
  SpaceNode <- MCSpaceNode
  SpaceUrl <- MCSpaceUrl
  AgentSpace <- MCAgentSpace
  PlacedService <- MCPlacedService
  PlacedNode <- MCPlacedNode
  PlacedEndpoint <- MCPlacedEndpoint
  PlacedProfile <- MCPlacedProfile
  Bindings <- MCBindings
  BindingVariables <- MCBindingVariables
  RangeOf <- MCRangeOf
  ObjectType <- MCObjectType
  Reconciliation <- MCReconciliation
  ProfileDeps <- MCProfileDeps
  DeviceOf <- MCDeviceOf
  Realm <- MCRealm
  Scopes <- MCScopes
  Bases <- MCBases
  Machine <- MCMachine
  Edits <- MCEdits
  Addr = {10, 11, 20}
  Mac = {"m1", "m2", "m3"}
  MaxEvents = 1
INVARIANTS TypeOK BlockerIsReported NoFalseConvergence RoundsAccounted ActuatedAsDeclared
PROPERTIES PlannedHostsCompose NothingDropped NoProgressIsNoWork TruthFollows AgentErrorsSettle
CHECK_DEADLOCK FALSE
