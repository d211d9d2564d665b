SPECIFICATION Spec
CONSTANTS
  Guest = {"app", "db"}
  Vmid = {101, 102}
  VmidOf <- MCVmidOf
  TypeOf <- MCTypeOf
  NicCount <- MCNicCount
  Creatable = {"app", "db"}
  PlatformLifecycle = "active"
  NoLink = NoLink
  Gone = Gone
  NoRow = NoRow
  Stranger = Stranger
  MaybeRetired = {"app"}
  MaxEdits = 1
  MaxFaults = 1
INVARIANTS TypeOK PinnedUnlessEdited NoSilentOrphan
PROPERTIES DestroyAfterLink OrphanFound
CHECK_DEADLOCK FALSE
