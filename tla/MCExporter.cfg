SPECIFICATION MainSpec
CONSTANTS
  Order <- MCOrder
  ScrapeTime = {"interface"}
  Frr = "frr"
  Node = "node"
  EnabledSets <- MCEnabledSets
  RootDir = "/"
  Rootfs = {"/", "/hostfs"}
  AddressLists <- MCAddressLists
  Vsock = {"vsock://9101"}
  NoVrf = ""
  Vrfs = {"", "mgmt"}
  NoRootfs = NoRootfs
INVARIANTS
  ListensWhenReady
  
PROPERTIES
  StartEnds
CHECK_DEADLOCK FALSE
