SPECIFICATION Spec
CONSTANTS
  c1 = c1
  c2 = c2
  Controllers = {c1,c2}
  NULL = NULL
  Stale = Stale
  MAX_NIC_INTERFACES = 4
  Paths = {"child", "end"}
  InReverse = FALSE
  FailAt = {"PrivateData", "OpenPci", "OpenPath", "PciInit", "FirstTimeInit", "ControllerProtocols", "ChildProtocols", "CloseChild", "UninstallNii", "Attributes", "CloseProtocols"}
INVARIANT IInv
CHECK_DEADLOCK FALSE
INVARIANT ChildrenExact
