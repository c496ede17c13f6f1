SPECIFICATION Spec
CONSTANTS
  GB = 20
  Hosts <- SmallHosts
  Profiles = {"small", "large"}
  MaxChanges = 2
  Faults = {"version", "statfs", "virt", "cgroup", "listing", "silence"}
  MaxFaults = 1
INVARIANTS
  VerdictsAreMeasured
PROPERTIES
  MoreIsNeverWorse
CHECK_DEADLOCK FALSE
