SPECIFICATION Spec
CONSTANTS
  Machines <- AllMachines
INVARIANTS
  CountsExact
  NoLeak
  
