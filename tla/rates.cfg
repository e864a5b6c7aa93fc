SPECIFICATION MCSpec
CONSTANTS
  Iface = {e1, e2, e3}
  MaxMoved = 2
  MaxCount = 2
  Device = {"sda1", "sdb1", "overlay"}
  Listed = {"sda1", "sdb1"}
  MaxMounts = 3
  MaxBytes = 2
  Container = {"c1", "c2"}
  MaxSystem = 3
SYMMETRY Names
PROPERTIES NeverOverstated ExactWhenSteady TotalIsExact SharesAreNotOverstated
