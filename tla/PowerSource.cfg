SPECIFICATION FairSpec
CONSTANT MaxQueue = 1
INVARIANTS AttachAgrees ChargeAgrees ChargeOnlyAttached DetachOnItsWay LastHostLocks
PROPERTIES SettlesOnBattery SettlesOnUsb
