\* All three clients, two interfaces; a lease has 30, 23, 16, 9, 2 or 0 ticks left.
CONSTANTS
  Ifaces = {eth, wlan}
  Servers = {s1}
  Lengths = {30}
  Clients = {"nmcli", "networkd", "dhclient"}
  NoIface = noIface
  Nobody = nobody
  Every = 7
  Step = 7
  MaxBlocks = 2
SPECIFICATION LeaseSpec
INVARIANT HealthyIsGood
PROPERTY CurrentLease
