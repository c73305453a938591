\* One address, whose row meets others only through the devices; two devices,
\* two overlapping scans, two links waiting at a time.
CONSTANTS
  a1 = a1
  d1 = d1
  d2 = d2
  None = None
  Addresses = {a1}
  Devices = {d1, d2}
  Scans = {1, 2}
  Requests = {1, 2}
SPECIFICATION LiveSpec
INVARIANT LinksAreLive
PROPERTIES TechnicalStaysOut ScansDecideNothing TechnicalGetsOut
