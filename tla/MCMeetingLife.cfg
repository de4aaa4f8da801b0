SPECIFICATION Spec
CONSTANTS
  Meetings = {m1}
  s1 = s1  s2 = s2  s3 = s3
  x = x  y = y  p1 = p1  p2 = p2  p3 = p3
  Slots = {s1, s2, s3}
  Parts = {x, y}
  Staff = {p1, p2, p3}
  Buyers = {b1}
  Keys = {k1}
  Blockable = {s2}
  Expiring = {s1, s3}
  None = None
  Capacity <- MCCapacity
  SlotPart <- MCSlotPart
  Overlaps <- MCOverlaps
  StaffPart <- MCStaffPart
  SlotStaff <- MCSlotStaff
  OpenTo <- MCOpenTo
  Wishes <- MCWishes
CHECK_DEADLOCK FALSE
INVARIANTS DisclosureGated HistoryEndsInStatus DecidedOnCurrentView
