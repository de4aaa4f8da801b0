SPECIFICATION Spec
CONSTANTS
  Meetings = {m1, m2}
  s1 = s1  s2 = s2  s3 = s3
  x = x  y = y  p1 = p1  p2 = p2  p3 = p3
  Slots = {s1, s2}
  Parts = {x}
  Staff = {p1}
  Buyers = {b1, b2}
  Keys = {}
  Blockable = {s2}
  Expiring = {}
  None = None
  Capacity <- MCCapacity
  SlotPart <- MCSlotPart
  Overlaps <- MCOverlaps
  StaffPart <- MCStaffPart
  SlotStaff <- MCSlotStaff
  OpenTo <- MCOpenTo
  Wishes <- MCWishes
SYMMETRY Symmetry
CHECK_DEADLOCK FALSE
INVARIANTS SlotAccounting HeldMatchesStatus NoDoubleBooking
