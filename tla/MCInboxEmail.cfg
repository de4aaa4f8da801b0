SPECIFICATION Spec
CONSTANTS
  e1 = e1  e2 = e2  e3 = e3  e4 = e4
  u1 = u1  u2 = u2  ready = ready  notice = notice
  t1 = t1  t2 = t2  t3 = t3
  Events = {e1, e2, e3}
  Users = {u1, u2}
  Types = {ready}
  Keys = {e1, e3, e4}
  Recipient <- MCRecipient
  TypeOf <- MCTypeOf
  KeyOf <- MCKeyOf
  Cap <- MCCap
  Tabs = {t1, t3}
  Owner <- MCOwner
  MaxDay = 1
  None = None
CHECK_DEADLOCK FALSE
INVARIANTS OncePerEvent RecordsTruthful EmailGated
