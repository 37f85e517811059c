\* Cores 0 and 1 share a word of the bitmap, 2 is in the next; each posts twice.
SPECIFICATION CoreSpec
CONSTANTS
  Sources = {0, 1, 2}
  WordBits = 2
  Words = 2
  Room = 1
  AbortOnFull = FALSE
  Requests = {r}
  Calls = 2
  Capacity = 4
  Items = {a, b}
  Blank = blank
  B = 5
  Sync = {3}
  Throws = {2, 5}
  Outcomes = {value, exception}
INVARIANTS NoLostMark EmptyIsTrue NoSlotRace
INVARIANTS PushedOnce PushedAfterSubmit NoWrapperUseAfterFree WhenAllSafe
INVARIANTS ResultExact
PROPERTIES IsFifo AllHandled JoinsDeliver
CHECK_DEADLOCK FALSE
