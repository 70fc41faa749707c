\* Two readers and a ring of three characters, whose indices wrap at six.
SPECIFICATION FairSpec
CONSTANTS
  Readers = {p1, p2}
  Letters = {"a"}
  INPUT_BUF = 3
  UINT = 6
  Sizes = {1, 3}
  None = None
INVARIANT RingInv
PROPERTIES ImplementsLineInput Consumed
