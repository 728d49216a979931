\* Three elements, two images that may load late, and one call that fails.
SPECIFICATION FairSpec
CONSTANTS
  img = img
  div = div
  plain = plain
  color = color
  u1 = u1
  u2 = u2
  None = None
  Nodes = {img, div, plain}
  Props = {color}
  Urls = {u1, u2}
  Styled <- Rules
  Valued <- Values
  Backgrounds <- Layers
  Sources <- Shown
  MaxFaults = 1
CHECK_DEADLOCK FALSE
INVARIANTS TypeOK WrittenIsWhole
PROPERTIES WaitShrinks Ends
