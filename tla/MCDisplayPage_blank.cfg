SPECIFICATION Spec
CONSTANTS
  image = image
  photo = photo
  website = website
  video = video
  widget = widget
  NoItem = NoItem
  NoElement = NoElement
  Splash = Splash
  Empty = Empty
  Items <- MCItems
  KindOf <- MCKindOf
  ElementIds = {1, 2, 3, 4}
  MaxRetries = 10
  MaxSwaps = 2
INVARIANTS
  ShowsCurrentItem
