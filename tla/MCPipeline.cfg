SPECIFICATION FairSpec
CONSTANTS
  e1 = e1
  e2 = e2
  p1 = p1
  p2 = p2
  p3 = p3
  p4 = p4
  p5 = p5
  l1 = l1
  l2 = l2
  l3 = l3
  src = src
  Events = {e1, e2}
  Plugins = {p1, p2, p3, p4, p5}
  Loops = {l1, l2, l3}
  Sources = {src}
  Inline = Inline
  LoopOf <- MCLoopOf
  Rules <- MCRules
  Default <- MCDefault
  NoPipeline = NoPipeline
  Interested <- MCInterested
  Finishers = {p3}
  Suspenders = {p1}
  Delayers = {p2, p3}
  Continuers = {p1, p3}
  Unloadable = {p4, p5}
  MaxDelays = 1
INVARIANTS
  TypeOK
  OneCarrier
  RecycledOnce
  NoEmptyFront
  NobodyLeftOut
PROPERTIES
  ImplementsDelivery
  EventEnds
CHECK_DEADLOCK FALSE
