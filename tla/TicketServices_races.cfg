CONSTANTS
  Requests = {r1, r2}
  Services = {a, b}
  Initial = {a}
SPECIFICATION MCSpec
INVARIANTS
  NeverEmpty
  OnlyAsked
PROPERTIES
  ReplacedUnlessCrossed
  CorrectionsReturn
