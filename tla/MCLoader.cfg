CONSTANTS
  MaxLoads = 3
  MaxDescriptors = 1
SPECIFICATION Spec
INVARIANTS
  DescriptorsReturned
  FreesAreSound
  EndsClean
