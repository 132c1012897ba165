SPECIFICATION Spec
CONSTANTS
  Dogs = {rex, ada}
  rex = rex
  ada = ada
  Offices = {depot}
  depot = depot
  Types = {key, bone}
  Valued = {key}
  key = key
  bone = bone
  BagCapacity = 2
  MaxSpawned = 3
  MaxRestarts = 1
SYMMETRY DogSymmetry
INVARIANTS
  EveryItemInOnePlace
  IdsUniqueUntilRestart
  PaidOnceUntilAbort
PROPERTIES
  EmptiedIsPaid
