SPECIFICATION Spec
CONSTANTS
  None = None
  Names <- MCNames
  Driver <- MCDriver
  Allowed <- MCAllowed
  Keys = {1, 2}
  Values = {1, 2}
  KeyLists <- MCKeyLists
INVARIANTS TopologyExact FirstServingClass
PROPERTIES RegistrationImproves
