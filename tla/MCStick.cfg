SPECIFICATION Spec
CONSTANT NKeys = 3
INVARIANTS
  LastTriggerIsReported
  OnlyHiddenKeysRepeat
