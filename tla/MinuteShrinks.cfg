CONSTANTS
  Bits = 8
  MaxBytes = 3
  MaxMinute = 2
  MaxCount = 2
SPECIFICATION Spec
PROPERTY NewerMinuteStarts
