SPECIFICATION InitSpec
CONSTANTS
  OtherClocks = {37500}
INVARIANT ThreeMHz
