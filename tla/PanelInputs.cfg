SPECIFICATION FairSpec
INVARIANTS
  TypeOK
  ResultIgnoresHalfTyped
  GreyedOutIsNotUsed
PROPERTY
  AutoPicksUpAgain
