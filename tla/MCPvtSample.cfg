\* Values around every boundary, all structures, all feature masks.
CONSTANTS
  Mtus = {23, 24, 247}
  Requests    <- MCRequests
  SampleFlags <- MCSampleFlags
  Motions     <- MCMotions
SPECIFICATION Spec
INVARIANTS
  TypeOK
  FitsBuffer
  PhoneParses
  OverlayExact
  ToldWhatWasSaid
  MotionFaithful
