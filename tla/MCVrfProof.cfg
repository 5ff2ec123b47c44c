CONSTANTS
  Order = 3
  Scalar <- MCScalar
  Point <- MCPoint
  SAdd <- MCAdd
  SMul <- MCMul
  PAdd <- MCAdd
  Times <- MCMul
  Neg <- MCNeg
  Zero = 0
  G = 2
  compress <- MCcompress
  Encoding <- MCEncoding
  Input = {i1}
  HASH_TO_POINT_MAX_ATTEMPTS = 2
SPECIFICATION Spec
CHECK_DEADLOCK FALSE
INVARIANTS Complete VerifiersAgree OutputBound
