CONSTANTS
  SECURITY_PARAMETER = 2
  DIGEST_RESULT_SIZE = 4
  Byte = {0, 1, 2}
  MaxPlaintextLength = 4
  MaxPayloadSize = 8
SPECIFICATION Spec
INVARIANTS RecoversMessage ChangeIsLocal
