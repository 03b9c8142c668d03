SPECIFICATION Spec
CONSTANTS
  Bytes <- MCBytes
  Packets <- MCPackets
INVARIANT HevcParameterSetEndsGap
