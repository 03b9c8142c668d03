SPECIFICATION Spec
CONSTANTS
  Bytes <- MCBytes
  Packets <- MCPackets
INVARIANT TypeOK
PROPERTY SpsPpsIdrPass
PROPERTY CodesAreStandard
