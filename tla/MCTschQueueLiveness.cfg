SPECIFICATION FairSpec
CONSTANTS
  n1 = n1
  p1 = p1
  p2 = p2
  Nbr = {n1}
  Eb = Eb
  Broadcast = Broadcast
  Packet = {p1, p2}
  RingCapacity = 2
  DequeuedCapacity = 1
  MaxTransmissions = 2
  MinBE = 0
  MaxBE = 1
  NoPacket = NoPacket
  NoNbr = NoNbr
  FlushesDuringSlot = FALSE
PROPERTIES
  EveryPacketReported
  FlushEnds
