SPECIFICATION Spec
CONSTANTS
  n1 = n1
  n2 = n2
  p1 = p1
  p2 = p2
  p3 = p3
  Nbr = {n1, n2}
  Eb = Eb
  Broadcast = Broadcast
  Packet = {p1, p2, p3}
  RingCapacity = 2
  DequeuedCapacity = 1
  MaxTransmissions = 2
  MinBE = 0
  MaxBE = 1
  NoPacket = NoPacket
  NoNbr = NoNbr
  FlushesDuringSlot = FALSE
SYMMETRY Symmetry
INVARIANTS
  TypeOK
  PacketHasOnePlace
  SlotHoldsHead
  DequeuedNeverOverflows
  NeverSendsInBackoff
PROPERTIES
  PacketSentTellsTheTruth
  ImplementsPacketLife
