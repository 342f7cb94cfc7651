SPECIFICATION FairSpec
CONSTANTS
  test0 = test0
  test1 = test1
  mailer = mailer
  Hosts = {0, 1}
  Clients <- MCClients
  HostOf <- MCHostOf
  Script <- MCScript
  Boxes = {0, 1, 2}
  Networks = {"perfect", "lossy"}
  Nil = Nil
INVARIANTS PacketAnnounced OneAtATime
PROPERTIES Delivers SendsReturn TestEnds
CHECK_DEADLOCK FALSE
