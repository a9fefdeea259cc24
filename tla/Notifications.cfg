CONSTANTS
  c1 = c1
  c2 = c2
  d1 = d1
  d2 = d2
  d3 = d3
  Channels = {c1, c2}
  PushChannels = {c2}
  Deliveries = {d1, d2, d3}
  TestDeliveries = {d3}
  ChannelOf <- MCChannelOf
  EventOf <- MCEventOf
  Users = {u1}
  Devices = {x1}
  OwnerOf <- MCOwnerOf
  NoDevice = NoDevice
  Emitters = {w1}
  Timers = {w2}
  maximumAttempts = 2
  MaxEvents = 1
  MaxFaults = 1
  MaxChanges = 1
SPECIFICATION LiveSpec
INVARIANTS
  DeliveredIsRecorded
  DuplicatesAreBounded
PROPERTIES
  OnlyOverlapReopens
  DeliveriesSettle
CHECK_DEADLOCK FALSE
