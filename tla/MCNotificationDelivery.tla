------------------------ MODULE MCNotificationDelivery ------------------------
EXTENDS NotificationDelivery

CONSTANTS
  c1, c2,              \* an Apprise channel and a push channel
  d1, d2, d3           \* a notification by either and a test of the first

MCChannelOf == [d \in Deliveries |-> IF d = d2 THEN c2 ELSE c1]
MCEventOf   == [d \in Deliveries |-> d]
MCOwnerOf   == [x \in Devices |-> CHOOSE u \in Users : TRUE]
=============================================================================
