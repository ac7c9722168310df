--------------------------- MODULE MCChatDelivery ---------------------------
(***************************************************************************)
(* An instance of ChatDelivery: a broadcast conversation and one with node *)
(* 2, logs of two messages, ids that run out after three. The packets have *)
(* ids that the node itself hands out too.                                 *)
(***************************************************************************)
EXTENDS ChatDelivery

Packet(from, id, conv, key, text, ack) ==
    [from |-> from, id |-> id, conv |-> conv, key |-> key, text |-> text, ack |-> ack]

MCPackets == {Packet(1, 1, 0, Public, TRUE, FALSE),
              Packet(2, 1, 1, Public, TRUE, TRUE),
              Packet(2, 2, 1, "k", TRUE, FALSE),
              Packet(1, 2, 0, Public, FALSE, FALSE)}

MCChannelKey == [c \in Convs |-> IF c = 0 THEN "k" ELSE Public]

Mix(hear, send, ids, crash, tick, screen) ==
    [Hear |-> hear, Send |-> send, Id |-> ids, Crash |-> crash, Tick |-> tick,
     Screen |-> screen]
MCBudgets == {Mix(2, 1, 0, 0, 0, 4), Mix(3, 0, 0, 0, 0, 2), Mix(2, 0, 0, 0, 1, 2),
              Mix(0, 2, 0, 1, 0, 6), Mix(1, 1, 0, 1, 0, 5), Mix(0, 0, 5, 2, 0, 0)}
=============================================================================
