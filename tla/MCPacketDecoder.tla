-------------------------- MODULE MCPacketDecoder ---------------------------
(***************************************************************************)
(* PacketDecoder with eight byte values, a header of three bytes (version,  *)
(* the rest, length) and a CRC of one byte.                                *)
(***************************************************************************)
EXTENDS PacketDecoder

Frame(info, payload, crc) ==
    <<Sync0, Sync1, Version, info, Len(payload)>> \o payload \o <<crc>>

(* A payload that looks like the start of a frame; a payload and a CRC that *)
(* do; three frames without sync bytes inside, one of which ends in the     *)
(* first sync byte and one of which has it next to the second, turned over. *)
MCFrames ==
    {Frame(0, <<Sync0, Sync1, Version>>, 0),
     Frame(0, <<Sync0>>, Sync1),
     Frame(0, <<0, 0>>, Sync0),
     Frame(0, <<Sync1, Sync0>>, 0),
     Frame(Sync1, <<0, Version, 0>>, Sync0)}
=============================================================================
