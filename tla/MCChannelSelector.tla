------------------------ MODULE MCChannelSelector -------------------------
(* All positions of the channel selector.  The frequency row the           *)
(* multiplexer is left at shows one contact: the dials are not turned with *)
(* the channel knob.  The host sends a channel of the knob, which is the   *)
(* radio's own or another.                                                 *)
EXTENDS ChannelSelector
MCStrays == {{2}}
MCStops == 1..20
MCHostChannels == {7}
=============================================================================
