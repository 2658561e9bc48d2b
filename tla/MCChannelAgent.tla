--------------------------- MODULE MCChannelAgent ---------------------------
(* The agent of a channel with one work submitted, for TLC. *)
EXTENDS ChannelAgent

MCOneWork == {[kinds |-> {"Measurement", "Lifecycle"}, count |-> 1]}
=============================================================================
