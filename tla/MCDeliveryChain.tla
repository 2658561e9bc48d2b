-------------------------- MODULE MCDeliveryChain --------------------------
(* DeliveryChain for TLC: rings of one or two samples, so that the host
   falls behind; one or two boots, one or two crashes of the host and two
   requests on the line. *)
EXTENDS DeliveryChain

MCSampleRecords ==
  {[payload |-> "a", in_range |-> TRUE, device_time_us |-> t,
    timing_valid |-> TRUE, config_revision |-> 1, timing_segment_id |-> 1] :
     t \in 1..MaxSequence}
=============================================================================
