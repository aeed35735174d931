---------------------- MODULE MCConsumerProducerQueue ----------------------
(* The TLC instance of ConsumerProducerQueue. *)
EXTENDS ConsumerProducerQueue
=============================================================================
