------------------------ MODULE MCRecordingFetcher ------------------------
(* Three tasks over two coordinates: enough for a leader, a waiter and a   *)
(* late caller on one coordinate while another is fetched beside them.     *)
EXTENDS RecordingFetcher
===========================================================================
