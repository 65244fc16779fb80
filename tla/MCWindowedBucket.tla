-------------------------- MODULE MCWindowedBucket --------------------------
(* Instances of WindowedBucket, and so of TokenBucket, for TLC:            *)
(* MCWindowedBucket.cfg checks the bucket and the rate limit,              *)
(* MCWindowedBucketDenial.cfg the converse of the rate limit.              *)
EXTENDS WindowedBucket
=============================================================================
