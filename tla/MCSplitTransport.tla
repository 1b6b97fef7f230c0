-------------------------- MODULE MCSplitTransport --------------------------
EXTENDS SplitTransport, TLC

(* The checksum does not tell one key from two. *)
CollidingCrc == "none" :> 1 @@ "a" :> 2 @@ "ab" :> 2
=============================================================================
