--------------------------- MODULE MCWearLeveling ---------------------------
(***************************************************************************)
(* Instances of WearLeveling for TLC.                                      *)
(***************************************************************************)
EXTENDS WearLeveling, Sequences

Write(address, bytes) ==
  [address |-> address, length |-> Len(bytes),
   value |-> [i \in 0..(Len(bytes) - 1) |-> bytes[i + 1]]]

(* Four logical bytes.  With OPTIMIZED_64_LIMIT = 1 address 0 takes the     *)
(* one-byte entry, the pair at 2 the 0/1 entry when it holds 0 or 1, and    *)
(* everything else a multi-byte entry.  The last request is out of range.   *)
SmallRequests ==
  {Write(0, <<1>>), Write(0, <<2>>), Write(2, <<0, 0>>), Write(2, <<1, 0>>),
   Write(1, <<3, 2, 1>>), Write(3, <<1, 1>>)}

(* Twenty-four logical bytes in a sector of their own, as on the RP2040.    *)
WideRequests ==
  {Write(0, <<1>>), Write(3, <<2, 0>>), Write(1, <<3, 4, 5, 6, 7, 8, 9>>), Write(23, <<1, 1>>)}

(* Eight logical bytes, one backing word. *)
FewRequests == {Write(3, <<2, 2>>), Write(4, <<1>>)}

ErasedFlash == {Blank}
=============================================================================
