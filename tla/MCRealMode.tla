------------------------------ MODULE MCRealMode ------------------------------
(***************************************************************************)
(* Words of 8 bits, paragraphs of 16 bytes, sectors of two paragraphs; the *)
(* largest program is longer than a segment, and carries occur.  It goes   *)
(* to 0x110 of 0x1000 linear addresses.  A clock of two hours of two       *)
(* minutes of eleven seconds: every carry happens, and the seconds need    *)
(* both digits.  Buffers of two codes and of one key, and four events.     *)
(***************************************************************************)
EXTENDS RealMode

MCHeaders ==
    { h \in [size : {31, 32, 33, 63, 64, 65, 96, 256, 300, 320}, entry : {0, 16, 48, 272},
             table : {<<0>>, <<16, 32>>, <<48, 240, 288>>}] :
         h.entry < h.size /\ \A i \in DOMAIN h.table : h.table[i] < h.size }
=============================================================================
