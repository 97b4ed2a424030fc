---------------------------- MODULE MCMemShare ----------------------------
(* Two pools (3 small blocks, 2 large ones); requests that fit either pool
   exactly, by one byte too many, and not at all; two module ids that are
   valid and one that mem_share_malloc refuses. *)
EXTENDS MemShare

MCBlockSize == <<8, 16>>
MCBlockCoun == <<3, 2>>
MCSizes     == {-4, 4, 5, 12, 13}
MCModules   == {0, 1, 2}
=============================================================================
