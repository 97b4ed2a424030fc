------------------------- MODULE MCMemShareLayout -------------------------
(* The pool table as compiled (sMemShaCaches). *)
EXTENDS MemShareLayout

MCBlockSize == <<64, 128, 256, 512, 1024, 2048, 4096, 8192, 16384>>
MCBlockCoun == <<8192, 8192, 8192, 4096, 4096, 5120, 2048, 512, 1024>>
=============================================================================
