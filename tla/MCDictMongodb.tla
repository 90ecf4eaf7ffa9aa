--------------------------- MODULE MCDictMongodb ---------------------------
(* Small instances of DictMongodb for TLC.                                 *)
EXTENDS DictMongodb
=============================================================================
