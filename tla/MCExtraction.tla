---------------------------- MODULE MCExtraction ----------------------------
(* Two jobs on an archive of two files whose order in the archive is not the *)
(* order of the inventory.                                                   *)
EXTENDS Extraction

MCSorted == <<"a.txt", "b.txt">>
MCArchive == <<"b.txt", "a.txt">>
=============================================================================
