---------------------------- MODULE MCCompressJob ----------------------------
EXTENDS CompressJob

File(name, size) == [name |-> name, directory |-> FALSE, size |-> size]
Directory(name) == [name |-> name, directory |-> TRUE, size |-> 0]

\* By name: a directory, two files that make a batch, one that is too large for
\* a batch, and one that is alone.
MCSources == <<File(4, 3), Directory(1), File(2, 1), File(3, 2), File(5, 1)>>

\* The user chose files of the same name in two folders.
SameName == <<File(1, 1), File(2, 1), File(1, 1)>>
=============================================================================
