------------------------------ MODULE TmpFile ------------------------------
(***************************************************************************)
(* A file that is replaced as a whole: the new text is written to a        *)
(* temporary file, whose name all writers share, and renamed over the old  *)
(* one.  Files are inodes: a writer that has the temporary file open goes  *)
(* on writing to it when another one renames it.  Every writer writes once *)
(* and gives its name to the inode it creates.                             *)
(*                                                                         *)
(* An Option is a set, empty or with one element: the bytes of an inode    *)
(* are none, or one text.  What a text is, and what of it is left when it  *)
(* is written over, is for the module that uses this one to say.           *)
(***************************************************************************)
CONSTANT
    Writers  \* who replaces the file

VARIABLES
    file,    \* the inode under the file's name
    tmp,     \* the inode under the temporary name
    open,    \* the inode a writer has open
    data     \* the bytes of an inode

tmpFileVars == <<file, tmp, open, data>>

NoFile ==
    /\ file = {} /\ tmp = {}
    /\ open = [w \in Writers |-> {}]
    /\ data = [w \in Writers |-> {}]

\* The text of the file, and the one a writer is about to write over: of
\* another writer, who has opened the temporary file too and wrote first.
Text == UNION {data[i] : i \in file}
Under(w) == UNION {data[i] : i \in open[w]}

\* Open, create and truncate the temporary file.
CreateTmp(w) ==
    /\ tmp' = IF tmp = {} THEN {w} ELSE tmp
    /\ open' = [open EXCEPT ![w] = tmp']
    /\ data' = [i \in Writers |-> IF i \in tmp' THEN {} ELSE data[i]]
    /\ UNCHANGED file

\* Write from the start of the file, which then holds the given text.
WriteTmp(w, text) ==
    /\ data' = [i \in Writers |-> IF i \in open[w] THEN {text} ELSE data[i]]
    /\ open' = [open EXCEPT ![w] = {}]
    /\ UNCHANGED <<file, tmp>>

\* Rename it; that fails if another writer has renamed it already.
Renamable == tmp # {}

RenameTmp ==
    /\ file' = tmp
    /\ tmp' = {}
    /\ UNCHANGED <<open, data>>

RemoveFile ==
    /\ file' = {}
    /\ UNCHANGED <<tmp, open, data>>

=============================================================================
