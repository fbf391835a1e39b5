---------------------------- MODULE MCFileSystem ----------------------------
(***************************************************************************)
(* Model checking of FileSystem: two threads, one directory and one file   *)
(* in it.  Of 15 sectors 9 are left for them: enough for both (3 and 4),   *)
(* and, after a restart that has lost the directory's name, for a second   *)
(* directory but not for all of the file's sectors.                        *)
(***************************************************************************)
EXTENDS FileSystem

CONSTANTS nameA, nameD

File_da == {<<nameD, nameA>>}
Dir_d == {<<nameD>>}
\* Positions and lengths, in sectors of two bytes: two whole sectors, and an
\* odd piece across both.
Requests == {<<0, 4>>, <<1, 2>>}
\* A request behind the sectors of a file of three bytes.
LongRequests == {<<2, 4>>}

=============================================================================
