------------------------------ MODULE MCShell ------------------------------
(***************************************************************************)
(* A console of three bytes, and a shell that finds a history which takes  *)
(* several chunks to load.  The plain bytes are those of the serial line's *)
(* escape sequence for the left arrow.                                     *)
(***************************************************************************)
EXTENDS Shell

CONSTANT MaxKeys   \* bound on the keys typed

VARIABLE keys

Names == << <<"[">>, <<"[", "D">> >>
Tools == {<<"D", "nl">>}
Histories == {<< <<"[">>, <<"D">>, <<"[", "[">> >>}

MCInit == Init /\ keys = 0
MCNext ==
  \/ consoleintr /\ keys < MaxKeys /\ keys' = keys + 1
  \/ shell /\ UNCHANGED keys

MCSpec == MCInit /\ [][MCNext]_<<vars, keys>>
============================================================================
