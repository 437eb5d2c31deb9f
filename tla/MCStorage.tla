------------------------------ MODULE MCStorage ------------------------------
(* Storage with a drive of one large sector on the command line, of which  *)
(* the file holds the first half, and a name under which the program may   *)
(* create another drive.                                                   *)
EXTENDS Storage, TLC

Small == [pieces |-> 1, sectors |-> 2]
Large == [pieces |-> 2, sectors |-> 1]
MCGeometries == {Small, Large}
MCHostFiles == "old" :> DriveFile(Large, <<1>>) @@ "new" :> Absent
MCInitialDrives == <<"old">>
==============================================================================
