---------------------------- MODULE MCMigration ----------------------------
(***************************************************************************)
(* Three peers, the last of which waits for its data before it resumes the *)
(* VM.  Whatever can fail does so at the middle one, which receives and    *)
(* sends; the others fail in what no peer in the middle does.  The hang    *)
(* shows with one broken connection.                                       *)
(***************************************************************************)
EXTENDS Migration

LastIsPatient == {N}

MiddleFails == ({2} \X Calls) \cup {<<1, "fs">>, <<1, "suspend">>, <<N, "complete">>}
BrokenLink  == {<<1, "link">>}

=============================================================================
