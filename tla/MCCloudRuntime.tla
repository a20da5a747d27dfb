--------------------------- MODULE MCCloudRuntime ---------------------------
(***************************************************************************)
(* An instance of CloudRuntime: a rolling deployment of the web service,   *)
(* with an old and a new process, beside a worker whose release is between *)
(* the two: it waits for a script, and it meets a schema ahead of its own. *)
(***************************************************************************)
EXTENDS CloudRuntime

MCShips == [oldWeb |-> 1, newWeb |-> 3, worker |-> 2]
=============================================================================
