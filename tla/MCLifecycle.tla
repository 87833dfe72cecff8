---------------------------- MODULE MCLifecycle ----------------------------
(***************************************************************************)
(* Lifecycle with the first two actions of scripts/lifecycle.py, and a     *)
(* history variable: whether every command so far ran alone.  Commands     *)
(* share state.json and its temporary file without a lock, so what is said *)
(* of that file is said of commands that run one at a time.                *)
(***************************************************************************)
EXTENDS Lifecycle

VARIABLE alone

MCActions == <<"collection-1", "settlement">>

MCInit == Init /\ alone = TRUE

MCNext == Next /\ alone' = (alone /\ Cardinality(Running') <= 1)

MCSpec == MCInit /\ [][MCNext]_<<vars, alone>>

-----------------------------------------------------------------------------

\* lifecycle.py, write(): one command at a time, killed anywhere, leaves a
\* state.json that the next command can read.
StateFileStaysWhole == alone => StateFileWhole

\* IMPLEMENTATION_PLAN.md, "Do not label pending or merely proven actions as
\* confirmed": commands run and killed one at a time never do.
StatusStaysEarned == alone => StatusEarned

\* README.md, "refuse to overwrite existing proof or result artifacts": with
\* one submit at a time the recorded result is the result there is.
ResultStaysRecorded == alone => ResultStands

\* lifecycle.py, main: whatever is killed or repeated, the status of a work
\* directory only moves forward while commands run one at a time.
StatusAdvances == [][alone' => StatusNotBack]_<<vars, alone>>

=============================================================================
