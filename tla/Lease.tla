-------------------------------- MODULE Lease ---------------------------------
(***************************************************************************)
(* What Init of pkg/dcgm promises its callers: one engine for all, started *)
(* for the first of those who hold it, usable for as long as anybody does, *)
(* and gone with the last, the process, the library and the agent that     *)
(* came with it included, unless stopping it has failed: then something    *)
(* may be left behind for nobody.  Nothing is promised after a start that  *)
(* failed or a cleanup too many or too few.                                *)
(***************************************************************************)
CONSTANT User   \* those who may hold the engine

VARIABLES
  holders,    \* those who hold it
  usable,     \* it answers those who hold it
  left,       \* something of an engine is there, usable or not
  botched,    \* a stop has failed
  alive,      \* the process is running
  reliable    \* the promise still holds

vars == <<holders, usable, left, botched, alive, reliable>>

Free ==
  /\ holders = {}
  /\ left = FALSE /\ usable = FALSE
  /\ botched = FALSE
  /\ alive = TRUE /\ reliable = TRUE

Acquire(u) ==
  /\ u \notin holders
  /\ holders' = holders \cup {u}
  /\ usable'
  /\ botched' = botched

Release(u) ==
  /\ u \in holders
  /\ holders' = holders \ {u}
  /\ IF holders' = {} THEN left' => botched' ELSE UNCHANGED <<usable, left, botched>>

\* A step that keeps the promise, and any other ends it for good.
Next ==
  \/ /\ reliable /\ reliable' /\ alive' = alive
     /\ botched => botched'
     /\ \E u \in User : Acquire(u) \/ Release(u)
  \/ ~reliable'

Spec == Free /\ [][Next]_vars

=============================================================================
