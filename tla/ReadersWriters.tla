--------------------------- MODULE ReadersWriters ---------------------------
(***************************************************************************)
(* What synchronized_rw.hh promises of a lock: "Any number of readers may  *)
(* be active at once, but no readers and no other writers are permitted    *)
(* when one writer is active".                                             *)
(*                                                                         *)
(* The threads enter one at a time: while one is entering, and while a     *)
(* writer is active, no other is let in.  A writer that is entering waits  *)
(* for the readers to leave and no new reader passes it.                   *)
(***************************************************************************)
CONSTANTS Threads, NoThread

VARIABLES
  entering,  (* the thread being let in, or NoThread *)
  readers,   (* the active readers *)
  writer     (* the active writer, or NoThread *)

rwVars == <<entering, readers, writer>>

RWInit ==
  /\ entering = NoThread
  /\ readers = {}
  /\ writer = NoThread

Enter(t) ==
  /\ entering = NoThread /\ writer = NoThread
  /\ entering' = t
  /\ UNCHANGED <<readers, writer>>

StartRead(t) ==
  /\ entering = t
  /\ entering' = NoThread
  /\ readers' = readers \cup {t}
  /\ UNCHANGED writer

EndRead(t) ==
  /\ t \in readers
  /\ readers' = readers \ {t}
  /\ UNCHANGED <<entering, writer>>

StartWrite(t) ==
  /\ entering = t /\ readers = {}
  /\ entering' = NoThread
  /\ writer' = t
  /\ UNCHANGED readers

EndWrite(t) ==
  /\ writer = t
  /\ writer' = NoThread
  /\ UNCHANGED <<entering, readers>>

RWNext ==
  \E t \in Threads :
    Enter(t) \/ StartRead(t) \/ EndRead(t) \/ StartWrite(t) \/ EndWrite(t)

RWSpec == RWInit /\ [][RWNext]_rwVars
=============================================================================
