------------------------------ MODULE Gathering ------------------------------
(***************************************************************************)
(* What the extraction promises whoever reads its evidence: once the run   *)
(* is over its results are read in order, each of them as a whole; a       *)
(* result adds the facts it shows to what is known and takes nothing away, *)
(* and there is a warning about it exactly if some of it cannot be used.   *)
(* Evidence implements this specification record by record.                *)
(***************************************************************************)
EXTENDS Integers, Sequences

VARIABLES
  held,      \* of each result of the run: the facts it shows, whether it is flawed
  complete,  \* the run is over
  read,      \* the number of results read
  known,     \* the facts known, each with the number of each result that shows it
  doubtful   \* the results that there are warnings about

gatheringVars == <<held, complete, read, known, doubtful>>

Init == held = <<>> /\ complete = FALSE /\ read = 0 /\ known = {} /\ doubtful = {}

ResultArrives ==
  /\ ~complete
  /\ Len(held') = Len(held) + 1
  /\ \A n \in DOMAIN held : held'[n] = held[n]
  /\ UNCHANGED <<complete, read, known, doubtful>>

RunIsOver ==
  /\ ~complete
  /\ complete' = TRUE
  /\ UNCHANGED <<held, read, known, doubtful>>

ReadResult ==
  /\ complete /\ read < Len(held)
  /\ read' = read + 1
  /\ known' = known \cup {<<fact, read'>> : fact \in held[read'].facts}
  /\ doubtful' = doubtful \cup {n \in {read'} : held[n].flawed}
  /\ UNCHANGED <<held, complete>>

Next == ResultArrives \/ RunIsOver \/ ReadResult
Spec == Init /\ [][Next]_gatheringVars
=============================================================================
