------------------------------ MODULE ImageRead ------------------------------
(***************************************************************************)
(* What the reader-backed bridge promises to TSK, with no cache in sight:  *)
(* a read callback is answered by an error, or by the image bytes from the *)
(* requested offset on, cut short only at a position the device has        *)
(* withheld.  ReadCache implements it.                                     *)
(***************************************************************************)
EXTENDS Integers, Sequences

CONSTANTS ImageSize, MaxOffset, MaxLength

VARIABLES closed, damaged, reading, offset, length, out, status

vars == <<closed, damaged, reading, offset, length, out, status>>

Bytes(p, n) == [i \in 1 .. n |-> p + i - 1]

Clamped(off, len) ==
  CASE off >= ImageSize       -> 0
    [] off + len <= ImageSize -> len
    [] OTHER                  -> ImageSize - off

Init ==
  /\ closed = FALSE /\ damaged = {} /\ reading = FALSE
  /\ offset = 0 /\ length = 0 /\ out = <<>> /\ status = "none"

(* A callback arrives; one that asks for nothing is answered at once. *)
Ask(off, len) ==
  /\ ~reading
  /\ offset' = off /\ length' = Clamped(off, len) /\ out' = <<>>
  /\ IF closed \/ Clamped(off, len) = 0
       THEN status' = (IF closed THEN "error" ELSE "data") /\ UNCHANGED reading
       ELSE reading' = TRUE /\ UNCHANGED status
  /\ UNCHANGED <<closed, damaged>>

(* While a callback runs the device may withhold positions. *)
Withhold ==
  /\ reading
  /\ \E more \in SUBSET (0 .. ImageSize - 1) : damaged' = damaged \union more
  /\ UNCHANGED <<closed, reading, offset, length, out, status>>

Answer ==
  /\ reading
  /\ reading' = FALSE
  /\ \E more \in SUBSET (0 .. ImageSize - 1) : damaged' = damaged \union more
  /\ \/ status' = "error" /\ out' = <<>>
     \/ /\ status' = "data"
        /\ \E n \in 0 .. length :
             /\ n = length \/ offset + n \in damaged'
             /\ out' = Bytes(offset, n)
  /\ UNCHANGED <<closed, offset, length>>

Close ==
  /\ ~reading /\ ~closed
  /\ closed' = TRUE
  /\ UNCHANGED <<damaged, reading, offset, length, out, status>>

Next ==
  \/ \E off \in 0 .. MaxOffset, len \in 0 .. MaxLength : Ask(off, len)
  \/ Withhold
  \/ Answer
  \/ Close

Safety == Init /\ [][Next]_vars

Spec == Safety /\ WF_vars(Answer)
=============================================================================
