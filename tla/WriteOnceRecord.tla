--------------------------- MODULE WriteOnceRecord ---------------------------
(***************************************************************************)
(* What a durable record promises the processes that race to write it: the *)
(* first value published is the value, and every process that gets an      *)
(* answer gets that value.  A loss of power may undo a publication, and    *)
(* then ends every process that heard of it.                               *)
(***************************************************************************)
CONSTANTS Writers, Packets, None

VARIABLES
    value,    \* the record, or None
    answered  \* answered[w]: the value w was told the record has, or None

recordVars == <<value, answered>>

RecordInit ==
    /\ value = None
    /\ answered = [w \in Writers |-> None]

Publish ==
    /\ value = None
    /\ value' \in Packets
    /\ UNCHANGED answered

Answer(w) ==
    /\ value # None
    /\ answered[w] = None
    /\ answered' = [answered EXCEPT ![w] = value]
    /\ UNCHANGED value

Lose ==
    /\ value' \in {value, None}
    /\ answered' = [w \in Writers |-> None]

RecordNext == Publish \/ Lose \/ \E w \in Writers : Answer(w)

RecordSpec == RecordInit /\ [][RecordNext]_recordVars

=============================================================================
