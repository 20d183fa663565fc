--------------------------- MODULE MCRunDirectory ----------------------------
(***************************************************************************)
(* Instances for TLC of what is kept in a run directory: one record of it, *)
(* from the flushes of its files, and the times that the records of one    *)
(* job hold, from the clocks of the executions that write them.  Here a    *)
(* record is written at once, there time does not matter; they share no    *)
(* variable.  A behaviour is one of one part, chosen at the start, while   *)
(* the other stays as it begins.                                           *)
(***************************************************************************)
EXTENDS ArtifactStore, AttemptTimes, TLC

VARIABLE part

directoryVars == <<part, storeVars, timesVars>>

\* Writers, packets and executions differ by name only.
Symmetry == Permutations(Writers) \cup Permutations(Packets) \cup Permutations(Collectors)

\* The wire of a call: an answer without a byte, one that is streamed, and one
\* whose headers are said to come after its first byte.
Wire(headers, firstByte, meaningful, completed) ==
    [headers |-> headers, firstByte |-> firstByte, meaningful |-> meaningful,
     wireCompleted |-> completed]

MCWireShapes == {Wire(Null, Null, Null, 0), Wire(0, 0, 1, 1), Wire(1, 0, 1, 1)}

-----------------------------------------------------------------------------
DirectoryInit ==
    /\ part \in {"store", "times"} /\ StoreInit /\ TimesInit
    /\ part # "store" => supported
    /\ part # "times" => together

StoreStep == part = "store" /\ StoreNext /\ UNCHANGED timesVars
TimesStep == part = "times" /\ TimesNext /\ UNCHANGED storeVars

DirectoryNext == UNCHANGED part /\ (StoreStep \/ TimesStep)

DirectorySpec == DirectoryInit /\ [][DirectoryNext]_directoryVars

=============================================================================
