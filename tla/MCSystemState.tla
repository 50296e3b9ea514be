--------------------------- MODULE MCSystemState ---------------------------
(***************************************************************************)
(* Instances of SystemState for TLC.                                       *)
(***************************************************************************)
EXTENDS SystemState

CONSTANTS Cl, Prompt, Stop

\* Tables in which every transition waits, several steps of one table wait
\* for the same id, and different tables share ids.
StressTable ==
    [init     |-> <<Cl>>,
     startup  |-> <<NoMsg, Cl>>,
     power_on |-> <<Prompt, Stop, Prompt>>,
     power_off |-> <<Stop, NoMsg, Stop>>,
     sleep    |-> <<Stop>>,
     shutdown |-> <<Prompt, NoMsg>>,
     emergency_shutdown |-> <<Cl>>]
=============================================================================
