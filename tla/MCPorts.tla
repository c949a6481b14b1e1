------------------------------ MODULE MCPorts ------------------------------
(***************************************************************************)
(* The components that work alone, in one run: subject is the one that is  *)
(* exercised, and the others stay as they are, so that the state space is  *)
(* the sum of theirs.                                                      *)
(***************************************************************************)
EXTENDS PalOsDatastore, PrintArray16, PalOsTimer, I2cInit, Formats

VARIABLE subject

\* A byte of two values, so that lengths need both bytes of their field.
MCValues == {<< >>, <<1>>, <<0, 1>>, <<1, 0>>, <<1, 1, 0>>}

MCLimit == [id \in StoreIds |->
              CASE id = Secret                          -> 2
                [] id = "OPTIGA_COMMS_MANAGE_CONTEXT_ID" -> 3
                [] id = "OPTIGA_HIBERNATE_CONTEXT_ID"    -> 1]

MCInitial == [id \in StoreIds |-> IF id = Secret THEN <<0, 1>> ELSE << >>]

\* Two full rows and every remainder.
MCArrayLengths == 0..50

\* Majors up to 7, for the integers of the checker have 32 bits.
MCVersions == [major : {0, 1, 7}, minor : {0, 9, 10, 15},
               patch : {0, 2, 10, 99}, build : {0, 7, 60, 999, 1000, 9999}]

MCKeyLengths == 0..125

PortsInit ==
  /\ StoreInit /\ ArrayInit /\ TimerInit /\ InitInit /\ FormatInit
  /\ subject \in {"datastore", "array", "timer", "init", "formats"}

PortsNext ==
  /\ UNCHANGED subject
  /\ \/ /\ subject = "datastore" /\ StoreNext
        /\ UNCHANGED <<arrayVars, timerVars, initVars, formatVars>>
     \/ /\ subject = "array" /\ ArrayNext
        /\ UNCHANGED <<storeVars, timerVars, initVars, formatVars>>
     \/ /\ subject = "timer" /\ TimerNext
        /\ UNCHANGED <<storeVars, arrayVars, initVars, formatVars>>
     \/ /\ subject = "init" /\ InitNext
        /\ UNCHANGED <<storeVars, arrayVars, timerVars, formatVars>>
     \/ /\ subject = "formats" /\ FormatNext
        /\ UNCHANGED <<storeVars, arrayVars, timerVars, initVars>>

PortsSpec ==
  PortsInit /\ [][PortsNext]_<<storeVars, arrayVars, timerVars, initVars,
                               formatVars, subject>>
=============================================================================
