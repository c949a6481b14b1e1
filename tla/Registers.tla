------------------------------ MODULE Registers ------------------------------
(***************************************************************************)
(* What the host library relies on in pal_os_datastore: registers that do  *)
(* not disturb each other, each with a value that a read gives back as it  *)
(* was last written.  answer is the last call and its result.              *)
(***************************************************************************)
EXTENDS Sequences, Naturals

CONSTANTS Ids,        \* the registers
          Asked,      \* the identifiers clients call with
          Values,     \* the values that clients write
          Limit,      \* per register, the length it can hold
          Initial     \* the values in the image of the program

VARIABLES content, answer

Init == content = Initial /\ answer = [op |-> "none"]

Fits(id, v) == id \in Ids /\ Len(v) =< Limit[id]

Write(id, v) ==
  /\ content' = IF Fits(id, v) THEN [content EXCEPT ![id] = v] ELSE content
  /\ answer' = [op |-> "write", id |-> id, value |-> v,
                status |-> IF Fits(id, v) THEN "SUCCESS" ELSE "FAILURE"]

Read(id) ==
  /\ answer' = IF id \in Ids
               THEN [op |-> "read", id |-> id, value |-> content[id],
                     status |-> "SUCCESS"]
               ELSE [op |-> "read", id |-> id, value |-> << >>,
                     status |-> "FAILURE"]
  /\ UNCHANGED content

Next == \E id \in Asked : Read(id) \/ \E v \in Values : Write(id, v)

Spec == Init /\ [][Next]_<<content, answer>>
=============================================================================
