---------------------------- MODULE AuthSession ----------------------------
(***************************************************************************)
(* What Cy_Optiga_Main (optiga_app.c:318-488) promises its reader: the     *)
(* four operations of the example are performed on the chip in the order   *)
(* of the program, each at most once, and the status the example logs says *)
(* exactly whether all of them were.  How the operations are started,      *)
(* awaited and checked is left to OptigaApp, which implements this.        *)
(***************************************************************************)

VARIABLES performed,  \* the operations the chip has completed successfully
          verdict     \* what the session reported: "none" until it ends

vars == <<performed, verdict>>

Steps == {"write_metadata", "ecc_generate_keypair",
          "ecdsa_sign", "ecdsa_verify"}

\* The operations that precede each operation in the text of Cy_Optiga_Main.
Before == [s \in Steps |->
             CASE s = "write_metadata"       -> {}
               [] s = "ecc_generate_keypair" -> {"write_metadata"}
               [] s = "ecdsa_sign"           -> {"write_metadata",
                                                 "ecc_generate_keypair"}
               [] s = "ecdsa_verify"         -> {"write_metadata",
                                                 "ecc_generate_keypair",
                                                 "ecdsa_sign"}]

Init == performed = {} /\ verdict = "none"

\* One operation succeeds; only the one whose turn it is can.
Perform(s) ==
  /\ verdict = "none"
  /\ performed = Before[s]
  /\ performed' = performed \cup {s}
  /\ UNCHANGED verdict

\* The session ends, and reports success exactly if everything was performed.
Conclude ==
  /\ verdict = "none"
  /\ verdict' = IF performed = Steps THEN "authentic" ELSE "failed"
  /\ UNCHANGED performed

Next == Conclude \/ \E s \in Steps : Perform(s)

Safety == Init /\ [][Next]_vars

\* A session always ends: every operation of the chip answers.
Spec == Safety /\ WF_vars(Conclude)
=============================================================================
