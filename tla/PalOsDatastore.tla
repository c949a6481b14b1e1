--------------------------- MODULE PalOsDatastore ---------------------------
(***************************************************************************)
(* The data store port, pal_os_datastore.c: three buffers in RAM, each a   *)
(* length of two bytes followed by room for the value.  The library is the *)
(* only client; of the length of the two contexts, which the port does not *)
(* test, it is assumed that they fit.                                      *)
(***************************************************************************)
EXTENDS Sequences, Naturals

CONSTANTS Byte,       \* the values of a byte: 256 in the code
          Values,     \* what clients write: sequences of bytes
          Limit,      \* the room in each buffer, its length field not counted
          Initial     \* the secret in the image; the contexts are empty

Secret   == "OPTIGA_PLATFORM_BINDING_SHARED_SECRET_ID"
Contexts == {"OPTIGA_COMMS_MANAGE_CONTEXT_ID", "OPTIGA_HIBERNATE_CONTEXT_ID"}
StoreIds == {Secret} \cup Contexts
Unknown  == "another_id"

ASSUME StoreAssumption ==
  /\ Byte \in Nat \ {0}
  /\ Limit \in [StoreIds -> Nat]
  /\ \A id \in StoreIds : Limit[id] < Byte * Byte
  /\ Values \subseteq Seq(Nat)
  /\ Initial \in [StoreIds -> Seq(Nat)]
  /\ \A id \in StoreIds : Len(Initial[id]) =< Limit[id]

VARIABLES buffer,   \* the three arrays
          reply     \* the last call and what it returned

storeVars == <<buffer, reply>>

\* The length of the contexts was written by no one yet: static storage.
StoreInit ==
  /\ buffer = [id \in StoreIds |->
                 [hi |-> Len(Initial[id]) \div Byte, lo |-> Len(Initial[id]) % Byte,
                  data |-> [k \in 1..Limit[id] |->
                              IF k =< Len(Initial[id]) THEN Initial[id][k] ELSE 0]]]
  /\ reply = [op |-> "none"]

\* memcpy over the front of the array; what was behind stays.
MemCpy(array, v) == v \o SubSeq(array, Len(v) + 1, Len(array))

\* The high byte of the length is not stored.
Mutant_LowByteOnly(id, v) ==
  buffer' = [buffer EXCEPT ![id] = [hi |-> @.hi, lo |-> Len(v) % Byte,
                                    data |-> MemCpy(@.data, v)]]

\* The length, high byte first, each cast to uint8_t, then the bytes.
Store(id, v) ==
  buffer' = [buffer EXCEPT ![id] = [hi |-> (Len(v) \div Byte) % Byte,
                                    lo |-> Len(v) % Byte,
                                    data |-> MemCpy(@.data, v)]]

Written(id, v, status) ==
  reply' = [op |-> "write", id |-> id, value |-> v, status |-> status]

\* The shared secret is tested: one that does not fit changes nothing.
WriteSecret(v) ==
  \/ /\ Len(v) =< Limit[Secret]
     /\ Store(Secret, v) /\ Written(Secret, v, "SUCCESS")
  \/ /\ Len(v) > Limit[Secret]
     /\ UNCHANGED buffer /\ Written(Secret, v, "FAILURE")

\* The contexts are not; the library writes none that does not fit.
WriteContext(id, v) ==
  /\ Len(v) =< Limit[id]
  /\ Store(id, v) /\ Written(id, v, "SUCCESS")

WriteUnknown(v) == UNCHANGED buffer /\ Written(Unknown, v, "FAILURE")

DataLength(id) == buffer[id].hi * Byte + buffer[id].lo

Returned(id) ==
  reply' = [op |-> "read", id |-> id, status |-> "SUCCESS",
            value |-> SubSeq(buffer[id].data, 1, DataLength(id))]

NotReturned(id) ==
  reply' = [op |-> "read", id |-> id, status |-> "FAILURE", value |-> << >>]

\* The length of the secret is tested again, that of a context is not.
ReadSecret ==
  /\ IF DataLength(Secret) =< Limit[Secret]
     THEN Returned(Secret) ELSE NotReturned(Secret)
  /\ UNCHANGED buffer

ReadContext(id) == Returned(id) /\ UNCHANGED buffer

ReadUnknown == NotReturned(Unknown) /\ UNCHANGED buffer

StoreNext ==
  \/ \E v \in Values : \/ WriteSecret(v)
                       \/ \E id \in Contexts : WriteContext(id, v)
                       \/ WriteUnknown(v)
  \/ ReadSecret \/ (\E id \in Contexts : ReadContext(id)) \/ ReadUnknown

StoreSpec == StoreInit /\ [][StoreNext]_storeVars

----------------------------------------------------------------------------
(* Correctness. *)

\* The port implements independent registers: a read returns what was last
\* written, its length put together from its two bytes and no longer, whatever
\* longer value was there before; a secret that is refused leaves the old one.
R == INSTANCE Registers
       WITH Ids <- StoreIds, Asked <- StoreIds \cup {Unknown},
            answer <- reply,
            content <- [id \in StoreIds |->
                          SubSeq(buffer[id].data, 1, DataLength(id))]

RegistersSpec == R!Spec
=============================================================================
