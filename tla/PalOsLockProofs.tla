--------------------------- MODULE PalOsLockProofs ---------------------------
(***************************************************************************)
(* Proofs about PalOsLock for any contexts and priorities, if the lock is  *)
(* not held across a wait.  Whoever holds it then is ready, so a context   *)
(* that is between its test and its increment runs again only when nobody  *)
(* holds it: Preempting is that argument as an invariant.                  *)
(***************************************************************************)
EXTENDS PalOsLock, TLAPS

Acquiring == {"inc_load", "inc_store"}

\* What a context has done at each of its points; the decrement of the
\* branch for contention is never reached.
CallOK(c) ==
  /\ pc[c] \notin {"dec_load", "dec_store"}
  /\ pc[c] \in {"test", "inc_load", "inc_store", "confirm", "won"} => c \notin holders
  /\ pc[c] \in {"rel_test", "rel_load", "rel_store"} => c \in holders
  /\ pc[c] = "inc_store" => reg[c] = 0
  /\ pc[c] = "rel_store" => reg[c] = 1

\* At most one context has the lock in hand, and the byte says whether.
InOneHand ==
  /\ \A c, d \in InHand : c = d
  /\ lock = IF InHand = {} THEN 0 ELSE 1

\* Whoever took the lock after a context had found it free preempts it.
Preempting ==
  \A c \in Contexts, h \in InHand :
    pc[c] \in Acquiring => Priority[h] > Priority[c]

IInv == /\ TypeOK
        /\ \A c \in Contexts : CallOK(c)
        /\ InOneHand
        /\ Preempting

----------------------------------------------------------------------------
(* The types need no assumption. *)

LEMMA LoadIs ==
  ASSUME NEW c \in Contexts, Load(c)
  PROVE  /\ \/ Step(c, "inc_load", "inc_store")
            \/ Step(c, "dec_load", "dec_store")
            \/ Step(c, "rel_load", "rel_store")
         /\ reg' = [reg EXCEPT ![c] = lock]
         /\ UNCHANGED <<lock, answer, holders>>
<1>1. DOMAIN StoreAfter = {"inc_load", "dec_load", "rel_load"}
  BY DEF StoreAfter
<1>2. /\ StoreAfter["inc_load"] = "inc_store" /\ StoreAfter["dec_load"] = "dec_store"
      /\ StoreAfter["rel_load"] = "rel_store"
  BY DEF StoreAfter
<1>3. Step(c, pc[c], StoreAfter[pc[c]]) /\ pc[c] \in DOMAIN StoreAfter
  BY DEF Load
<1>4. QED
  BY <1>1, <1>2, <1>3 DEF Load, Step

LEMMA StoreIs ==
  ASSUME NEW c \in Contexts, Store(c)
  PROVE  /\ \/ /\ Step(c, "inc_store", "confirm")
               /\ lock' = (reg[c] + 1) % Width /\ holders' = holders
            \/ /\ Step(c, "dec_store", "won")
               /\ lock' = (reg[c] + (Width - 1)) % Width /\ holders' = holders
            \/ /\ Step(c, "rel_store", "out")
               /\ lock' = (reg[c] + (Width - 1)) % Width /\ holders' = holders \ {c}
         /\ UNCHANGED <<reg, answer>>
BY DEF Store, Step

LEMMA Stepped ==
  ASSUME TypeOK, NEW c \in Contexts, NEW p, NEW q \in Points, Step(c, p, q)
  PROVE  /\ pc' \in [Contexts -> Points] /\ pc[c] = p /\ pc'[c] = q
         /\ \A d \in Contexts : d # c => pc'[d] = pc[d]
         /\ Runs(c)
BY DEF TypeOK, Step

\* The variables have their types, however the lock is used.
THEOREM TypeCorrect == Spec => []TypeOK
<1>1. Init => TypeOK
  BY DEF Init, TypeOK, Points, Width
<1>2. TypeOK /\ [Next]_vars => TypeOK'
  <2>1. ASSUME TypeOK, NEW c \in Contexts,
               \/ EnterAcquire(c) \/ Test(c) \/ Confirm(c) \/ Won(c)
               \/ EnterRelease(c) \/ RelTest(c)
        PROVE  TypeOK'
    BY <2>1 DEF TypeOK, Points, Step, EnterAcquire, Test, Confirm, Won,
                EnterRelease, RelTest
  <2>2. ASSUME TypeOK, NEW c \in Contexts, Load(c) PROVE TypeOK'
    BY <2>2, LoadIs DEF TypeOK, Points, Step
  <2>3. ASSUME TypeOK, NEW c \in Contexts, Store(c) PROVE TypeOK'
    <3>1. lock' \in 0..(Width - 1) /\ holders' \subseteq Contexts
      BY <2>3, StoreIs DEF TypeOK, Width
    <3>2. pc' \in [Contexts -> Points]
      BY <2>3, StoreIs DEF TypeOK, Points, Step
    <3>3. QED
      BY <2>3, <3>1, <3>2, StoreIs DEF TypeOK
  <2>4. CASE TypeOK /\ UNCHANGED vars
    BY <2>4 DEF TypeOK, vars
  <2>5. QED
    BY <2>1, <2>2, <2>3, <2>4 DEF Next
<1>3. QED
  BY <1>1, <1>2, PTL DEF Spec

----------------------------------------------------------------------------
(* The invariant. *)

LEMMA InitIInv == Init => IInv
BY DEF Init, IInv, TypeOK, CallOK, InOneHand, Preempting, InHand, Acquiring,
       Points, Width

\* A context that goes on after it found the lock free finds it free.
LEMMA StillFree ==
  ASSUME IInv, ~HoldAcross, NEW c \in Contexts, Runs(c), pc[c] \in Acquiring
  PROVE  InHand = {} /\ lock = 0
<1>1. ASSUME NEW h \in InHand PROVE FALSE
  <2>1. h \in Contexts /\ Ready(h)
    BY <1>1 DEF InHand, Ready, IInv, TypeOK
  <2>2. Priority[h] <= Priority[c] /\ Priority[h] > Priority[c]
    BY <1>1, <2>1 DEF Runs, IInv, Preempting
  <2>3. Priority[h] \in Nat /\ Priority[c] \in Nat
    BY <2>1, ContextAssumption
  <2>4. QED
    BY <2>2, <2>3
<1>2. QED
  BY <1>1 DEF IInv, InOneHand

\* A step that leaves the byte, and who has the lock in hand, as they are.
LEMMA KeepsIInv ==
  ASSUME IInv, TypeOK', NEW c \in Contexts, NEW p, NEW q \in Points, Step(c, p, q),
         UNCHANGED lock, InHand' = InHand, CallOK(c)',
         \A d \in Contexts : d # c => reg'[d] = reg[d] /\ (d \in holders' <=> d \in holders),
         q \in Acquiring => p \in Acquiring \/ InHand = {}
  PROVE  IInv'
<1>1. /\ pc[c] = p /\ pc'[c] = q
      /\ \A d \in Contexts : d # c => pc'[d] = pc[d]
  BY Stepped DEF IInv
<1>2. \A d \in Contexts : CallOK(d)'
  BY <1>1 DEF IInv, CallOK
<1>3. InOneHand'
  BY DEF IInv, InOneHand
<1>4. Preempting'
  BY <1>1 DEF IInv, Preempting
<1>5. QED
  BY <1>2, <1>3, <1>4 DEF IInv

LEMMA OthersIInv ==
  ASSUME IInv, ~HoldAcross, TypeOK', NEW c \in Contexts,
         \/ EnterAcquire(c) \/ Test(c) \/ Load(c) \/ Confirm(c) \/ Won(c)
         \/ EnterRelease(c) \/ RelTest(c)
  PROVE  IInv'
<1>0. TypeOK /\ CallOK(c) /\ InOneHand /\ holders \subseteq Contexts
  BY DEF IInv, TypeOK
<1>a. ASSUME NEW p, NEW q \in Points, Step(c, p, q), UNCHANGED holders,
             p \in {"confirm", "won"} <=> q \in {"confirm", "won"}
      PROVE  InHand' = InHand
  BY <1>0, <1>a, Stepped DEF InHand
<1>1. CASE EnterAcquire(c)
  <2>1. Step(c, "out", "test") /\ "test" \in Points /\ c \notin holders
        /\ UNCHANGED <<lock, reg, holders>>
    BY <1>1 DEF EnterAcquire, Points
  <2>2. InHand' = InHand
    BY <1>a, <2>1
  <2>3. CallOK(c)'
    BY <1>0, <2>1, Stepped DEF CallOK
  <2>4. QED
    BY <2>1, <2>2, <2>3, KeepsIInv DEF Acquiring
<1>2. CASE Test(c)
  <2>1. CASE lock = 0
    <3>1. Step(c, "test", "inc_load") /\ "inc_load" \in Points
          /\ UNCHANGED <<lock, reg, holders>>
      BY <1>2, <2>1 DEF Test, Points
    <3>2. InHand' = InHand /\ InHand = {}
      BY <1>0, <1>a, <2>1, <3>1 DEF InOneHand
    <3>3. CallOK(c)'
      BY <1>0, <3>1, Stepped DEF CallOK
    <3>4. QED
      BY <3>1, <3>2, <3>3, KeepsIInv
  <2>2. CASE lock # 0
    <3>1. Step(c, "test", "out") /\ "out" \in Points
          /\ UNCHANGED <<lock, reg, holders>>
      BY <1>2, <2>2 DEF Test, Points
    <3>2. InHand' = InHand
      BY <1>a, <3>1
    <3>3. CallOK(c)'
      BY <1>0, <3>1, Stepped DEF CallOK
    <3>4. QED
      BY <3>1, <3>2, <3>3, KeepsIInv DEF Acquiring
  <2>3. QED
    BY <2>1, <2>2
<1>3. CASE Load(c)
  <2>1. /\ reg' = [reg EXCEPT ![c] = lock] /\ UNCHANGED <<lock, holders>>
        /\ reg \in [Contexts -> 0..(Width - 1)]
    BY <1>0, <1>3, LoadIs DEF TypeOK
  <2>2. CASE Step(c, "inc_load", "inc_store")
    <3>1. "inc_store" \in Points /\ InHand' = InHand
      BY <1>a, <2>1, <2>2 DEF Points
    <3>2. pc[c] = "inc_load" /\ pc'[c] = "inc_store" /\ Runs(c)
      BY <1>0, <2>2, <3>1, Stepped
    <3>3. lock = 0
      BY <3>2, StillFree DEF Acquiring
    <3>4. CallOK(c)'
      BY <1>0, <2>1, <3>2, <3>3 DEF CallOK
    <3>5. QED
      BY <2>1, <2>2, <3>1, <3>4, KeepsIInv DEF Acquiring
  <2>3. CASE Step(c, "rel_load", "rel_store")
    <3>1. "rel_store" \in Points /\ InHand' = InHand
      BY <1>a, <2>1, <2>3 DEF Points
    <3>2. pc[c] = "rel_load" /\ pc'[c] = "rel_store"
      BY <1>0, <2>3, <3>1, Stepped
    <3>3. c \in InHand /\ lock = 1
      BY <1>0, <3>2 DEF CallOK, InHand, InOneHand
    <3>4. CallOK(c)'
      BY <1>0, <2>1, <3>2, <3>3 DEF CallOK
    <3>5. QED
      BY <2>1, <2>3, <3>1, <3>4, KeepsIInv DEF Acquiring
  <2>4. ~Step(c, "dec_load", "dec_store")
    BY <1>0 DEF Step, CallOK
  <2>5. QED
    BY <1>3, <2>2, <2>3, <2>4, LoadIs
<1>4. CASE Confirm(c)
  <2>1. pc[c] = "confirm"
    BY <1>4 DEF Confirm, Step
  <2>2. lock = 1
    BY <1>0, <2>1 DEF InOneHand, InHand
  <2>3. Step(c, "confirm", "won") /\ "won" \in Points /\ UNCHANGED <<lock, reg, holders>>
    BY <1>4, <2>2 DEF Confirm, Points
  <2>4. InHand' = InHand
    BY <1>a, <2>3
  <2>5. CallOK(c)'
    BY <1>0, <2>3, Stepped DEF CallOK
  <2>6. QED
    BY <2>3, <2>4, <2>5, KeepsIInv DEF Acquiring
<1>5. CASE Won(c)
  <2>1. Step(c, "won", "out") /\ "out" \in Points /\ UNCHANGED <<lock, reg>>
        /\ holders' = holders \cup {c}
    BY <1>5 DEF Won, Points
  <2>2. InHand' = InHand
    BY <1>0, <2>1, Stepped DEF InHand
  <2>3. CallOK(c)'
    BY <1>0, <2>1, Stepped DEF CallOK
  <2>4. QED
    BY <2>1, <2>2, <2>3, KeepsIInv DEF Acquiring
<1>6. CASE EnterRelease(c)
  <2>1. Step(c, "out", "rel_test") /\ "rel_test" \in Points /\ c \in holders
        /\ UNCHANGED <<lock, reg, holders>>
    BY <1>6 DEF EnterRelease, Points
  <2>2. InHand' = InHand
    BY <1>a, <2>1
  <2>3. CallOK(c)'
    BY <1>0, <2>1, Stepped DEF CallOK
  <2>4. QED
    BY <2>1, <2>2, <2>3, KeepsIInv DEF Acquiring
\* Who releases the lock has it, so that the byte is set.
<1>7. CASE RelTest(c)
  <2>1. pc[c] = "rel_test"
    BY <1>7 DEF RelTest, Step
  <2>2. lock = 1
    BY <1>0, <2>1 DEF InOneHand, InHand, CallOK
  <2>3. Step(c, "rel_test", "rel_load") /\ "rel_load" \in Points
        /\ UNCHANGED <<lock, reg, holders>>
    BY <1>7, <2>2 DEF RelTest, Points
  <2>4. InHand' = InHand
    BY <1>a, <2>3
  <2>5. CallOK(c)'
    BY <1>0, <2>1, <2>3, Stepped DEF CallOK
  <2>6. QED
    BY <2>3, <2>4, <2>5, KeepsIInv DEF Acquiring
<1>8. QED
  BY <1>1, <1>2, <1>3, <1>4, <1>5, <1>6, <1>7

\* A store takes the lock if nobody has it, or gives it back.
LEMMA StoreEffect ==
  ASSUME IInv, ~HoldAcross, NEW c \in Contexts, Store(c)
  PROVE  \/ /\ Step(c, "inc_store", "confirm")
            /\ lock' = 1 /\ UNCHANGED <<reg, answer, holders>>
            /\ InHand = {} /\ InHand' = {c}
         \/ /\ Step(c, "rel_store", "out")
            /\ lock' = 0 /\ UNCHANGED <<reg, answer>>
            /\ holders' = holders \ {c} /\ c \in holders
            /\ InHand = {c} /\ InHand' = {}
<1>0. TypeOK /\ CallOK(c) /\ InOneHand /\ holders \subseteq Contexts
  BY DEF IInv, TypeOK
<1>1. CASE Step(c, "inc_store", "confirm")
  <2>1. pc[c] = "inc_store" /\ Runs(c) /\ "confirm" \in Points
    BY <1>1 DEF Step, Points
  <2>2. InHand = {} /\ reg[c] = 0
    BY <1>0, <2>1, StillFree DEF Acquiring, CallOK
  <2>3. lock' = (reg[c] + 1) % Width /\ UNCHANGED <<reg, answer, holders>>
    BY <2>1, StoreIs DEF Step
  <2>4. lock' = 1
    BY <2>2, <2>3 DEF Width
  <2>5. InHand' = {c}
    BY <1>0, <1>1, <2>1, <2>2, <2>3, Stepped DEF InHand
  <2>6. QED
    BY <1>1, <2>2, <2>3, <2>4, <2>5
<1>2. CASE Step(c, "rel_store", "out")
  <2>1. pc[c] = "rel_store" /\ "out" \in Points
    BY <1>2 DEF Step, Points
  <2>2. c \in holders /\ reg[c] = 1
    BY <1>0, <2>1 DEF CallOK
  <2>3. /\ lock' = (reg[c] + (Width - 1)) % Width /\ holders' = holders \ {c}
        /\ UNCHANGED <<reg, answer>>
    BY <2>1, StoreIs DEF Step
  <2>4. lock' = 0
    BY <2>2, <2>3 DEF Width
  <2>5. InHand = {c}
    BY <1>0, <2>2 DEF InOneHand, InHand
  <2>6. InHand' = {}
    BY <1>0, <1>2, <2>1, <2>3, <2>5, Stepped DEF InHand
  <2>7. QED
    BY <1>2, <2>2, <2>3, <2>4, <2>5, <2>6
<1>3. ~Step(c, "dec_store", "won")
  BY <1>0 DEF Step, CallOK
<1>4. QED
  BY <1>1, <1>2, <1>3, StoreIs

LEMMA StoreIInv ==
  ASSUME IInv, ~HoldAcross, TypeOK', NEW c \in Contexts, Store(c)
  PROVE  IInv'
<1>0. TypeOK /\ CallOK(c) /\ "confirm" \in Points /\ "out" \in Points
  BY DEF IInv, Points
<1>1. \A d \in Contexts : CallOK(d)'
  <2>1. \A d \in Contexts : d # c => CallOK(d)'
    BY <1>0, StoreEffect, Stepped DEF IInv, CallOK
  <2>2. CallOK(c)'
    BY <1>0, StoreEffect, Stepped DEF CallOK
  <2>3. QED
    BY <2>1, <2>2
<1>2. InOneHand'
  BY StoreEffect DEF InOneHand
<1>3. Preempting'
  <2>1. ASSUME NEW d \in Contexts, NEW h \in InHand', pc'[d] \in Acquiring
        PROVE  Priority[h] > Priority[d]
    <3>1. Step(c, "inc_store", "confirm") /\ h = c
      BY <2>1, StoreEffect
    <3>2. d # c /\ pc[d] = pc'[d] /\ Runs(c)
      BY <1>0, <2>1, <3>1, Stepped DEF Acquiring
    <3>3. Ready(d)
      BY <2>1, <3>2 DEF Ready, Acquiring
    <3>4. Priority[d] <= Priority[c] /\ Priority[d] # Priority[c]
      BY <3>2, <3>3, ContextAssumption DEF Runs
    <3>5. Priority[d] \in Nat /\ Priority[c] \in Nat
      BY ContextAssumption
    <3>6. QED
      BY <3>1, <3>4, <3>5
  <2>2. QED
    BY <2>1 DEF Preempting
<1>4. QED
  BY <1>1, <1>2, <1>3 DEF IInv

LEMMA NextIInv ==
  ASSUME ~HoldAcross, IInv, TypeOK', [Next]_vars
  PROVE  IInv'
<1>1. ASSUME UNCHANGED vars PROVE IInv'
  BY <1>1 DEF vars, IInv, TypeOK, CallOK, InOneHand, Preempting, InHand
<1>2. QED
  BY <1>1, OthersIInv, StoreIInv DEF Next

LEMMA Invariance == ASSUME ~HoldAcross PROVE Spec => []IInv
<1>1. IInv /\ TypeOK' /\ [Next]_vars => IInv'
  BY NextIInv
<1>2. QED
  BY <1>1, InitIInv, TypeCorrect, PTL DEF Spec

----------------------------------------------------------------------------
(* The theorems. *)

\* If no context waits with the lock in its hands, no two have it.
THEOREM Exclusion == ASSUME ~HoldAcross PROVE Spec => []MutualExclusion
<1>1. IInv => MutualExclusion
  BY DEF IInv, InOneHand, InHand, TypeOK, MutualExclusion
<1>2. QED
  BY <1>1, Invariance, PTL

\* And the byte is set exactly while one has it.
THEOREM ByteTrue == ASSUME ~HoldAcross PROVE Spec => []ByteIsTrue
<1>1. IInv => ByteIsTrue
  BY DEF IInv, InOneHand, ByteIsTrue
<1>2. QED
  BY <1>1, Invariance, PTL

\* The lock is then an atomic try-lock for any contexts and priorities.
THEOREM Refinement == ASSUME ~HoldAcross PROVE Spec => MutexSpec
<1> DEFINE told == [c \in Contexts |-> IF pc[c] \in {"confirm", "won"}
                                       THEN "SUCCESS" ELSE answer[c]]
<1>1. Init => M!Init
  BY DEF Init, M!Init, InHand
<1>2. IInv /\ [Next]_vars => [M!Next]_(M!vars)
  <2>1. ASSUME IInv, NEW c \in Contexts, Store(c) PROVE M!Next
    <3>0. TypeOK /\ "confirm" \in Points /\ "out" \in Points
      BY <2>1 DEF IInv, Points
    <3>1. CASE Step(c, "inc_store", "confirm")
      <4>1. InHand = {} /\ InHand' = {c} /\ UNCHANGED answer
        BY <2>1, <3>1, StoreEffect DEF Step
      <4>2. told' = [told EXCEPT ![c] = "SUCCESS"]
        BY <3>0, <3>1, <4>1, Stepped
      <4>3. QED
        BY <4>1, <4>2 DEF M!Next, M!Acquire
    <3>2. CASE Step(c, "rel_store", "out")
      <4>1. InHand = {c} /\ InHand' = {} /\ UNCHANGED answer
        BY <2>1, <3>2, StoreEffect DEF Step
      <4>2. told' = told
        BY <3>0, <3>2, <4>1, Stepped
      <4>3. QED
        BY <4>1, <4>2 DEF M!Next, M!Release
    <3>3. QED
      BY <2>1, <3>1, <3>2, StoreEffect
\* A refusal takes effect with the test.
  <2>2. ASSUME IInv, NEW c \in Contexts, Test(c), lock # 0 PROVE M!Next
    <3>1. Step(c, "test", "out") /\ "out" \in Points /\ TypeOK /\ CallOK(c)
          /\ answer' = [answer EXCEPT ![c] = "FAILURE"] /\ UNCHANGED holders
      BY <2>2 DEF Test, IInv, Points
    <3>2. pc[c] = "test" /\ pc'[c] = "out" /\ \A d \in Contexts : d # c => pc'[d] = pc[d]
      BY <3>1, Stepped
    <3>3. c \notin InHand /\ InHand # {} /\ InHand' = InHand
      BY <2>2, <3>1, <3>2 DEF CallOK, InHand, IInv, InOneHand
    <3>4. told' = [told EXCEPT ![c] = "FAILURE"]
      BY <3>1, <3>2 DEF TypeOK
    <3>5. QED
      BY <3>3, <3>4 DEF M!Next, M!Acquire
\* The return of a SUCCESS that was told already.
  <2>3. ASSUME IInv, NEW c \in Contexts, Won(c) PROVE UNCHANGED M!vars
    <3>1. Step(c, "won", "out") /\ "out" \in Points /\ TypeOK
          /\ answer' = [answer EXCEPT ![c] = "SUCCESS"] /\ holders' = holders \cup {c}
      BY <2>3 DEF Won, IInv, Points
    <3>2. pc[c] = "won" /\ pc'[c] = "out" /\ \A d \in Contexts : d # c => pc'[d] = pc[d]
      BY <3>1, Stepped
    <3>3. InHand' = InHand
      BY <3>1, <3>2 DEF InHand
    <3>4. told' = told
      BY <3>1, <3>2 DEF TypeOK
    <3>5. QED
      BY <3>3, <3>4 DEF M!vars
  <2>4. ASSUME TypeOK, NEW c \in Contexts, NEW p, NEW q \in Points, Step(c, p, q),
               UNCHANGED <<answer, holders>>,
               p \in {"confirm", "won"} <=> q \in {"confirm", "won"}
        PROVE  UNCHANGED M!vars
    <3>1. /\ pc[c] = p /\ pc'[c] = q
          /\ \A d \in Contexts : d # c => pc'[d] = pc[d]
      BY <2>4, Stepped
    <3>2. \A d \in Contexts : pc'[d] \in {"confirm", "won"} <=> pc[d] \in {"confirm", "won"}
      BY <2>4, <3>1
    <3>3. InHand' = InHand /\ told' = told
      BY <2>4, <3>2 DEF InHand
    <3>4. QED
      BY <3>3 DEF M!vars
  <2>5. ASSUME IInv, NEW c \in Contexts,
               \/ EnterAcquire(c) \/ (Test(c) /\ lock = 0) \/ Confirm(c) \/ EnterRelease(c)
        PROVE  UNCHANGED M!vars
    <3>1. CASE EnterAcquire(c)
      BY <2>4, <2>5, <3>1 DEF EnterAcquire, IInv, Points
    <3>2. CASE Test(c) /\ lock = 0
      BY <2>4, <2>5, <3>2 DEF Test, IInv, Points
    <3>3. CASE Confirm(c)
      <4>1. pc[c] = "confirm" /\ lock = 1
        BY <2>5, <3>3 DEF Confirm, Step, IInv, InOneHand, InHand
      <4>2. QED
        BY <2>4, <2>5, <3>3, <4>1 DEF Confirm, IInv, Points
    <3>4. CASE EnterRelease(c)
      BY <2>4, <2>5, <3>4 DEF EnterRelease, IInv, Points
    <3>5. QED
      BY <2>5, <3>1, <3>2, <3>3, <3>4
  <2>6. ASSUME IInv, NEW c \in Contexts, RelTest(c) PROVE UNCHANGED M!vars
    <3>1. pc[c] = "rel_test" /\ CallOK(c) /\ TypeOK
      BY <2>6 DEF RelTest, Step, IInv
    <3>2. lock # 0
      BY <2>6, <3>1 DEF CallOK, IInv, InOneHand, InHand
    <3>3. QED
      BY <2>4, <2>6, <3>1, <3>2 DEF RelTest, Points
  <2>7. ASSUME IInv, NEW c \in Contexts, Load(c) PROVE UNCHANGED M!vars
    BY <2>4, <2>7, LoadIs DEF IInv, Points
  <2>8. ASSUME UNCHANGED vars PROVE UNCHANGED M!vars
    BY <2>8 DEF vars, M!vars, InHand
  <2>9. QED
    BY <2>1, <2>2, <2>3, <2>5, <2>6, <2>7, <2>8 DEF Next
<1>3. QED
  BY <1>1, <1>2, Invariance, PTL DEF Spec, MutexSpec, M!Spec
=============================================================================
