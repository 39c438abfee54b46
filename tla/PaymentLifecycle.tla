------------------------- MODULE PaymentLifecycle -------------------------
(***************************************************************************)
(* What the service promises about a payment, without jobs, workers,       *)
(* retries or messages (README.md, Ключевые инварианты): an operation is   *)
(* charged at the provider only after its submission was recorded and at   *)
(* most once, the service learns the id of that one charge and no other,   *)
(* and the final status comes from the charge's receipt and stays.         *)
(*                                                                         *)
(* PaymentService implements it when the provider is consistent.           *)
(***************************************************************************)
CONSTANTS Operations, PaymentIds, None

VARIABLES
  status,   \* business status of each operation
  charge,   \* the payment the provider made for it, or None
  knownId   \* the payment the service knows of, or None

lifecycle == <<status, charge, knownId>>

LifecycleInit ==
  /\ status = [o \in Operations |-> "ABSENT"]
  /\ charge = [o \in Operations |-> None]
  /\ knownId = [o \in Operations |-> None]

Register(o) ==
  /\ status[o] = "ABSENT"
  /\ status' = [status EXCEPT ![o] = "CREATED"]
  /\ UNCHANGED <<charge, knownId>>

RequestPayment(o) ==
  /\ status[o] = "CREATED"
  /\ status' = [status EXCEPT ![o] = "PROCESSING"]
  /\ UNCHANGED <<charge, knownId>>

\* The provider makes the one payment of o, distinct from every other payment.
Charge(o, id) ==
  /\ status[o] = "PROCESSING"
  /\ charge[o] = None
  /\ \A other \in Operations : charge[other] # id
  /\ charge' = [charge EXCEPT ![o] = id]
  /\ UNCHANGED <<status, knownId>>

\* The provider's answer arrives.
LearnId(o) ==
  /\ status[o] = "PROCESSING"
  /\ charge[o] # None
  /\ knownId[o] = None
  /\ knownId' = [knownId EXCEPT ![o] = charge[o]]
  /\ UNCHANGED <<status, charge>>

\* The first receipt arrives, before or after the answer.
Settle(o, result) ==
  /\ status[o] = "PROCESSING"
  /\ charge[o] # None
  /\ status' = [status EXCEPT ![o] = result]
  /\ knownId' = [knownId EXCEPT ![o] = charge[o]]
  /\ UNCHANGED charge

LifecycleNext ==
  \E o \in Operations :
    \/ Register(o) \/ RequestPayment(o) \/ LearnId(o)
    \/ \E id \in PaymentIds : Charge(o, id)
    \/ \E result \in {"COMPLETED", "REJECTED"} : Settle(o, result)

LifecycleSpec == LifecycleInit /\ [][LifecycleNext]_lifecycle
=============================================================================
