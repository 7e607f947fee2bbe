------------------------------ MODULE KeySlots ------------------------------
(***************************************************************************)
(* What changing the keys of LUKS containers promises: the key slots of a   *)
(* container change one at a time, and none is removed unless another one   *)
(* is left.  However the work is interrupted, some key opens every          *)
(* container.                                                               *)
(***************************************************************************)
EXTENDS Naturals

CONSTANT Containers

VARIABLE keys       \* how many slots of every container hold each secret

Secrets == {"build", "new", "tpm"}

Slots == [Secrets -> Nat]

\* A container as luksFormat leaves it.
Formatted == [s \in Secrets |-> IF s = "build" THEN 1 ELSE 0]

Total(slots) == slots["build"] + slots["new"] + slots["tpm"]

Format == keys' = [d \in Containers |-> Formatted]

Add(d, s) == keys' = [keys EXCEPT ![d][s] = keys[d][s] + 1]

Remove(d, s) ==
    /\ keys[d][s] > 0
    /\ Total(keys[d]) > 1
    /\ keys' = [keys EXCEPT ![d][s] = keys[d][s] - 1]

-----------------------------------------------------------------------------

KInit == keys = [d \in Containers |-> Formatted]

KNext ==
    \/ Format
    \/ \E d \in Containers, s \in Secrets : Add(d, s) \/ Remove(d, s)

KSpec == KInit /\ [][KNext]_keys

\* Every container has a slot left (luksAddKey before luksRemoveKey).
KeyLeft == \A d \in Containers : Total(keys[d]) > 0
=============================================================================
