--------------------------- MODULE AtomicRegister ---------------------------
(***************************************************************************)
(* What BboPublisher promises its readers for one locate code: a register  *)
(* holding one snapshot, replaced as a whole by each publish and read as a *)
(* whole by each read.  A snapshot is named by the store that wrote it.    *)
(***************************************************************************)
EXTENDS Naturals

CONSTANTS
  Readers,   \* the strategy and risk threads that read the BBO
  Words      \* the machine words of one BboSnapshot

VARIABLES
  register,  \* the store whose snapshot the register holds
  ret        \* per reader, the words its last read returned

registerVars == <<register, ret>>

Whole(v) == [i \in Words |-> v]

RegisterInit ==
  /\ register = 0
  /\ ret = [r \in Readers |-> Whole(0)]

Publish ==
  /\ register' \in Nat
  /\ register' > register
  /\ UNCHANGED ret

Read(r) ==
  /\ ret' = [ret EXCEPT ![r] = Whole(register)]
  /\ UNCHANGED register

RegisterNext == Publish \/ \E r \in Readers : Read(r)

RegisterSpec == RegisterInit /\ [][RegisterNext]_registerVars
=============================================================================
