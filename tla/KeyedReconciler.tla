--------------------------- MODULE KeyedReconciler ---------------------------
(***************************************************************************)
(* What a controller promises its reconciler, whatever the number of       *)
(* workers and however events, retries and shutdown interleave: for every  *)
(* key at most one call is under way; a call carries an object that was    *)
(* the current one at some time after the key's last call was over; and a  *)
(* call either succeeds, which makes its object the known one, or fails    *)
(* and changes nothing.                                                    *)
(***************************************************************************)
EXTENDS Naturals

CONSTANTS Keys, Object, NoObject, NoCall

VARIABLES
  current,  \* per key, the object as the controller's cache has it
  call,     \* per key, the object of the call under way, or NoCall
  known     \* per key, the object of the last call that succeeded

vars == <<current, call, known>>

Init ==
  /\ current = [k \in Keys |-> NoObject]
  /\ call = [k \in Keys |-> NoCall]
  /\ known = [k \in Keys |-> NoObject]

Change(k) ==
  /\ \E o \in Object : /\ o.rev = current[k].rev + 1
                       /\ current' = [current EXCEPT ![k] = o]
  /\ UNCHANGED <<call, known>>

Begin(k) ==
  /\ call[k] = NoCall
  /\ call' = [call EXCEPT ![k] = current[k]]
  /\ UNCHANGED <<current, known>>

Succeed(k) ==
  /\ call[k] # NoCall
  /\ known' = [known EXCEPT ![k] = call[k]]
  /\ call' = [call EXCEPT ![k] = NoCall]
  /\ UNCHANGED current

Fail(k) ==
  /\ call[k] # NoCall
  /\ call' = [call EXCEPT ![k] = NoCall]
  /\ UNCHANGED <<current, known>>

Next == \E k \in Keys : Change(k) \/ Begin(k) \/ Succeed(k) \/ Fail(k)

Spec == Init /\ [][Next]_vars
=============================================================================
