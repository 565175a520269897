----------------------------- MODULE LockTable -----------------------------
(***************************************************************************)
(* What package locks (go-machine-service/locks) promises its callers:     *)
(* "Provides an application-wide lock on the provided key.  If the lock is *)
(* obtained, it will return an Unlocker.  If the lock is not successfully  *)
(* obtained, nil will be returned."                                        *)
(*                                                                         *)
(* A call is decided in one instant between its start and its return: it   *)
(* is granted when nobody owns the key and refused when somebody does.     *)
(* Between two calls of Unlock() and their effect the key is still owned.  *)
(***************************************************************************)
CONSTANTS Client, Key

VARIABLES status, \* status[c]: how far client c is with its lock
          key     \* key[c]: the key c last asked for

vars == <<status, key>>

Owning == {"granted", "holding", "releasing"}

Owned == {key[c] : c \in {d \in Client : status[d] \in Owning}}

Init == /\ status = [c \in Client |-> "idle"]
        /\ key \in [Client -> Key]

Call(c, k) == /\ status[c] = "idle"
              /\ status' = [status EXCEPT ![c] = "calling"]
              /\ key' = [key EXCEPT ![c] = k]

Grant(c) == /\ status[c] = "calling"
            /\ key[c] \notin Owned
            /\ status' = [status EXCEPT ![c] = "granted"]
            /\ UNCHANGED key

Refuse(c) == /\ status[c] = "calling"
             /\ key[c] \in Owned
             /\ status' = [status EXCEPT ![c] = "refused"]
             /\ UNCHANGED key

Return(c) == /\ \/ status[c] = "granted" /\ status' = [status EXCEPT ![c] = "holding"]
                \/ status[c] = "refused" /\ status' = [status EXCEPT ![c] = "idle"]
             /\ UNCHANGED key

Unlock(c) == /\ status[c] = "holding"
             /\ status' = [status EXCEPT ![c] = "releasing"]
             /\ UNCHANGED key

Release(c) == /\ status[c] = "releasing"
              /\ status' = [status EXCEPT ![c] = "idle"]
              /\ UNCHANGED key

Next == \E c \in Client : \/ \E k \in Key : Call(c, k)
                          \/ Grant(c) \/ Refuse(c) \/ Return(c)
                          \/ Unlock(c) \/ Release(c)

Spec == Init /\ [][Next]_vars
=============================================================================
