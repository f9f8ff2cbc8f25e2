-------------------------------- MODULE Lives --------------------------------
(* What everyone who keeps the address of a session relies on: a block holds   *)
(* one session at a time, the services are told once when it ends, its handle  *)
(* is closed once, and the block is given back by a callback that does nothing *)
(* else.  So whoever ends a session in the middle of a handler may go on using *)
(* it until the handler returns.  Modules Session (each callback of netbus) and*)
(* Gateway (whole handlers of the gateway's script) implement this.            *)
CONSTANT Addresses

VARIABLE life   \* life[a]: "free", "used", "ended" (told, handle open) or "closing"

Init == life = [a \in Addresses |-> "free"]

(* A handler that creates sessions, perhaps several, ends none. *)
Begin == \E S \in SUBSET Addresses :
           /\ \A a \in S : life[a] = "free"
           /\ life' = [a \in Addresses |-> IF a \in S THEN "used" ELSE life[a]]

(* The services are told; a session without a connection loses its handle, too. *)
End(a) == /\ life[a] = "used"
          /\ \E how \in {"ended", "closing"} : life' = [life EXCEPT ![a] = how]

CloseHandle(a) == /\ life[a] = "ended"
                  /\ life' = [life EXCEPT ![a] = "closing"]

GiveBack(a) == /\ life[a] = "closing"
               /\ life' = [life EXCEPT ![a] = "free"]

Next == Begin \/ \E a \in Addresses : End(a) \/ CloseHandle(a) \/ GiveBack(a)

Spec == Init /\ [][Next]_life
=============================================================================
