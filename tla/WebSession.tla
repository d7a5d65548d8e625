----------------------------- MODULE WebSession -----------------------------
(***************************************************************************)
(* What the polling loop counts on from tpapi.Client, its Router interface: *)
(* a stok is there after a Login that returned nil, is left as it was by a  *)
(* Login that failed and by every Call, and is gone after any Logout.       *)
(* Without one a Call fails and a Logout has nothing to do.                 *)
(***************************************************************************)
CONSTANTS Errors               \* what an operation may return beside "nil"
VARIABLES doing, hasStok, err

Operations == {"Login", "Call", "Logout"}

Init == doing = "nothing" /\ hasStok = FALSE /\ err = "nil"

Begin == doing = "nothing" /\ doing' \in Operations /\ UNCHANGED <<hasStok, err>>

\* Without a stok a Call fails and a Logout succeeds, and nothing is sent.
NothingToAsk == /\ doing = "nothing" /\ ~hasStok
                /\ err' \in {"nil"} \cup Errors /\ UNCHANGED <<doing, hasStok>>

Return(op, e, s) == doing = op /\ doing' = "nothing" /\ err' = e /\ hasStok' = s

LoginReturns  == \/ Return("Login", "nil", TRUE)
                 \/ \E e \in Errors : Return("Login", e, hasStok)
CallReturns   == \/ hasStok /\ Return("Call", "nil", hasStok)
                 \/ \E e \in Errors : Return("Call", e, hasStok)
LogoutReturns == \/ Return("Logout", "nil", FALSE)
                 \/ \E e \in Errors : hasStok /\ Return("Logout", e, FALSE)

Next == Begin \/ NothingToAsk \/ LoginReturns \/ CallReturns \/ LogoutReturns

Spec == Init /\ [][Next]_<<doing, hasStok, err>>
=============================================================================
