----------------------------- MODULE LogChannel -----------------------------
(***************************************************************************)
(* What the daap transport promises about log lines: each line submitted   *)
(* is sent at most once, and then delivered at most once or lost.  Nothing *)
(* orders two lines, and nothing tells the caller that a line was lost     *)
(* (daapLogWrite() ignores the result of daapTCPLogWrite()).               *)
(***************************************************************************)
CONSTANT Lines          \* the lines that can be submitted

VARIABLE status         \* how far each line has come

States == {"new", "pending", "sent", "delivered", "lost"}

Init == status = [l \in Lines |-> "new"]

Move(l, from, to) == status[l] = from /\ status' = [status EXCEPT ![l] = to]

Submit(l)  == Move(l, "new", "pending")
Send(l)    == Move(l, "pending", "sent")
GiveUp(l)  == Move(l, "pending", "lost")
Deliver(l) == Move(l, "sent", "delivered")
Lose(l)    == Move(l, "sent", "lost")

Next == \E l \in Lines :
    Submit(l) \/ Send(l) \/ GiveUp(l) \/ Deliver(l) \/ Lose(l)

Spec == Init /\ [][Next]_status
=============================================================================
