----------------------------- MODULE MCDispatch -----------------------------
(* A live dispatch over two targets, more than its continuations may try, and *)
(* a plain one that meets it on the first, behind two targets it must skip.    *)
EXTENDS Dispatch

MCRequests == {"live", "plain"}
MCTargets == {"a", "b", "small", "excluded"}
MCChain == [r \in MCRequests |->
              IF r = "live" THEN <<"a", "b">> ELSE <<"small", "excluded", "a">>]
MCLive == {"live"}
MCUnfit == {"small"}
MCBarred == {"excluded"}
MCTroubled == {"a"}
=============================================================================
