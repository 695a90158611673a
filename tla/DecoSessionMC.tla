---------------------------- MODULE DecoSessionMC ----------------------------
(* Two threads with clients of their own, between them making every call of
   that kind, beside the long-lived client.                                 *)
EXTENDS DecoSession

CONSTANTS lists, pages, keeper, none

Calls == [t \in {lists, pages, keeper} |->
            CASE t = lists  -> {"clients", "write"}
              [] t = pages  -> {"topology", "optimize"}
              [] t = keeper -> {"read", "list"}]

=============================================================================
