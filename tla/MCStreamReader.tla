--------------------------- MODULE MCStreamReader ---------------------------
(***************************************************************************)
(* Every kind of frame; a trailer, and a frame that does not decode, with  *)
(* and without a payload.                                                  *)
(***************************************************************************)
EXTENDS StreamReader

MCFrame == {[kind |-> "data", empty |-> FALSE], [kind |-> "bad", empty |-> FALSE],
            [kind |-> "bad", empty |-> TRUE],
            [kind |-> "huge", empty |-> FALSE], [kind |-> "failure", empty |-> FALSE],
            [kind |-> "trailer", empty |-> FALSE], [kind |-> "trailer", empty |-> TRUE]}
=============================================================================
