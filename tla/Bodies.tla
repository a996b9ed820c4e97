------------------------------- MODULE Bodies -------------------------------
(* What the parsers of request bodies answer to a body they do not take.    *)

Invalid == [op |-> "unprocessable"]
=============================================================================
