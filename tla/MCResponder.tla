---------------------------- MODULE MCResponder ----------------------------
(* A small instance of Responder: two sources, so that one may take the    *)
(* other's place under a cap, and an hour longer than a minute.            *)
EXTENDS Responder
=============================================================================
