----------------------------- MODULE MCProcess ------------------------------
(* TLC instance: two processes on one database, two requests at a time, a  *)
(* limit of two uses and windows of one tick and of three.                 *)
EXTENDS Process

=============================================================================
