---------------------------- MODULE MCMailQueue ----------------------------
(* Model values are enough: the .cfg files set them.                        *)
EXTENDS MailQueue
=============================================================================
