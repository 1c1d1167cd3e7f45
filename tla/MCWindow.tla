------------------------------ MODULE MCWindow ------------------------------
(* Small instances of Window for TLC.                                      *)
EXTENDS Window

MailboxAnswers == [p \in Port |-> "mailbox"]
=============================================================================
