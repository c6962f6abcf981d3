------------------------------ MODULE MCMailbox ------------------------------
(* The power service and one client; two mailboxes can be allocated, the     *)
(* third is the one that look-ups find.                                      *)
EXTENDS Mailbox

MCLists  == {{}, {1}}
MCAccess == {{0, 1}, {2}}
=============================================================================
