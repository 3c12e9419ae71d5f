-------------------------- MODULE MCNotifications --------------------------
(***************************************************************************)
(* One mail in two copies before two listeners: mails share nothing but    *)
(* the listeners, and every race is one between copies of a mail.          *)
(***************************************************************************)
EXTENDS Notifications

CONSTANTS m1, l1, l2

OneMail == {m1}
OneListener == {l1}
TwoListeners == {l1, l2}
=============================================================================
