----------------------------- MODULE MCPayments -----------------------------
(* Instance of Payments for TLC. *)
EXTENDS Payments

CONSTANTS cron, none

MCCron  == cron
MCNoKey == none
=============================================================================
