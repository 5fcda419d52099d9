-------------------------- MODULE MCTelegramWorker --------------------------
(* A small instance of TelegramWorker for TLC.  See MCTelegramWorker.cfg.    *)
EXTENDS TelegramWorker
=============================================================================
