------------------------------ MODULE MCTelegram ------------------------------
(* Two updates of any kind, two of them handled at a time. *)
EXTENDS Telegram
===============================================================================
