------------------------- MODULE MCMerchantNotifier -------------------------
(* One API process with one screen, and a Celery worker.                    *)
EXTENDS MerchantNotifier
=============================================================================
